----------------------------- MODULE AskReply -----------------------------
(***************************************************************************)
(* The ask/reply protocol of src/src/ipc.c: the table of pending asks under *)
(* ask_lock, the correlation ids, and the calls that use them: ipc_ask,    *)
(* ipc_reply, ipc_reply_error, ipc_ask_cancel, the expiry of a timeout and *)
(* the dispatch of messages by the actors' threads.                        *)
(*                                                                         *)
(* Every section under ask_lock and every ipc_port_send is one action; the *)
(* calls release the lock in between, so one call is several actions, and  *)
(* threads, timers and callbacks interleave there.  A mailbox is the       *)
(* bounded queue of module Mailbox.  Actors are running throughout.        *)
(*                                                                         *)
(* Asks are numbered 1, 2, ... by an auxiliary "ser" that the program does *)
(* not have: table slots, messages and timers carry it next to the 32-bit  *)
(* ask_id, so that the properties can say which ask a thing belongs to.    *)
(***************************************************************************)
EXTENDS Integers, Sequences, FiniteSets

CONSTANTS Actor,        \* actors, each with a thread of its own
          External,     \* other threads that call the API (main, drivers)
          Noisy,        \* actors that also receive ordinary messages
          ReplyId,      \* ids of reply descriptors
          Oversize,     \* reply ids that repliers declare with a payload too large for
                        \* the asker, under the same name as the asker's own descriptor
          TimedAsks,    \* which asks are made: TRUE with a timeout, FALSE without
          NoReply, NoActor, NoMsg,
          MaxInflight,  \* IPC_CORE_MAX_INFLIGHT_QUERIES
          IdSpace,      \* 2^32 in the program
          QueueDepth,   \* cfg.queue_depth
          MaxAsks,      \* bound: asks begun in a behaviour
          MaxRestarts   \* bound: supervision restarts in a behaviour

ASSUME ActorAssumption == /\ Actor \cap External = {} /\ NoActor \notin Actor
                          /\ Noisy \subseteq Actor
ASSUME ReplyAssumption == /\ {"request", "timeout", "plain"} \cap ReplyId = {}
                          /\ NoReply \notin ReplyId
                          /\ Oversize \subseteq ReplyId
ASSUME SizeAssumption == /\ MaxInflight \in Nat \ {0}
                         /\ IdSpace \in Nat /\ IdSpace > MaxInflight + 1
                         /\ QueueDepth \in Nat \ {0}
                         /\ MaxAsks \in Nat /\ MaxRestarts \in Nat
ASSUME TimedAssumption == TimedAsks \subseteq BOOLEAN

Slot == 0 .. MaxInflight - 1
Id == 0 .. IdSpace - 1
Serial == 1 .. MaxAsks
Thread == Actor \cup External

VARIABLES ask_table,    \* the pending asks
          next_ask_id,
          mailbox,      \* the mailbox of each actor
          pc,           \* where each thread is
          cur,          \* the message each actor thread is dispatching
          call,         \* arguments of the API call a thread is in
          timer,        \* the timeout helper of each ask
          restarts,     \* restarts so far
          asked,        \* auxiliary: asks begun so far
          info,         \* auxiliary: actor, id and calling thread of each ask
          status,       \* auxiliary: what became of the call to ipc_ask
          callbacks,    \* auxiliary: callback invocations per ask
          accepted,     \* auxiliary: replies that were not refused, per ask
          lost          \* auxiliary: asks whose reply or timeout message was dropped

table == <<ask_table, next_ask_id>>
threads == <<pc, cur, call>>
history == <<asked, info, status, callbacks, accepted, lost>>
vars == <<ask_table, next_ask_id, mailbox, pc, cur, call, timer, restarts,
          asked, info, status, callbacks, accepted, lost>>

\* ipc_pending_ask_t; the callback is the asker's and deadline_ms is never read.
Pending == [used : BOOLEAN, reply_sent : BOOLEAN, timeout_queued : BOOLEAN,
            ask_id : Id, reply_id : ReplyId \cup {NoReply},
            actor : Actor \cup {NoActor}, ser : 0 .. MaxAsks]

\* What memset(pending, 0, sizeof(*pending)) leaves.
Cleared == [used |-> FALSE, reply_sent |-> FALSE, timeout_queued |-> FALSE,
            ask_id |-> 0, reply_id |-> NoReply, actor |-> NoActor, ser |-> 0]

\* struct ipc_msg as far as dispatch reads it.
Message == [id : ReplyId \cup {"request", "timeout", "plain"}, ask_id : Id,
            reply_id : ReplyId \cup {NoReply}, ser : 0 .. MaxAsks]

Request(c) == [id |-> "request", ask_id |-> c.ask_id, reply_id |-> c.reply_id, ser |-> c.ser]
Answer(c) == [id |-> c.reply_id, ask_id |-> c.ask_id, reply_id |-> NoReply, ser |-> c.ser]
Timeout(s) == [id |-> "timeout", ask_id |-> info[s].ask_id, reply_id |-> NoReply, ser |-> s]
Plain == [id |-> "plain", ask_id |-> 0, reply_id |-> NoReply, ser |-> 0]

(* "idle"       an actor thread between messages                           *)
(* "dispatch"   in ipc_dispatch_actor_handlers, before ask_lock            *)
(* "user"       in a handler, a callback or other application code         *)
(* "ask_arm"    ipc_ask: slot taken, timeout not yet scheduled             *)
(* "ask_send"   ipc_ask: about to send the request                         *)
(* "ask_undo"   ipc_ask: no timeout, or the request was not accepted       *)
(* "reply_send" ipc_reply*: reply_sent is set, about to send               *)
(* "reply_undo" ipc_reply*: the reply was not accepted                     *)
ThreadState == {"idle", "dispatch", "user", "ask_arm", "ask_send", "ask_undo",
                "reply_send", "reply_undo"}

\* self is the asker, to the receiver of the message the call sends.
Call == [to : Actor \cup {NoActor}, ask_id : Id, reply_id : ReplyId \cup {NoReply},
         ser : 0 .. MaxAsks]
NoCall == [to |-> NoActor, ask_id |-> 0, reply_id |-> NoReply, ser |-> 0]

TimerState == {"none", "armed", "sending", "undo", "done"}
Status == {"unused", "calling", "ok", "error", "cancelled"}
Info == [actor : Actor \cup {NoActor}, ask_id : Id, by : Thread \cup {NoActor}]

TypeOK == /\ ask_table \in [Slot -> Pending]
          /\ next_ask_id \in Id
          /\ mailbox \in [Actor -> Seq(Message)]
          /\ pc \in [Thread -> ThreadState]
          /\ cur \in [Thread -> Message \cup {NoMsg}]
          /\ call \in [Thread -> Call]
          /\ timer \in [Serial -> TimerState]
          /\ restarts \in 0 .. MaxRestarts
          /\ asked \in 0 .. MaxAsks
          /\ info \in [Serial -> Info]
          /\ status \in [Serial -> Status]
          /\ callbacks \in [Serial -> Nat]
          /\ accepted \in [Serial -> Nat]
          /\ lost \in [Serial -> BOOLEAN]

Init == /\ ask_table = [i \in Slot |-> Cleared]
        /\ next_ask_id = 1
        /\ mailbox = [a \in Actor |-> <<>>]
        /\ pc = [t \in Thread |-> IF t \in Actor THEN "idle" ELSE "user"]
        /\ cur = [t \in Thread |-> NoMsg]
        /\ call = [t \in Thread |-> NoCall]
        /\ timer = [s \in Serial |-> "none"]
        /\ restarts = 0
        /\ asked = 0
        /\ info = [s \in Serial |-> [actor |-> NoActor, ask_id |-> 0, by |-> NoActor]]
        /\ status = [s \in Serial |-> "unused"]
        /\ callbacks = [s \in Serial |-> 0]
        /\ accepted = [s \in Serial |-> 0]
        /\ lost = [s \in Serial |-> FALSE]

-----------------------------------------------------------------------------
(* The table *)

Holds(i, id) == ask_table[i].used /\ ask_table[i].ask_id = id

\* find_pending_ask(id) returns slot i: the first one in use with that id.
Found(id, i) == Holds(i, id) /\ \A j \in Slot : j < i => ~Holds(j, id)

IsPending(id) == \E i \in Slot : Holds(i, id)

\* alloc_pending_ask() returns slot i.
FirstFree(i) == ~ask_table[i].used /\ \A j \in Slot : j < i => ask_table[j].used

\* Mutant of Candidate: the lowest ids first.
CandidateFromOne(k) == (1 + k) % IdSpace

\* The k-th value of next_ask_id++ that alloc_ask_id looks at.
Candidate(k) == (next_ask_id + k) % IdSpace

Counted(k) == Cardinality({j \in 0 .. k - 1 : Candidate(j) # 0})

\* Mutants of AllocId: pending ids are taken; one candidate too few.
AllocIdUnchecked(k) == /\ Candidate(k) # 0
                       /\ \A j \in 0 .. k - 1 : Candidate(j) = 0
AllocIdShort(k) == /\ Candidate(k) # 0
                   /\ ~IsPending(Candidate(k))
                   /\ \A j \in 0 .. k - 1 : Candidate(j) = 0 \/ IsPending(Candidate(j))
                   /\ Counted(k) < MaxInflight - 1

\* alloc_ask_id stops at its k-th candidate: the first that is neither 0 nor
\* pending, within MaxInflight candidates other than 0.  That it never runs
\* out of candidates, so that its -ENOMEM is never returned, is IdAvailable.
AllocId(k) == /\ Candidate(k) # 0
              /\ ~IsPending(Candidate(k))
              /\ \A j \in 0 .. k - 1 : Candidate(j) = 0 \/ IsPending(Candidate(j))
              /\ Counted(k) < MaxInflight

\* Find the slot of id under ask_lock and clear it, if there is one.
WithoutAsk(id) == [i \in Slot |-> IF Found(id, i) THEN Cleared ELSE ask_table[i]]

-----------------------------------------------------------------------------
(* ipc_port_send *)

Room(a) == Len(mailbox[a]) < QueueDepth

Enqueue(a, m) == mailbox' = [mailbox EXCEPT ![a] = Append(@, m)]

Goto(t, state) == pc' = [pc EXCEPT ![t] = state]

-----------------------------------------------------------------------------
(* ipc_ask_with_id_raw, called by thread t on behalf of actor a *)

\* Take a slot and an id.  With no free slot the call returns -ENOMEM and
\* changes nothing.
Ask(t, a, b, d, timed) ==
    /\ pc[t] = "user"
    /\ t \in Actor => a = t
    /\ asked < MaxAsks
    /\ \E i \in Slot, k \in 0 .. MaxInflight :
          /\ FirstFree(i)
          /\ AllocId(k)
          /\ ask_table' = [ask_table EXCEPT ![i] =
                             [used |-> TRUE, reply_sent |-> FALSE, timeout_queued |-> FALSE,
                              ask_id |-> Candidate(k), reply_id |-> d, actor |-> a,
                              ser |-> asked + 1]]
          /\ next_ask_id' = Candidate(k + 1)
          /\ call' = [call EXCEPT ![t] = [to |-> b, ask_id |-> Candidate(k),
                                          reply_id |-> d, ser |-> asked + 1]]
          /\ info' = [info EXCEPT ![asked + 1] = [actor |-> a, ask_id |-> Candidate(k),
                                                  by |-> t]]
    /\ Goto(t, IF timed THEN "ask_arm" ELSE "ask_send")
    /\ asked' = asked + 1
    /\ status' = [status EXCEPT ![asked + 1] = "calling"]
    /\ UNCHANGED <<mailbox, cur, timer, restarts, callbacks, accepted, lost>>

AskReturns(t, result) ==
    /\ Goto(t, "user")
    /\ call' = [call EXCEPT ![t] = NoCall]
    /\ status' = [status EXCEPT ![call[t].ser] = result]

\* ipc_port_schedule_ask_timeout succeeds.
AskArm(t) == /\ pc[t] = "ask_arm"
             /\ timer' = [timer EXCEPT ![call[t].ser] = "armed"]
             /\ Goto(t, "ask_send")
             /\ UNCHANGED <<table, mailbox, cur, call, restarts, history>>

\* It fails (no memory, no thread): the ask will be withdrawn.
AskArmFails(t) == /\ pc[t] = "ask_arm"
                  /\ Goto(t, "ask_undo")
                  /\ UNCHANGED <<table, mailbox, cur, call, timer, restarts, history>>

AskSend(t) == /\ pc[t] = "ask_send"
              /\ Room(call[t].to)
              /\ Enqueue(call[t].to, Request(call[t]))
              /\ AskReturns(t, "ok")
              /\ UNCHANGED <<table, cur, timer, restarts, asked, info, callbacks, accepted, lost>>

AskSendFails(t) == /\ pc[t] = "ask_send"
                   /\ ~Room(call[t].to)
                   /\ Goto(t, "ask_undo")
                   /\ UNCHANGED <<table, mailbox, cur, call, timer, restarts, history>>

\* Mutant of AskUndo: the slot is kept.
AskUndoKeepsSlot(t) == /\ pc[t] = "ask_undo"
                       /\ AskReturns(t, "error")
                       /\ UNCHANGED <<table, mailbox, cur, timer, restarts, asked, info,
                                      callbacks, accepted, lost>>

AskUndo(t) == /\ pc[t] = "ask_undo"
              /\ ask_table' = WithoutAsk(call[t].ask_id)
              /\ AskReturns(t, "error")
              /\ UNCHANGED <<next_ask_id, mailbox, cur, timer, restarts, asked, info,
                             callbacks, accepted, lost>>

-----------------------------------------------------------------------------
(* ipc_ask_cancel, with the id that an ask returned *)

\* Mutant of Cancel: the slot is found and kept.
CancelKeepsSlot(t, s) ==
    /\ pc[t] = "user"
    /\ status[s] \in {"ok", "cancelled"}
    /\ t \in Actor => info[s].actor = t
    /\ \E i \in Slot : /\ Found(info[s].ask_id, i)
                       /\ ask_table[i].actor = info[s].actor
                       /\ status' = [status EXCEPT ![ask_table[i].ser] = "cancelled"]
    /\ UNCHANGED <<table, mailbox, threads, timer, restarts, asked, info, callbacks, accepted, lost>>

Cancel(t, s) ==
    /\ pc[t] = "user"
    /\ status[s] \in {"ok", "cancelled"}
    /\ t \in Actor => info[s].actor = t
    /\ \E i \in Slot : /\ Found(info[s].ask_id, i)
                       /\ ask_table[i].actor = info[s].actor
                       /\ ask_table' = [ask_table EXCEPT ![i] = Cleared]
                       /\ status' = [status EXCEPT ![ask_table[i].ser] = "cancelled"]
    /\ UNCHANGED <<next_ask_id, mailbox, threads, timer, restarts, asked, info,
                   callbacks, accepted, lost>>

-----------------------------------------------------------------------------
(* ipc_reply_raw and ipc_reply_error_raw, called by a handler on its message *)

\* Mutant of Repliable: reply_sent is not looked at.
RepliableTwice(t, i, d) == /\ pc[t] = "user"
                           /\ cur[t] # NoMsg
                           /\ cur[t].ask_id # 0
                           /\ Found(cur[t].ask_id, i)
                           /\ ask_table[i].reply_id = d
                           /\ cur[t].reply_id = d

\* Slot i is the ask the message belongs to, it expects a reply of id d, and
\* no reply was sent.  Otherwise the call returns -ENOENT, -EINVAL or
\* -EALREADY and changes nothing.
Repliable(t, i, d) == /\ pc[t] = "user"
                      /\ cur[t] # NoMsg
                      /\ cur[t].ask_id # 0
                      /\ Found(cur[t].ask_id, i)
                      /\ ask_table[i].reply_id = d
                      /\ cur[t].reply_id = d
                      /\ ~ask_table[i].reply_sent

AcceptReply(t, i) ==
    /\ ask_table' = [ask_table EXCEPT ![i].reply_sent = TRUE]
    /\ call' = [call EXCEPT ![t] = [to |-> ask_table[i].actor, ask_id |-> cur[t].ask_id,
                                    reply_id |-> ask_table[i].reply_id, ser |-> cur[t].ser]]
    /\ accepted' = [accepted EXCEPT ![cur[t].ser] = @ + 1]
    /\ Goto(t, "reply_send")
    /\ UNCHANGED <<next_ask_id, mailbox, cur, timer, restarts, asked, info, status,
                   callbacks, lost>>

Reply(t, d) == \E i \in Slot : Repliable(t, i, d) /\ d \notin Oversize /\ AcceptReply(t, i)

\* The reply is larger than the asker's messages: the ask is forgotten.
ReplyTooLarge(t, d) ==
    /\ d \in Oversize
    /\ \E i \in Slot : /\ Repliable(t, i, d)
                       /\ ask_table' = [ask_table EXCEPT ![i] = Cleared]
    /\ lost' = [lost EXCEPT ![cur[t].ser] = TRUE]
    /\ UNCHANGED <<next_ask_id, mailbox, threads, timer, restarts, asked, info, status,
                   callbacks, accepted>>

ReplyError(t) == \E i \in Slot, d \in ReplyId : Repliable(t, i, d) /\ AcceptReply(t, i)

ReplySend(t) == /\ pc[t] = "reply_send"
                /\ Room(call[t].to)
                /\ Enqueue(call[t].to, Answer(call[t]))
                /\ Goto(t, "user")
                /\ call' = [call EXCEPT ![t] = NoCall]
                /\ UNCHANGED <<table, cur, timer, restarts, history>>

ReplySendFails(t) == /\ pc[t] = "reply_send"
                     /\ ~Room(call[t].to)
                     /\ Goto(t, "reply_undo")
                     /\ UNCHANGED <<table, mailbox, cur, call, timer, restarts, history>>

\* The ask is dropped from the table, whoever holds the id by now.
ReplyUndo(t) == /\ pc[t] = "reply_undo"
                /\ ask_table' = WithoutAsk(call[t].ask_id)
                /\ lost' = [lost EXCEPT ![call[t].ser] = TRUE]
                /\ Goto(t, "user")
                /\ call' = [call EXCEPT ![t] = NoCall]
                /\ UNCHANGED <<next_ask_id, mailbox, cur, timer, restarts, asked, info,
                               status, callbacks, accepted>>

-----------------------------------------------------------------------------
(* The timeout helper of ask s: ask_timeout_thread_fn after its sleep, and  *)
(* ipc_ask_timeout_expired                                                  *)

TimerHits(s, i) == Found(info[s].ask_id, i) /\ ask_table[i].actor = info[s].actor

TimerExpires(s) ==
    /\ timer[s] = "armed"
    /\ \E i \in Slot : /\ TimerHits(s, i)
                       /\ ~ask_table[i].timeout_queued
                       /\ ask_table' = [ask_table EXCEPT ![i] =
                                          [@ EXCEPT !.reply_sent = TRUE, !.timeout_queued = TRUE]]
    /\ timer' = [timer EXCEPT ![s] = "sending"]
    /\ UNCHANGED <<next_ask_id, mailbox, threads, restarts, history>>

\* Mutant of TimerLate: an ask that was answered needs no timeout.
TimerLateIfAnswered(s) ==
    /\ timer[s] = "armed"
    /\ \A i \in Slot : TimerHits(s, i) => ask_table[i].timeout_queued \/ ask_table[i].reply_sent
    /\ timer' = [timer EXCEPT ![s] = "done"]
    /\ UNCHANGED <<table, mailbox, threads, restarts, history>>

TimerLate(s) ==
    /\ timer[s] = "armed"
    /\ \A i \in Slot : TimerHits(s, i) => ask_table[i].timeout_queued
    /\ timer' = [timer EXCEPT ![s] = "done"]
    /\ UNCHANGED <<table, mailbox, threads, restarts, history>>

TimerSend(s) == /\ timer[s] = "sending"
                /\ Room(info[s].actor)
                /\ Enqueue(info[s].actor, Timeout(s))
                /\ timer' = [timer EXCEPT ![s] = "done"]
                /\ UNCHANGED <<table, threads, restarts, history>>

\* Mutant of TimerSendFails: the result of the send is not looked at.
TimerForgets(s) == /\ timer[s] = "sending"
                   /\ ~Room(info[s].actor)
                   /\ timer' = [timer EXCEPT ![s] = "done"]
                   /\ UNCHANGED <<table, mailbox, threads, restarts, history>>

TimerSendFails(s) == /\ timer[s] = "sending"
                     /\ ~Room(info[s].actor)
                     /\ timer' = [timer EXCEPT ![s] = "undo"]
                     /\ UNCHANGED <<table, mailbox, threads, restarts, history>>

\* The helper does not try again.
TimerUndo(s) ==
    /\ timer[s] = "undo"
    /\ ask_table' = [i \in Slot |->
                       IF TimerHits(s, i)
                       THEN [ask_table[i] EXCEPT !.reply_sent = FALSE, !.timeout_queued = FALSE]
                       ELSE ask_table[i]]
    /\ timer' = [timer EXCEPT ![s] = "done"]
    /\ lost' = [lost EXCEPT ![s] = TRUE]
    /\ UNCHANGED <<next_ask_id, mailbox, threads, restarts, asked, info, status,
                   callbacks, accepted>>

-----------------------------------------------------------------------------
(* The thread of actor a *)

Dequeue(a) == /\ pc[a] = "idle"
              /\ mailbox[a] # <<>>
              /\ cur' = [cur EXCEPT ![a] = Head(mailbox[a])]
              /\ mailbox' = [mailbox EXCEPT ![a] = Tail(@)]
              /\ Goto(a, "dispatch")
              /\ UNCHANGED <<table, call, timer, restarts, history>>

\* ipc_dispatch_actor_handlers finds the ask that the message completes.
Completes(a, i) == /\ cur[a].ask_id # 0
                   /\ Found(cur[a].ask_id, i)
                   /\ ask_table[i].actor = a
                   /\ \/ cur[a].id = "timeout" /\ ask_table[i].timeout_queued
                      \/ cur[a].id = ask_table[i].reply_id

\* Mutant of DispatchCallback: the slot is kept.
DispatchKeepsSlot(a) ==
    /\ pc[a] = "dispatch"
    /\ \E i \in Slot : /\ Completes(a, i)
                       /\ callbacks' = [callbacks EXCEPT ![ask_table[i].ser] = @ + 1]
    /\ Goto(a, "user")
    /\ UNCHANGED <<table, mailbox, cur, call, timer, restarts, asked, info, status, accepted, lost>>

\* The ask is over: its slot is cleared and its callback runs.
DispatchCallback(a) ==
    /\ pc[a] = "dispatch"
    /\ \E i \in Slot : /\ Completes(a, i)
                       /\ ask_table' = [ask_table EXCEPT ![i] = Cleared]
                       /\ callbacks' = [callbacks EXCEPT ![ask_table[i].ser] = @ + 1]
    /\ Goto(a, "user")
    /\ UNCHANGED <<next_ask_id, mailbox, cur, call, timer, restarts, asked, info, status,
                   accepted, lost>>

\* Requests, ordinary messages, and replies and timeouts that come too late:
\* the handler table, else the unknown-message hook, in any case application code.
DispatchHandler(a) ==
    /\ pc[a] = "dispatch"
    /\ \A i \in Slot : ~Completes(a, i)
    /\ Goto(a, "user")
    /\ UNCHANGED <<table, mailbox, cur, call, timer, restarts, history>>

HandlerReturn(a) == /\ pc[a] = "user"
                    /\ cur' = [cur EXCEPT ![a] = NoMsg]
                    /\ Goto(a, "idle")
                    /\ UNCHANGED <<table, mailbox, call, timer, restarts, history>>

-----------------------------------------------------------------------------
(* Other traffic, and supervision *)

\* ipc_send, ipc_publish or ipc_send_to of anything else.
Traffic(a) == /\ Room(a)
              /\ Enqueue(a, Plain)
              /\ UNCHANGED <<table, threads, timer, restarts, history>>

\* ipc_actor_fail of an actor supervised with IPC_SUPERVISE_RESTART drops
\* its queued messages; nothing tells the table of asks.
Restart(a) ==
    /\ restarts < MaxRestarts
    /\ restarts' = restarts + 1
    /\ mailbox' = [mailbox EXCEPT ![a] = <<>>]
    /\ lost' = [s \in Serial |-> lost[s] \/ \E n \in 1 .. Len(mailbox[a]) :
                                              mailbox[a][n] = Timeout(s)]
    /\ UNCHANGED <<table, threads, timer, asked, info, status, callbacks, accepted>>

-----------------------------------------------------------------------------

\* What a thread does of its own accord once it is in a call or has a message.
CallStep(t) == \/ AskArm(t)
               \/ AskArmFails(t)
               \/ AskSend(t)
               \/ AskSendFails(t)
               \/ AskUndo(t)
               \/ ReplySend(t)
               \/ ReplySendFails(t)
               \/ ReplyUndo(t)

DispatchStep(a) == \/ Dequeue(a)
                   \/ DispatchCallback(a)
                   \/ DispatchHandler(a)
                   \/ HandlerReturn(a)

TimerStep(s) == \/ TimerExpires(s)
                \/ TimerLate(s)
                \/ TimerSend(s)
                \/ TimerSendFails(s)
                \/ TimerUndo(s)

\* What application code may do.
UserStep(t) == \/ \E a, b \in Actor, d \in ReplyId, timed \in TimedAsks : Ask(t, a, b, d, timed)
               \/ \E s \in Serial : Cancel(t, s)
               \/ \E d \in ReplyId : Reply(t, d)
               \/ \E d \in ReplyId : ReplyTooLarge(t, d)
               \/ ReplyError(t)

Next == \/ \E t \in Thread : CallStep(t)
        \/ \E t \in Thread : UserStep(t)
        \/ \E a \in Actor : DispatchStep(a)
        \/ \E s \in Serial : TimerStep(s)
        \/ \E a \in Noisy : Traffic(a)
        \/ \E a \in Actor : Restart(a)

\* Threads that are ready run, sleeps end, and handlers and callbacks return.
Fairness == /\ \A t \in Thread : WF_vars(CallStep(t))
            /\ \A a \in Actor : WF_vars(DispatchStep(a))
            /\ \A s \in Serial : WF_vars(TimerStep(s))

Spec == Init /\ [][Next]_vars /\ Fairness

-----------------------------------------------------------------------------
(* Properties of the table *)

\* Two pending asks never share a correlation id and no pending ask has the
\* id 0 that means "not an ask", however often next_ask_id wraps around.
UniqueIds == /\ \A i \in Slot : ask_table[i].used => ask_table[i].ask_id # 0
             /\ \A i, j \in Slot : (ask_table[i].used /\ ask_table[j].used
                                    /\ ask_table[i].ask_id = ask_table[j].ask_id) => i = j

\* Whenever a slot is free alloc_ask_id finds an id within the candidates it
\* is willing to look at, so its -ENOMEM is never returned.
IdAvailable == (\E i \in Slot : ~ask_table[i].used) => \E k \in 0 .. MaxInflight : AllocId(k)

-----------------------------------------------------------------------------
(* Properties of an ask *)

\* The callback of an ask runs at most once, although a reply, an error reply
\* and a timeout may all be under way for it.
AtMostOneCallback == \A s \in Serial : callbacks[s] <= 1

\* After ipc_ask_cancel has returned 0 the callback does not run, and it has
\* not run before, even when the reply or the timeout is already queued.
CancelPreventsCallback == \A s \in Serial : status[s] = "cancelled" => callbacks[s] = 0

\* An ask that an actor makes from its own thread and that returns an error
\* never has its callback run, even if its timeout expired during the call.
FailedAskIsSilent ==
    \A s \in Serial : status[s] = "error" /\ info[s].by = info[s].actor => callbacks[s] = 0

\* At most one reply is accepted per ask, unless the timeout's own message
\* was dropped and reopened the ask.
OneReplyUnlessReopened == \A s \in Serial : accepted[s] <= 1 \/ lost[s]

\* A message in a mailbox, or in the hands of a thread or of a timeout
\* helper, that carries the id of a pending ask belongs to that very ask:
\* ids of asks that are over are not taken up by late messages.  (Until
\* next_ask_id has gone around once.)
InFlight == (UNION {{mailbox[a][n] : n \in 1 .. Len(mailbox[a])} : a \in Actor})
              \cup {cur[t] : t \in {u \in Thread : cur[u] # NoMsg}}
              \cup {Timeout(s) : s \in {u \in Serial : timer[u] \in {"armed", "sending", "undo"}}}
CorrelatedIds == \A m \in InFlight, i \in Slot : Holds(i, m.ask_id) => ask_table[i].ser = m.ser

\* Nothing is forgotten: an ask that was made with a timeout and is pending
\* has its timeout still to come, or its timeout message is on its way
\* through the asker's mailbox, unless that message was dropped.
TimeoutAt(s) ==
    LET a == info[s].actor
    IN  \/ \E n \in 1 .. Len(mailbox[a]) : mailbox[a][n] = Timeout(s)
        \/ pc[a] = "dispatch" /\ cur[a] = Timeout(s)
TimeoutOnItsWay ==
    \A i \in Slot : LET s == ask_table[i].ser IN
        (ask_table[i].used /\ timer[s] # "none") =>
            \/ timer[s] \in {"armed", "sending", "undo"}
            \/ TimeoutAt(s)
            \/ lost[s]

\* What ties the table to the history of asks, the strengthening the proofs
\* need: a pending ask was begun, sits in one slot, and is neither over nor
\* cancelled; an ask that was not begun has had no callback.
AskBookkeeping ==
    /\ \A i \in Slot : ask_table[i].used =>
          /\ ask_table[i].ser \in 1 .. asked
          /\ callbacks[ask_table[i].ser] = 0
          /\ status[ask_table[i].ser] # "cancelled"
    /\ \A i, j \in Slot : (ask_table[i].used /\ ask_table[j].used
                           /\ ask_table[i].ser = ask_table[j].ser) => i = j
    /\ \A s \in Serial : s > asked => callbacks[s] = 0

-----------------------------------------------------------------------------
(* Liveness *)

\* An ask made with a timeout comes to an end: its callback runs or it is
\* cancelled, unless its reply or its timeout message was dropped by a full
\* mailbox or a restart.
TimedAskEnds == \A s \in Serial : (status[s] = "ok" /\ timer[s] # "none")
                   ~> (callbacks[s] = 1 \/ status[s] = "cancelled" \/ lost[s])

-----------------------------------------------------------------------------
(* What the documentation says, and the code does not do *)

\* README.md, ask/reply: "if the reply does not arrive in time, the callback
\* is invoked with result == -ETIMEDOUT".  Every ask with a timeout ends in
\* its callback or in a cancellation.
TimedAskAlwaysEnds == \A s \in Serial : (status[s] = "ok" /\ timer[s] # "none")
                         ~> (callbacks[s] = 1 \/ status[s] = "cancelled")
=============================================================================
