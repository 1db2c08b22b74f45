---------------------------- MODULE DelayedSend ----------------------------
(***************************************************************************)
(* The delayed send of one actor of the POSIX port: ipc_port_send_after,   *)
(* the helper thread delay_thread_fn, and cancel_delayed_send, which       *)
(* ipc_port_stop_actor and ipc_port_restart_actor begin with.              *)
(*                                                                         *)
(* Sections under p->delay_lock are single actions.  A caller that finds   *)
(* delay_active set gives the lock up to join the helper, and takes it     *)
(* again; a helper gives it up while it waits and before it sends.  The    *)
(* condition variable is not a state of its own: pthread_cond_timedwait    *)
(* may return at any time and looks at delay_cancel when it does.          *)
(*                                                                         *)
(* The n-th call of ipc_port_send_after carries message n and its helper   *)
(* thread is helper n.                                                     *)
(***************************************************************************)
EXTENDS Integers, FiniteSets

CONSTANTS Caller,     \* threads that call the port
          NoCaller,
          MaxCalls    \* bound: calls of ipc_port_send_after in a behaviour

ASSUME CallerAssumption == NoCaller \notin Caller
ASSUME CallsAssumption == MaxCalls \in Nat

Msg == 1 .. MaxCalls
NoMsg == 0

VARIABLES delay_active, delay_cancel,
          delay_thread,  \* the helper p->delay_thread names
          delay_msg,     \* p->delay_msg with p->delay_payload
          helper,        \* where each helper is
          sends,         \* the message a helper has copied and is about to send
          joiner,        \* the first thread that joined each helper
          running,       \* p->running
          pc,            \* where each caller is
          op,            \* what it is doing
          msg,           \* the message of its ipc_port_send_after
          target,        \* the helper it joins
          calls,         \* calls of ipc_port_send_after so far
          delivered      \* auxiliary: how often each message entered the mailbox

flags == <<delay_active, delay_cancel, delay_thread, delay_msg>>
helpers == <<helper, sends>>
callers == <<pc, op, msg, target, joiner, calls>>
vars == <<delay_active, delay_cancel, delay_thread, delay_msg, helper, sends, joiner,
          running, pc, op, msg, target, calls, delivered>>

(* "none" not created, "start" created, "waiting" in the timed wait,       *)
(* "sending" past the wait and not cancelled, "exited" returned            *)
HelperState == {"none", "start", "waiting", "sending", "exited"}

(* "idle", "unlocked": cancel requested and lock given up, "joining": in   *)
(* pthread_join, "port": delayed work cancelled, p->lock not yet taken     *)
CallerState == {"idle", "unlocked", "joining", "port"}

Op == {"send_after", "stop", "restart"}

TypeOK == /\ delay_active \in BOOLEAN
          /\ delay_cancel \in BOOLEAN
          /\ delay_thread \in Msg \cup {NoMsg}
          /\ delay_msg \in Msg \cup {NoMsg}
          /\ helper \in [Msg -> HelperState]
          /\ sends \in [Msg -> Msg \cup {NoMsg}]
          /\ joiner \in [Msg -> Caller \cup {NoCaller}]
          /\ running \in BOOLEAN
          /\ pc \in [Caller -> CallerState]
          /\ op \in [Caller -> Op \cup {"none"}]
          /\ msg \in [Caller -> Msg \cup {NoMsg}]
          /\ target \in [Caller -> Msg \cup {NoMsg}]
          /\ calls \in 0 .. MaxCalls
          /\ delivered \in [Msg -> 0 .. 1]

Init == /\ delay_active = FALSE
        /\ delay_cancel = FALSE
        /\ delay_thread = NoMsg
        /\ delay_msg = NoMsg
        /\ helper = [h \in Msg |-> "none"]
        /\ sends = [h \in Msg |-> NoMsg]
        /\ joiner = [h \in Msg |-> NoCaller]
        /\ running = TRUE
        /\ pc = [c \in Caller |-> "idle"]
        /\ op = [c \in Caller |-> "none"]
        /\ msg = [c \in Caller |-> NoMsg]
        /\ target = [c \in Caller |-> NoMsg]
        /\ calls = 0
        /\ delivered = [m \in Msg |-> 0]

-----------------------------------------------------------------------------
(* The callers *)

\* The rest of ipc_port_send_after under delay_lock: install message m and
\* create its helper, or fail to.  The message is installed either way.
Install(c, m) ==
    /\ delay_msg' = m
    /\ pc' = [pc EXCEPT ![c] = "idle"]
    /\ \/ /\ helper' = [helper EXCEPT ![m] = "start"]
          /\ delay_thread' = m
          /\ delay_active' = TRUE
       \/ /\ delay_active' = FALSE
          /\ UNCHANGED <<helper, delay_thread>>

\* What a caller does under delay_lock once there is no helper left to join.
Complete(c, o, m) ==
    \/ o = "send_after" /\ Install(c, m)
    \/ /\ o # "send_after"
       /\ pc' = [pc EXCEPT ![c] = "port"]
       /\ delay_active' = FALSE
       /\ UNCHANGED <<delay_msg, delay_thread, helper>>

\* ipc_port_send_after, ipc_port_stop_actor or ipc_port_restart_actor, from the
\* call to the first release of delay_lock.
Begin(c, o) ==
    /\ pc[c] = "idle"
    /\ o = "send_after" => calls < MaxCalls
    /\ calls' = IF o = "send_after" THEN calls + 1 ELSE calls
    /\ op' = [op EXCEPT ![c] = o]
    /\ msg' = [msg EXCEPT ![c] = IF o = "send_after" THEN calls + 1 ELSE NoMsg]
    /\ \/ /\ delay_active
          /\ delay_cancel' = TRUE
          /\ pc' = [pc EXCEPT ![c] = "unlocked"]
          /\ UNCHANGED <<delay_active, delay_msg, delay_thread, helper>>
       \/ /\ ~delay_active
          /\ Complete(c, o, msg'[c])
          /\ UNCHANGED delay_cancel
    /\ UNCHANGED <<sends, joiner, running, target, delivered>>

\* The call of pthread_join(p->delay_thread), which reads p->delay_thread
\* without the lock.
Join(c) == /\ pc[c] = "unlocked"
           /\ pc' = [pc EXCEPT ![c] = "joining"]
           /\ target' = [target EXCEPT ![c] = delay_thread]
           /\ joiner' = [joiner EXCEPT ![delay_thread] = IF @ = NoCaller THEN c ELSE @]
           /\ UNCHANGED <<flags, helpers, running, op, msg, calls, delivered>>

\* Mutants of JoinReturn: the helper is not waited for; delay_active is tested
\* in a loop and never reset.
JoinReturnAtOnce(c) ==
    /\ pc[c] = "joining"
    /\ delay_cancel' = FALSE
    /\ Complete(c, op[c], msg[c])
    /\ UNCHANGED <<sends, joiner, running, op, msg, target, calls, delivered>>
JoinReturnRetests(c) ==
    /\ pc[c] = "joining"
    /\ helper[target[c]] = "exited" \/ joiner[target[c]] # c
    /\ pc' = [pc EXCEPT ![c] = "unlocked"]
    /\ UNCHANGED <<flags, helpers, joiner, running, op, msg, target, calls, delivered>>

\* pthread_join returns: the helper has exited, or it was joined already, in
\* which case glibc returns an error that the code does not look at.
JoinReturn(c) ==
    /\ pc[c] = "joining"
    /\ helper[target[c]] = "exited" \/ joiner[target[c]] # c
    /\ delay_cancel' = FALSE
    /\ Complete(c, op[c], msg[c])
    /\ UNCHANGED <<sends, joiner, running, op, msg, target, calls, delivered>>

\* The section under p->lock that ends a stop or a restart.
Port(c) == /\ pc[c] = "port"
           /\ pc' = [pc EXCEPT ![c] = "idle"]
           /\ running' = (op[c] = "restart")
           /\ UNCHANGED <<flags, helpers, op, msg, target, joiner, calls, delivered>>

-----------------------------------------------------------------------------
(* delay_thread_fn *)

\* Mutant of Finish: a cancellation is not looked at.
FinishAnyway(h) == /\ helper' = [helper EXCEPT ![h] = "sending"]
                   /\ sends' = [sends EXCEPT ![h] = delay_msg]
                   /\ delay_cancel' = FALSE
                   /\ UNCHANGED <<delay_active, delay_thread, delay_msg, running, callers, delivered>>

\* The end of the locked part: take note of a cancellation and copy whatever
\* message is installed.
Finish(h) == /\ helper' = [helper EXCEPT ![h] = IF delay_cancel THEN "exited" ELSE "sending"]
             /\ sends' = [sends EXCEPT ![h] = IF delay_cancel THEN NoMsg ELSE delay_msg]
             /\ delay_cancel' = FALSE
             /\ UNCHANGED <<delay_active, delay_thread, delay_msg, running, callers, delivered>>

HelperStart(h) == /\ helper[h] = "start"
                  /\ ~delay_cancel
                  /\ helper' = [helper EXCEPT ![h] = "waiting"]
                  /\ UNCHANGED <<flags, sends, running, callers, delivered>>

\* Cancelled before or during the wait.
HelperCancelled(h) == /\ helper[h] \in {"start", "waiting"}
                      /\ delay_cancel
                      /\ Finish(h)

\* The delay is over.  (A cancellation that came first still counts.)
HelperTimeout(h) == /\ helper[h] = "waiting"
                    /\ Finish(h)

\* Mutant of HelperSend: the helper goes on to send again.
HelperSendAgain(h) ==
    /\ helper[h] = "sending"
    /\ delivered' = [delivered EXCEPT ![sends[h]] = @ + 1]
    /\ UNCHANGED <<flags, helpers, running, callers>>

\* ipc_port_send to the owner, outside delay_lock.
HelperSend(h) ==
    /\ helper[h] = "sending"
    /\ helper' = [helper EXCEPT ![h] = "exited"]
    /\ delivered' = [delivered EXCEPT ![sends[h]] = @ + 1]
    /\ UNCHANGED <<flags, sends, running, callers>>

\* The mailbox is full; the result is not looked at.
HelperSendFails(h) ==
    /\ helper[h] = "sending"
    /\ helper' = [helper EXCEPT ![h] = "exited"]
    /\ UNCHANGED <<flags, sends, running, callers, delivered>>

CallerStep(c) == Join(c) \/ JoinReturn(c) \/ Port(c)

HelperStep(h) == \/ HelperStart(h)
                 \/ HelperCancelled(h)
                 \/ HelperTimeout(h)
                 \/ HelperSend(h)
                 \/ HelperSendFails(h)

Next == \/ \E c \in Caller, o \in Op : Begin(c, o)
        \/ \E c \in Caller : Join(c)
        \/ \E c \in Caller : JoinReturn(c)
        \/ \E c \in Caller : Port(c)
        \/ \E h \in Msg : HelperStep(h)

\* Threads run, delays end.
Spec == /\ Init /\ [][Next]_vars
        /\ \A c \in Caller : WF_vars(CallerStep(c))
        /\ \A h \in Msg : WF_vars(HelperStep(h))

-----------------------------------------------------------------------------
(* Properties *)

Live == {h \in Msg : helper[h] \in {"start", "waiting", "sending"}}

\* The previous helper "has fully finished - including its unlocked
\* ipc_port_send tail - before we install a new delay_msg and start a new
\* thread" (posix_ipc_port.c:291): there is never more than one, and it sends
\* the message it was created for: nobody overwrote delay_msg under it.
OneHelper == /\ Cardinality(Live) <= 1
             /\ \A h \in Msg : helper[h] = "sending" => sends[h] = h

\* A message that was replaced, or cancelled by a stop or a restart, does not
\* enter the mailbox once the replacing call is past its join, and no message
\* enters it twice.
LateDelivery == \E m \in Msg :
                  /\ delivered'[m] > delivered[m]
                  /\ \/ delivered[m] > 0
                     \/ m # delay_msg
                     \/ \E c \in Caller : pc[c] = "port"
NoLateDelivery == [][~LateDelivery]_vars

\* A helper and a call always come to an end: no call waits for a helper that
\* waits for the call.
CallsReturn == \A c \in Caller : pc[c] # "idle" ~> pc[c] = "idle"

-----------------------------------------------------------------------------
(* The abstract delay slot: at most one pending message, which a newer one  *)
(* replaces.  A message that the helper has copied has fired.               *)

Slot == IF delay_cancel \/ \A h \in Msg : helper[h] \notin {"start", "waiting"}
        THEN NoMsg ELSE delay_msg

Fired == {sends[h] : h \in {g \in Msg : sends[g] # NoMsg}}

Abstract == INSTANCE DelaySlot WITH slot <- Slot, fired <- Fired

\* The flags, the helper thread and the joins implement the documented single
\* delayed slot: a replaced or cancelled message never fires.
AbstractSpec == Abstract!Spec
=============================================================================
