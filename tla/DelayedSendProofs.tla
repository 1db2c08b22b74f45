------------------------- MODULE DelayedSendProofs -------------------------
(***************************************************************************)
(* Proofs about DelayedSend, for every number of calls, when only one      *)
(* thread calls ipc_port_send_after, ipc_port_stop_actor and               *)
(* ipc_port_restart_actor for the actor.  With two callers the properties  *)
(* do not hold (run delayed_two_callers).                                  *)
(***************************************************************************)
EXTENDS DelayedSend, FiniteSetTheorems, TLAPS

OneCaller == \A c, d \in Caller : c = d

-----------------------------------------------------------------------------
(* The inductive invariant *)

Pending == {"start", "waiting"}
Alive == {"start", "waiting", "sending"}

\* What a helper has done, by where it is.
HelperInv ==
    \A h \in Msg :
      /\ helper[h] # "none" => h <= calls
      /\ helper[h] = "none" => joiner[h] = NoCaller
      /\ helper[h] \in Pending \cup {"none"} => sends[h] = NoMsg
      /\ helper[h] = "sending" => sends[h] = h
      /\ sends[h] \in {NoMsg, h}
      /\ helper[h] # "exited" => delivered[h] = 0

\* A helper that has not returned is the one that the actor's fields are about.
FieldsInv ==
    /\ \A h \in Msg : helper[h] \in Alive => delay_active /\ delay_thread = h /\ delay_msg = h
    /\ delay_active => delay_thread \in Msg /\ helper[delay_thread] # "none"

\* A caller between its two locked sections has cancelled the helper, or the
\* helper is past its wait; the join is the first one of that helper.
CallerInv ==
    \A c \in Caller :
      /\ pc[c] \in {"unlocked", "joining"} =>
           /\ delay_active
           /\ op[c] \in Op
           /\ delay_cancel \/ helper[delay_thread] \notin Pending
           /\ op[c] = "send_after" => msg[c] \in Msg /\ helper[msg[c]] = "none" /\ msg[c] <= calls
      /\ pc[c] = "joining" => target[c] = delay_thread /\ joiner[delay_thread] = c
      /\ pc[c] # "joining" /\ delay_active => joiner[delay_thread] = NoCaller
      /\ pc[c] = "port" => ~delay_active
      /\ delay_cancel => pc[c] \in {"unlocked", "joining"}

Inv == TypeOK /\ HelperInv /\ FieldsInv /\ CallerInv

-----------------------------------------------------------------------------
(* It is inductive *)

LEMMA InitInv == Init => Inv
<1> SUFFICES ASSUME Init PROVE Inv
  OBVIOUS
<1>1. TypeOK
  <2>1. calls \in 0 .. MaxCalls /\ 0 \in 0 .. 1
    BY CallsAssumption DEF Init
  <2> QED BY <2>1 DEF Init, TypeOK, HelperState, CallerState
<1>2. HelperInv
  BY DEF Init, HelperInv, Pending, NoMsg
<1>3. FieldsInv
  BY DEF Init, FieldsInv, Alive
<1>4. CallerInv
  BY DEF Init, CallerInv
<1> QED BY <1>1, <1>2, <1>3, <1>4 DEF Inv

LEMMA Stutter == Inv /\ UNCHANGED vars => Inv'
  BY DEF Inv, TypeOK, HelperInv, FieldsInv, CallerInv, vars

\* A call that finds a helper asks it to cancel.
LEMMA CancelStep == ASSUME OneCaller, Inv,
                           NEW c \in Caller, NEW o \in Op, Begin(c, o), delay_active
                    PROVE  Inv'
<1>t. /\ calls \in 0 .. MaxCalls /\ calls' \in 0 .. MaxCalls
      /\ pc[c] = "idle"
      /\ calls' = IF o = "send_after" THEN calls + 1 ELSE calls
      /\ op' = [op EXCEPT ![c] = o]
      /\ msg' = [msg EXCEPT ![c] = IF o = "send_after" THEN calls + 1 ELSE NoMsg]
      /\ o = "send_after" => calls + 1 \in Msg
      /\ delay_cancel' = TRUE
      /\ pc' = [pc EXCEPT ![c] = "unlocked"]
      /\ UNCHANGED <<delay_active, delay_msg, delay_thread, helper, sends, joiner, running,
                     target, delivered>>
  BY CallsAssumption DEF Inv, TypeOK, Begin, Msg
<1>1. TypeOK'
  BY <1>t DEF Inv, TypeOK, CallerState, Op, Msg, NoMsg
<1>2. HelperInv'
  BY <1>t DEF Inv, HelperInv, Msg
<1>3. FieldsInv'
  BY <1>t DEF Inv, FieldsInv
<1>4. CallerInv'
  <2>1. o = "send_after" => helper[calls + 1] = "none"
    BY <1>t DEF Inv, TypeOK, HelperInv
  <2>2. pc'[c] = "unlocked" /\ op'[c] = o /\ (o = "send_after" => msg'[c] = calls + 1)
    BY <1>t DEF Inv, TypeOK
  <2>3. joiner[delay_thread] = NoCaller
    BY <1>t DEF Inv, CallerInv
  <2>4. SUFFICES ASSUME NEW d \in Caller PROVE CallerInv!(d)'
    BY DEF CallerInv
  <2>5. d = c
    BY DEF OneCaller
  <2> QED BY <1>t, <2>1, <2>2, <2>3, <2>5
<1> QED BY <1>1, <1>2, <1>3, <1>4 DEF Inv

\* What the second locked section of a call does, when every helper has
\* returned: no message is pending, so the fields may be overwritten.
LEMMA CompleteStep ==
  ASSUME OneCaller, Inv, NEW c \in Caller, NEW o \in Op, NEW m \in Msg \cup {NoMsg},
         \A h \in Msg : helper[h] \notin Alive,
         o = "send_after" => m \in Msg /\ helper[m] = "none" /\ m <= calls',
         delay_cancel' = FALSE, calls' \in calls .. MaxCalls,
         op' \in [Caller -> Op \cup {"none"}], msg' \in [Caller -> Msg \cup {NoMsg}],
         Complete(c, o, m),
         UNCHANGED <<sends, joiner, running, target, delivered>>
  PROVE  Inv'
<1>t. /\ calls \in Nat /\ calls' \in 0 .. MaxCalls /\ calls <= calls'
      /\ pc \in [Caller -> CallerState] /\ helper \in [Msg -> HelperState]
  BY CallsAssumption DEF Inv, TypeOK
<1>m. \A h \in Msg : h \in Nat
  BY CallsAssumption DEF Msg
<1>1. CASE o = "send_after" /\ Install(c, m) /\ delay_active'
  <2>1. /\ m \in Msg /\ helper[m] = "none" /\ m <= calls'
        /\ delay_msg' = m /\ delay_thread' = m /\ delay_active' = TRUE
        /\ pc' = [pc EXCEPT ![c] = "idle"] /\ helper' = [helper EXCEPT ![m] = "start"]
    BY <1>1 DEF Install
  <2>2. helper'[m] = "start" /\ \A h \in Msg \ {m} : helper'[h] = helper[h]
    BY <2>1, <1>t
  <2>3. TypeOK'
    BY <2>1, <1>t DEF Inv, TypeOK, HelperState, CallerState
  <2>4. HelperInv'
    <3>1. SUFFICES ASSUME NEW h \in Msg PROVE HelperInv!(h)'
      BY DEF HelperInv
    <3>2. HelperInv!(h)
      BY DEF Inv, HelperInv
    <3> QED BY <3>2, <2>1, <2>2, <1>t, <1>m DEF Pending
  <2>5. FieldsInv'
    BY <2>1, <2>2 DEF FieldsInv, Alive
  <2>6. joiner[m] = NoCaller
    BY <2>1 DEF Inv, HelperInv
  <2>7. CallerInv'
    <3>1. SUFFICES ASSUME NEW d \in Caller PROVE CallerInv!(d)'
      BY DEF CallerInv
    <3>2. d = c /\ pc'[c] = "idle"
      BY <2>1, <1>t DEF OneCaller
    <3> QED BY <3>2, <2>1, <2>6
  <2> QED BY <2>3, <2>4, <2>5, <2>7 DEF Inv
<1>2. CASE UNCHANGED helper /\ delay_active' = FALSE
  <2>1. /\ delay_msg' \in Msg \cup {NoMsg} /\ delay_thread' = delay_thread
        /\ \/ pc' = [pc EXCEPT ![c] = "idle"]
           \/ pc' = [pc EXCEPT ![c] = "port"]
    <3>1. helper' = helper
      BY <1>2
    <3>2. CASE o = "send_after" /\ Install(c, m)
      <4>1. m \in Msg /\ helper[m] = "none"
        BY <3>2
      <4>2. helper' # [helper EXCEPT ![m] = "start"]
        BY <3>1, <4>1, <1>t
      <4> QED BY <3>2, <4>2 DEF Install
    <3>3. CASE o # "send_after"
      BY <3>3 DEF Complete, Inv, TypeOK
    <3> QED BY <3>2, <3>3 DEF Complete
  <2>2. TypeOK'
    BY <2>1, <1>2, <1>t DEF Inv, TypeOK, CallerState
  <2>3. HelperInv'
    <3>1. SUFFICES ASSUME NEW h \in Msg PROVE HelperInv!(h)'
      BY DEF HelperInv
    <3>2. HelperInv!(h)
      BY DEF Inv, HelperInv
    <3> QED BY <3>2, <1>2, <1>t, <1>m
  <2>4. FieldsInv'
    BY <1>2 DEF FieldsInv
  <2>5. CallerInv'
    <3>1. SUFFICES ASSUME NEW d \in Caller PROVE CallerInv!(d)'
      BY DEF CallerInv
    <3>2. d = c /\ pc'[c] \in {"idle", "port"}
      BY <2>1, <1>t DEF OneCaller
    <3> QED BY <3>2, <1>2
  <2> QED BY <2>2, <2>3, <2>4, <2>5 DEF Inv
<1> QED BY <1>1, <1>2 DEF Complete, Install

\* Without delay_active every helper has returned.
LEMMA NobodyAlive == Inv /\ ~delay_active => \A h \in Msg : helper[h] \notin Alive
  BY DEF Inv, FieldsInv

\* A call that finds no helper runs through.
LEMMA ThroughStep == ASSUME OneCaller, Inv,
                            NEW c \in Caller, NEW o \in Op, Begin(c, o), ~delay_active
                     PROVE  Inv'
<1>t. /\ calls \in 0 .. MaxCalls /\ calls' \in calls .. MaxCalls
      /\ pc[c] = "idle"
      /\ calls' = IF o = "send_after" THEN calls + 1 ELSE calls
      /\ op' = [op EXCEPT ![c] = o]
      /\ msg' = [msg EXCEPT ![c] = IF o = "send_after" THEN calls + 1 ELSE NoMsg]
      /\ o = "send_after" => calls + 1 \in Msg
      /\ delay_cancel' = delay_cancel
      /\ Complete(c, o, msg'[c])
      /\ UNCHANGED <<sends, joiner, running, target, delivered>>
  BY CallsAssumption DEF Inv, TypeOK, Begin, Msg
<1>1. op' \in [Caller -> Op \cup {"none"}] /\ msg' \in [Caller -> Msg \cup {NoMsg}]
  BY <1>t DEF Inv, TypeOK
<1>2. msg'[c] = IF o = "send_after" THEN calls + 1 ELSE NoMsg
  BY <1>t DEF Inv, TypeOK
<1>3. o = "send_after" => helper[calls + 1] = "none"
  BY <1>t DEF Inv, TypeOK, HelperInv
<1>4. delay_cancel' = FALSE
  BY <1>t DEF Inv, TypeOK, CallerInv
<1>5. \A h \in Msg : helper[h] \notin Alive
  BY NobodyAlive
<1>6. o = "send_after" => msg'[c] \in Msg /\ helper[msg'[c]] = "none" /\ msg'[c] <= calls'
  BY <1>t, <1>2, <1>3
<1>7. msg'[c] \in Msg \cup {NoMsg}
  BY <1>1
<1> QED BY <1>t, <1>1, <1>4, <1>5, <1>6, <1>7, CompleteStep

\* pthread_join returns only when the helper has: the caller is the first to
\* join it.
LEMMA JoinReturnStep == ASSUME OneCaller, Inv, NEW c \in Caller, JoinReturn(c)
                        PROVE  (\A h \in Msg : helper[h] \notin Alive) /\ op[c] \in Op /\ Inv'
<1>t. /\ pc[c] = "joining"
      /\ helper[target[c]] = "exited" \/ joiner[target[c]] # c
      /\ delay_cancel' = FALSE
      /\ Complete(c, op[c], msg[c])
      /\ UNCHANGED <<sends, joiner, running, op, msg, target, calls, delivered>>
  BY DEF JoinReturn
<1>1. /\ target[c] = delay_thread /\ joiner[delay_thread] = c
      /\ op[c] = "send_after" => msg[c] \in Msg /\ helper[msg[c]] = "none" /\ msg[c] <= calls
  BY <1>t DEF Inv, CallerInv
<1>2. \A h \in Msg : helper[h] \notin Alive
  BY <1>t, <1>1 DEF Inv, FieldsInv, Alive
<1>3. /\ op' \in [Caller -> Op \cup {"none"}] /\ msg' \in [Caller -> Msg \cup {NoMsg}]
      /\ msg[c] \in Msg \cup {NoMsg} /\ calls' \in calls .. MaxCalls /\ calls \in Nat
  BY <1>t, CallsAssumption DEF Inv, TypeOK
<1>4. op[c] \in Op
  BY <1>t DEF Inv, CallerInv
<1>5. op[c] = "send_after" => msg[c] <= calls'
  BY <1>1, <1>t
<1> QED BY <1>t, <1>1, <1>2, <1>3, <1>4, <1>5, CompleteStep

LEMMA JoinStep == ASSUME OneCaller, Inv, NEW c \in Caller, Join(c)
                  PROVE  Inv'
<1>t. /\ pc[c] = "unlocked"
      /\ pc' = [pc EXCEPT ![c] = "joining"]
      /\ target' = [target EXCEPT ![c] = delay_thread]
      /\ joiner' = [joiner EXCEPT ![delay_thread] = IF @ = NoCaller THEN c ELSE @]
      /\ UNCHANGED <<delay_active, delay_cancel, delay_thread, delay_msg, helper, sends,
                     running, op, msg, calls, delivered>>
  BY DEF Join, flags, helpers
<1>1. /\ CallerInv!(c) /\ delay_active
      /\ delay_thread \in Msg /\ helper[delay_thread] # "none"
      /\ joiner[delay_thread] = NoCaller
  BY <1>t DEF Inv, CallerInv, FieldsInv
<1>2. joiner'[delay_thread] = c /\ \A h \in Msg \ {delay_thread} : joiner'[h] = joiner[h]
  BY <1>t, <1>1 DEF Inv, TypeOK
<1>3. TypeOK'
  BY <1>t, <1>1 DEF Inv, TypeOK, CallerState
<1>4. HelperInv'
  <2>1. SUFFICES ASSUME NEW h \in Msg PROVE HelperInv!(h)'
    BY DEF HelperInv
  <2>2. HelperInv!(h)
    BY DEF Inv, HelperInv
  <2> QED BY <2>2, <1>t, <1>1, <1>2
<1>5. FieldsInv'
  BY <1>t DEF Inv, FieldsInv
<1>6. CallerInv'
  <2>1. SUFFICES ASSUME NEW d \in Caller PROVE CallerInv!(d)'
    BY DEF CallerInv
  <2>2. d = c /\ pc'[c] = "joining" /\ target'[c] = delay_thread
    BY <1>t DEF OneCaller, Inv, TypeOK
  <2> QED BY <2>2, <1>t, <1>1, <1>2
<1> QED BY <1>3, <1>4, <1>5, <1>6 DEF Inv

LEMMA PortStep == ASSUME OneCaller, Inv, NEW c \in Caller, Port(c)
                  PROVE  Inv'
<1>t. /\ pc[c] = "port"
      /\ pc' = [pc EXCEPT ![c] = "idle"]
      /\ running' \in BOOLEAN
      /\ UNCHANGED <<delay_active, delay_cancel, delay_thread, delay_msg, helper, sends,
                     target, joiner, op, msg, calls, delivered>>
  BY DEF Port, flags, helpers
<1>1. TypeOK'
  BY <1>t DEF Inv, TypeOK, CallerState
<1>2. HelperInv' /\ FieldsInv'
  BY <1>t DEF Inv, HelperInv, FieldsInv
<1>3. CallerInv'
  <2>1. SUFFICES ASSUME NEW d \in Caller PROVE CallerInv!(d)'
    BY DEF CallerInv
  <2>2. d = c /\ pc'[c] = "idle" /\ CallerInv!(c)
    BY <1>t DEF OneCaller, Inv, TypeOK, CallerInv
  <2> QED BY <2>2, <1>t
<1> QED BY <1>1, <1>2, <1>3 DEF Inv

\* A helper that takes a step is the one the fields are about, and the only one.
LEMMA OnlyHelper == ASSUME Inv, NEW h \in Msg, helper[h] \in Alive
                    PROVE  /\ delay_active /\ delay_thread = h /\ delay_msg = h
                           /\ h \in Nat /\ h # NoMsg /\ delivered[h] = 0
                           /\ \A g \in Msg \ {h} : helper[g] \notin Alive
<1>1. helper[h] # "exited"
  BY DEF Alive
<1>2. h \in Nat /\ h # NoMsg
  BY CallsAssumption DEF Msg, NoMsg
<1> QED BY <1>1, <1>2 DEF Inv, HelperInv, FieldsInv

\* The helper h moves on to s, perhaps copies its message, and delivers it only
\* on its way to "exited".
Moves(h, s) ==
    /\ helper[h] \in Alive /\ (s \in Pending => helper[h] \in Pending)
    /\ helper' = [helper EXCEPT ![h] = s]
    /\ \/ sends' = sends /\ (s = "sending" => helper[h] = "sending")
       \/ s # "waiting" /\ sends' = [sends EXCEPT ![h] = IF s = "sending" THEN h ELSE NoMsg]
    /\ \/ delivered' = delivered
       \/ s = "exited" /\ delivered' = [delivered EXCEPT ![h] = 1]
    /\ \/ delay_cancel' = delay_cancel
       \/ delay_cancel' = FALSE /\ s \notin Pending
    /\ UNCHANGED <<delay_active, delay_thread, delay_msg, running, callers>>

LEMMA HelperMoves ==
  ASSUME Inv, NEW h \in Msg, NEW s \in {"waiting", "sending", "exited"}, Moves(h, s)
  PROVE  Inv'
<1> USE DEF Moves
<1>t. UNCHANGED <<delay_active, delay_thread, delay_msg, running, pc, op, msg, target, joiner,
                  calls>>
  BY DEF callers
<1>1. /\ delay_active /\ delay_thread = h /\ delay_msg = h /\ delivered[h] = 0
      /\ \A g \in Msg \ {h} : helper[g] \notin Alive
  BY OnlyHelper
<1>2. helper'[h] = s /\ \A g \in Msg \ {h} : helper'[g] = helper[g]
  BY DEF Inv, TypeOK
<1>3. /\ \A g \in Msg \ {h} : sends'[g] = sends[g] /\ delivered'[g] = delivered[g]
      /\ s # "exited" => delivered'[h] = 0
  BY <1>1 DEF Inv, TypeOK
<1>4. TypeOK'
  <2>1. helper' \in [Msg -> HelperState]
    BY DEF Inv, TypeOK, HelperState
  <2>2. sends' \in [Msg -> Msg \cup {NoMsg}]
    BY DEF Inv, TypeOK
  <2>3. delivered' \in [Msg -> 0 .. 1]
    BY DEF Inv, TypeOK
  <2>4. delay_cancel' \in BOOLEAN
    BY DEF Inv, TypeOK
  <2> QED BY <1>t, <2>1, <2>2, <2>3, <2>4 DEF Inv, TypeOK
<1>5. HelperInv'
  <2>1. SUFFICES ASSUME NEW g \in Msg PROVE HelperInv!(g)'
    BY DEF HelperInv
  <2>2. HelperInv!(g) /\ helper[h] # "none"
    BY DEF Inv, HelperInv, Alive
  <2>3. CASE g # h
    BY <2>2, <2>3, <1>2, <1>3, <1>t
  <2>4. CASE g = h
    <3>1. \/ sends'[h] = sends[h] /\ (s = "sending" => helper[h] = "sending")
          \/ s # "waiting" /\ sends'[h] = IF s = "sending" THEN h ELSE NoMsg
      BY DEF Inv, TypeOK
    <3> QED BY <2>2, <2>4, <3>1, <1>2, <1>3, <1>t DEF Pending
  <2> QED BY <2>3, <2>4
<1>6. FieldsInv'
  BY <1>1, <1>2, <1>t DEF FieldsInv
<1>7. CallerInv'
  <2>1. SUFFICES ASSUME NEW d \in Caller PROVE CallerInv!(d)'
    BY DEF CallerInv
  <2>2. CallerInv!(d) /\ helper[h] # "none" /\ delay_cancel \in BOOLEAN
    BY DEF Inv, CallerInv, Alive, TypeOK
  <2> QED BY <2>2, <1>1, <1>2, <1>t
<1> QED BY <1>4, <1>5, <1>6, <1>7 DEF Inv

\* The end of the locked part.
LEMMA FinishMoves == ASSUME Inv, NEW h \in Msg, helper[h] \in Pending, Finish(h)
                     PROVE  Moves(h, IF delay_cancel THEN "exited" ELSE "sending")
<1>1. helper[h] \in Alive /\ delay_msg = h
  BY OnlyHelper DEF Pending, Alive
<1>2. CASE delay_cancel
  BY <1>1, <1>2 DEF Finish, Pending, Moves
<1>3. CASE ~delay_cancel
  BY <1>1, <1>3 DEF Finish, Pending, Moves
<1> QED BY <1>2, <1>3

LEMMA HelperStepInv == ASSUME Inv, NEW h \in Msg, HelperStep(h)
                       PROVE  Inv'
<1>1. CASE HelperStart(h)
  <2>1. Moves(h, "waiting")
    BY <1>1 DEF HelperStart, flags, Alive, Pending, Moves
  <2> QED BY <2>1, HelperMoves
<1>2. ASSUME Finish(h), helper[h] \in Pending PROVE Inv'
  BY <1>2, FinishMoves, HelperMoves
<1>3. CASE HelperSend(h)
  <2>1. helper[h] \in Alive /\ sends[h] = h /\ delivered[h] = 0
    BY <1>3, OnlyHelper DEF HelperSend, Alive, Inv, HelperInv
  <2>2. delivered' = [delivered EXCEPT ![h] = 1]
    BY <1>3, <2>1 DEF HelperSend, Inv, TypeOK
  <2>3. Moves(h, "exited")
    BY <1>3, <2>1, <2>2 DEF HelperSend, flags, Pending, Moves
  <2> QED BY <2>3, HelperMoves
<1>4. CASE HelperSendFails(h)
  <2>1. Moves(h, "exited")
    BY <1>4 DEF HelperSendFails, flags, Alive, Pending, Moves
  <2> QED BY <2>1, HelperMoves
<1> QED BY <1>1, <1>2, <1>3, <1>4 DEF HelperStep, HelperCancelled, HelperTimeout, Pending

LEMMA NextInv == OneCaller /\ Inv /\ [Next]_vars => Inv'
  BY Stutter, CancelStep, ThroughStep, JoinStep, JoinReturnStep, PortStep, HelperStepInv
     DEF Next

\* With one caller, the flags, the helper threads and the joins always fit
\* together as Inv says.
THEOREM DelayInvariant == ASSUME OneCaller PROVE Spec => []Inv
  BY InitInv, NextInv, PTL DEF Spec

-----------------------------------------------------------------------------
(* What follows from it *)

\* Every variable keeps its type; in particular no message is delivered twice.
THEOREM TypesAreCorrect == ASSUME OneCaller PROVE Spec => []TypeOK
<1>1. Inv => TypeOK
  BY DEF Inv
<1> QED BY <1>1, DelayInvariant, PTL

LEMMA InvOneHelper == Inv => OneHelper
<1> SUFFICES ASSUME Inv PROVE OneHelper
  OBVIOUS
<1>1. \A h \in Live : h = delay_thread
  BY DEF Live, Inv, FieldsInv, Alive
<1>2. Live = {} => Cardinality(Live) = 0
  BY FS_EmptySet
<1>3. Live # {} => Live = {delay_thread}
  BY <1>1
<1>4. Cardinality(Live) <= 1
  BY <1>2, <1>3, FS_Singleton
<1>5. \A h \in Msg : helper[h] = "sending" => sends[h] = h
  BY DEF Inv, HelperInv
<1> QED BY <1>4, <1>5 DEF OneHelper

\* There is never more than one helper, and it sends the message it was created
\* for: ipc_port_send_after has joined the previous one, "including its unlocked
\* ipc_port_send tail", before it installs the next.
THEOREM OneHelperAtATime == ASSUME OneCaller PROVE Spec => []OneHelper
  BY InvOneHelper, DelayInvariant, PTL

LEMMA StepDelivers == ASSUME OneCaller, Inv, [Next]_vars, LateDelivery
                      PROVE  FALSE
<1>1. PICK m \in Msg : /\ delivered'[m] > delivered[m]
                       /\ delivered[m] > 0 \/ m # delay_msg \/ \E c \in Caller : pc[c] = "port"
  BY DEF LateDelivery
<1>2. delivered[m] \in Nat
  BY DEF Inv, TypeOK
<1>3. delivered' # delivered
  BY <1>1, <1>2
<1>4. PICK h \in Msg : HelperSend(h)
  BY <1>3 DEF Next, Begin, Join, JoinReturn, Port, HelperStep, HelperStart, HelperCancelled,
              HelperTimeout, HelperSendFails, Finish, vars
<1>5. helper[h] \in Alive /\ sends[h] = h
  BY <1>4 DEF HelperSend, Alive, Inv, HelperInv
<1>6. delay_active /\ delay_msg = h /\ delivered[h] = 0
  BY <1>5, OnlyHelper
<1>7. m = h
  BY <1>1, <1>2, <1>4, <1>5 DEF HelperSend, Inv, TypeOK
<1>8. \A c \in Caller : pc[c] # "port"
  BY <1>6 DEF Inv, CallerInv
<1> QED BY <1>1, <1>6, <1>7, <1>8

\* A message that was replaced, or cancelled by a stop or a restart, does not
\* enter the mailbox once the replacing call is past its join, and no message
\* enters it twice.
THEOREM NothingIsLate == ASSUME OneCaller PROVE Spec => NoLateDelivery
<1>1. Inv /\ [Next]_vars => [~LateDelivery]_vars
  BY StepDelivers
<1> QED BY <1>1, DelayInvariant, PTL DEF Spec, NoLateDelivery

-----------------------------------------------------------------------------
(* The refinement of DelaySlot *)

LEMMA SlotInit == Init => Abstract!Init
<1> SUFFICES ASSUME Init PROVE Slot = NoMsg /\ Fired = {}
  BY DEF Abstract!Init
<1>1. \A h \in Msg : helper[h] = "none" /\ sends[h] = NoMsg
  BY DEF Init
<1> QED BY <1>1 DEF Slot, Fired

\* A message is pending when its helper is, and nobody has cancelled it.
LEMMA SlotIs == ASSUME Inv
                PROVE  /\ delay_cancel => Slot = NoMsg
                       /\ (\A h \in Msg : helper[h] \notin Pending) => Slot = NoMsg
                       /\ \A h \in Msg : helper[h] \in Pending /\ ~delay_cancel => Slot = h
<1>1. \A h \in Msg : helper[h] \in Pending => delay_msg = h
  BY DEF Inv, FieldsInv, Pending, Alive
<1> QED BY <1>1 DEF Slot, Pending

LEMMA SlotIsPrime == ASSUME Inv'
                     PROVE  /\ delay_cancel' => Slot' = NoMsg
                            /\ (\A h \in Msg : helper'[h] \notin Pending) => Slot' = NoMsg
                            /\ \A h \in Msg : helper'[h] \in Pending /\ ~delay_cancel' => Slot' = h
<1>1. \A h \in Msg : helper'[h] \in Pending => delay_msg' = h
  BY DEF Inv, FieldsInv, Pending, Alive
<1> QED BY <1>1 DEF Slot, Pending

\* The second locked section of a call finds the slot empty, and puts its
\* message there unless it is a stop or a restart or has no helper for it.
LEMMA CompleteSlot ==
  ASSUME Inv, Inv', NEW c \in Caller, NEW o \in Op, NEW m \in Msg \cup {NoMsg},
         \A h \in Msg : helper[h] \notin Alive, o = "send_after" => m \in Msg,
         delay_cancel' = FALSE, Complete(c, o, m), UNCHANGED sends
  PROVE  [Abstract!Next]_(Abstract!vars)
<1>1. Slot = NoMsg
  BY SlotIs DEF Pending, Alive
<1>2. Fired' = Fired
  BY DEF Fired
<1>3. CASE helper' = helper
  <2>1. Slot' = NoMsg
    BY <1>3, SlotIsPrime DEF Pending, Alive
  <2> QED BY <1>1, <1>2, <2>1 DEF Abstract!vars
<1>4. CASE m \in Msg /\ helper' = [helper EXCEPT ![m] = "start"]
  <2>1. Slot' = m
    BY <1>4, SlotIsPrime DEF Pending, Inv, TypeOK
  <2>2. Abstract!Put(m)
    BY <1>1, <1>2, <2>1 DEF Abstract!Put
  <2> QED BY <2>2, <1>4 DEF Abstract!Next
<1> QED BY <1>3, <1>4 DEF Complete, Install

LEMMA SlotStep == ASSUME OneCaller, Inv, [Next]_vars
                  PROVE  [Abstract!Next]_(Abstract!vars)
<1>i. Inv'
  BY NextInv
<1>1. ASSUME NEW c \in Caller, NEW o \in Op, Begin(c, o)
      PROVE  [Abstract!Next]_(Abstract!vars)
  <2>1. Fired' = Fired
    BY <1>1 DEF Begin, Fired
  <2>2. CASE delay_active
    <3>1. Slot' = NoMsg
      BY <1>1, <2>2, <1>i, SlotIsPrime DEF Begin
    <3> QED BY <2>1, <3>1 DEF Abstract!Next, Abstract!Clear, Abstract!vars
  <2>3. CASE ~delay_active
    <3>1. \A h \in Msg : helper[h] \notin Alive
      BY <2>3, NobodyAlive
    <3>2. /\ Complete(c, o, msg'[c]) /\ UNCHANGED sends
          /\ delay_cancel' = FALSE
      BY <1>1, <2>3 DEF Begin, Inv, TypeOK, CallerInv
    <3>3. msg'[c] \in Msg \cup {NoMsg} /\ (o = "send_after" => msg'[c] \in Msg)
      BY <1>1, CallsAssumption DEF Begin, Inv, TypeOK, Msg, NoMsg
    <3> QED BY <1>i, <3>1, <3>2, <3>3, CompleteSlot
  <2> QED BY <2>2, <2>3
<1>2. ASSUME NEW c \in Caller, JoinReturn(c)
      PROVE  [Abstract!Next]_(Abstract!vars)
  <2>1. (\A h \in Msg : helper[h] \notin Alive) /\ op[c] \in Op
    BY <1>2, JoinReturnStep
  <2>2. /\ Complete(c, op[c], msg[c]) /\ UNCHANGED sends /\ delay_cancel' = FALSE
        /\ pc[c] = "joining"
    BY <1>2 DEF JoinReturn
  <2>3. msg[c] \in Msg \cup {NoMsg} /\ (op[c] = "send_after" => msg[c] \in Msg)
    BY <2>2 DEF Inv, TypeOK, CallerInv
  <2> QED BY <1>i, <2>1, <2>2, <2>3, CompleteSlot
<1>3. ASSUME NEW h \in Msg, helper[h] \in Pending, Finish(h)
      PROVE  [Abstract!Next]_(Abstract!vars)
  <2>1. /\ helper[h] \in Alive /\ sends[h] = NoMsg
        /\ helper' = [helper EXCEPT ![h] = IF delay_cancel THEN "exited" ELSE "sending"]
        /\ sends' = [sends EXCEPT ![h] = IF delay_cancel THEN NoMsg ELSE delay_msg]
    BY <1>3 DEF Finish, Pending, Alive, Inv, HelperInv
  <2>2. delay_msg = h /\ h # NoMsg /\ \A g \in Msg \ {h} : helper[g] \notin Alive
    BY <2>1, OnlyHelper
  <2>3. \A g \in Msg : helper'[g] \notin Pending
    BY <2>1, <2>2 DEF Inv, TypeOK, Pending, Alive
  <2>4. Slot' = NoMsg
    BY <2>3, <1>i, SlotIsPrime
  <2>5. CASE delay_cancel
    <3>1. sends' = sends
      BY <2>1, <2>5 DEF Inv, TypeOK
    <3>2. Slot = NoMsg /\ Fired' = Fired
      BY <3>1, <2>5, SlotIs DEF Fired
    <3> QED BY <3>2, <2>4 DEF Abstract!vars
  <2>6. CASE ~delay_cancel
    <3>1. Slot = h
      BY <1>3, <2>6, SlotIs
    <3>2. sends'[h] = h /\ \A g \in Msg \ {h} : sends'[g] = sends[g]
      BY <2>1, <2>2, <2>6 DEF Inv, TypeOK
    <3>3. \A g \in Msg : sends[g] \in {NoMsg, g}
      BY DEF Inv, HelperInv
    <3>4. h \notin Fired
      BY <2>1, <2>2, <3>3 DEF Fired
    <3>5. Fired' = Fired \cup {h}
      BY <2>1, <2>2, <3>2 DEF Fired
    <3> QED BY <2>2, <2>4, <3>1, <3>4, <3>5 DEF Abstract!Next, Abstract!Fire
  <2> QED BY <2>5, <2>6
<1>4. ASSUME NEW h \in Msg, HelperStart(h)
      PROVE  [Abstract!Next]_(Abstract!vars)
  <2>1. /\ helper[h] = "start" /\ ~delay_cancel /\ ~delay_cancel'
        /\ helper' = [helper EXCEPT ![h] = "waiting"] /\ sends' = sends
    BY <1>4 DEF HelperStart, flags
  <2>2. Slot = h
    BY <2>1, SlotIs DEF Pending
  <2>3. Slot' = h
    BY <2>1, <1>i, SlotIsPrime DEF Pending, Inv, TypeOK
  <2> QED BY <2>1, <2>2, <2>3 DEF Fired, Abstract!vars
<1>5. ASSUME NEW h \in Msg, helper[h] = "sending", helper' = [helper EXCEPT ![h] = "exited"],
             UNCHANGED <<flags, sends>>
      PROVE  [Abstract!Next]_(Abstract!vars)
  <2>1. \A g \in Msg : helper'[g] \in Pending <=> helper[g] \in Pending
    BY <1>5 DEF Inv, TypeOK, Pending
  <2> QED BY <1>5, <2>1 DEF Slot, Fired, flags, Pending, Abstract!vars
<1>6. ASSUME UNCHANGED <<flags, helpers>>
      PROVE  [Abstract!Next]_(Abstract!vars)
  BY <1>6 DEF Slot, Fired, flags, helpers, Abstract!vars
<1> QED BY <1>1, <1>2, <1>3, <1>4, <1>5, <1>6
        DEF Next, HelperStep, HelperCancelled, HelperTimeout, HelperSend, HelperSendFails, Join,
            Port, Pending, vars, flags, helpers

\* With one caller the flags, the helper thread and the joins implement the
\* single delayed slot of the documentation: every step of the port puts a
\* message into the empty slot, clears the slot, lets the message in it fire
\* once, or leaves the slot alone.
THEOREM DelayImplementsSlot ==
  ASSUME OneCaller PROVE Spec => Abstract!Init /\ [][Abstract!Next]_(Abstract!vars)
<1>1. Inv /\ [Next]_vars => [Abstract!Next]_(Abstract!vars)
  BY SlotStep
<1> QED BY <1>1, SlotInit, DelayInvariant, PTL DEF Spec
=============================================================================
