----------------------------- MODULE DelaySlot -----------------------------
(***************************************************************************)
(* The documented contract of ipc_send_after for one actor: "Each actor    *)
(* has one pending delayed slot; a newer ipc_send_after() call replaces    *)
(* the previous one" (README.md).  A pending message fires when its delay  *)
(* is over, and a stop or a restart of the actor clears the slot.          *)
(***************************************************************************)
EXTENDS Naturals

CONSTANTS Msg,    \* delayed messages
          NoMsg   \* the slot is empty

VARIABLES slot,   \* the pending message
          fired   \* the messages whose delay is over, on their way to the mailbox

vars == <<slot, fired>>

Init == slot = NoMsg /\ fired = {}

Put(m) == slot = NoMsg /\ slot' = m /\ UNCHANGED fired

\* The delay is over: only the pending message can fire, and it fires once.
Fire == /\ slot # NoMsg
        /\ slot \notin fired
        /\ fired' = fired \cup {slot}
        /\ slot' = NoMsg

\* A stop, a restart, or a newer message, which takes the slot afterwards:
\* between the two the call waits for the old message to be out of the way.
Clear == slot # NoMsg /\ slot' = NoMsg /\ UNCHANGED fired

Next == Fire \/ Clear \/ \E m \in Msg : Put(m)

\* A pending message does not stay for ever.
Spec == Init /\ [][Next]_vars /\ WF_vars(Fire \/ Clear)
=============================================================================
