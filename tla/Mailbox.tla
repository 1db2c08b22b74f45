------------------------------ MODULE Mailbox ------------------------------
(***************************************************************************)
(* What a port promises to the core about one actor's mailbox, with no     *)
(* ring, lock or condition variable: a bounded FIFO queue served by one    *)
(* thread.  A message is accepted only while there is room, accepted       *)
(* messages are handed to the handler one at a time and in the order of    *)
(* acceptance, a soft restart discards what is queued, and a thread that   *)
(* has begun to serve leaves nothing behind when it goes.                  *)
(***************************************************************************)
EXTENDS Naturals, Sequences

CONSTANTS Msg,      \* messages
          NoMsg,    \* no message is being handled
          Capacity  \* cfg.queue_depth

VARIABLES queue,    \* accepted and not yet handed to the handler
          current,  \* the message the handler is working on, or NoMsg
          open,     \* the actor has not been asked to stop
          phase     \* "new": not serving yet, "up": serving, "gone": left

vars == <<queue, current, open, phase>>

Init == /\ queue = <<>>
        /\ current = NoMsg
        /\ open = TRUE
        /\ phase = "new"

Accept(m) == /\ Len(queue) < Capacity
             /\ queue' = Append(queue, m)
             /\ UNCHANGED <<current, open, phase>>

\* The previous handler call, if any, has returned and the oldest message is
\* handed over.
Take == /\ phase # "gone"
        /\ queue # <<>>
        /\ current' = Head(queue)
        /\ queue' = Tail(queue)
        /\ phase' = "up"
        /\ UNCHANGED open

\* The handler has returned (or the thread has just begun) and nothing is queued.
Idle == /\ phase # "gone"
        /\ queue = <<>>
        /\ current' = NoMsg
        /\ phase' = "up"
        /\ UNCHANGED <<queue, open>>

Close == /\ open' = FALSE
         /\ UNCHANGED <<queue, current, phase>>

\* A soft restart forgets what is queued and serves again.
Flush == /\ queue' = <<>>
         /\ open' = TRUE
         /\ UNCHANGED <<current, phase>>

\* Only an actor that was asked to stop loses its thread, and only a thread
\* that never began may leave messages behind.
Leave == /\ phase # "gone"
         /\ ~open
         /\ phase = "up" => queue = <<>>
         /\ current' = NoMsg
         /\ phase' = "gone"
         /\ UNCHANGED <<queue, open>>

Next == \/ \E m \in Msg : Accept(m)
        \/ Take
        \/ Idle
        \/ Close
        \/ Flush
        \/ Leave

Safety == Init /\ [][Next]_vars

Spec == Safety /\ WF_vars(Take \/ Leave)
=============================================================================
