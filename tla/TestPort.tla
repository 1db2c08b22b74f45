------------------------------ MODULE TestPort ------------------------------
(***************************************************************************)
(* The deterministic test port (src/src/port/test/ipc_test_port.c): one    *)
(* thread, a ring of copied messages per actor, and                        *)
(* ipc_test_run_until_idle, which hands out one message per actor and      *)
(* round until a round finds nothing.  Handlers may send, fail, stop       *)
(* everything, or call ipc_test_run_until_idle again: "frames" is the      *)
(* stack of its activations.                                               *)
(*                                                                         *)
(* Sends are numbered; the n-th carries message n.                         *)
(***************************************************************************)
EXTENDS Integers, Sequences

CONSTANTS N,             \* actors 1 .. N, in the order of _ipc_actor_list
          QueueDepth,    \* cfg.queue_depth
          StopActors,    \* actors under IPC_SUPERVISE_STOP
          RestartActors, \* actors under IPC_SUPERVISE_RESTART
          MaxSends,      \* bound: accepted sends in a behaviour
          MaxStarts,     \* bound: calls of ipc_test_start that start something
          MaxDepth       \* bound: activations of ipc_test_run_until_idle at a time

ASSUME SizeAssumption == /\ N \in Nat \ {0} /\ QueueDepth \in Nat \ {0}
                         /\ MaxSends \in Nat /\ MaxStarts \in Nat /\ MaxDepth \in Nat
ASSUME SupervisionAssumption == /\ StopActors \subseteq 1 .. N /\ RestartActors \subseteq 1 .. N
                                /\ StopActors \cap RestartActors = {}

Actor == 1 .. N
Index == 0 .. QueueDepth - 1
Msg == 1 .. MaxSends
NoMsg == 0

VARIABLES lifecycle_state,
          started,         \* per actor: initialised and not stopped
          queue,           \* the slots of each actor's ring
          head, tail, count,
          receive_slot,    \* the copy each actor's handler works on
          frames,          \* activations of ipc_test_run_until_idle, the innermost last
          starts, sends,   \* calls so far
          box              \* auxiliary: accepted, not yet handed out or discarded, in order

rings == <<queue, head, tail, count>>
vars == <<lifecycle_state, started, queue, head, tail, count, receive_slot, frames, starts,
          sends, box>>

\* cursor: the actor the loop is at; made_progress; actor: whose handler runs,
\* 0 for none; msg: the message it was given; reentered: the handler has since
\* called ipc_test_run_until_idle and that has served the same actor.
Frame == [cursor : 1 .. N + 1, made_progress : BOOLEAN, actor : 0 .. N,
          msg : Msg \cup {NoMsg}, reentered : BOOLEAN]
NewFrame == [cursor |-> 1, made_progress |-> FALSE, actor |-> 0, msg |-> NoMsg,
             reentered |-> FALSE]

TypeOK == /\ lifecycle_state \in {"stopped", "running", "stopping"}
          /\ started \in [Actor -> BOOLEAN]
          /\ queue \in [Actor -> [Index -> Msg \cup {NoMsg}]]
          /\ head \in [Actor -> Index]
          /\ tail \in [Actor -> Index]
          /\ count \in [Actor -> 0 .. QueueDepth]
          /\ receive_slot \in [Actor -> Msg \cup {NoMsg}]
          /\ frames \in Seq(Frame) /\ Len(frames) <= MaxDepth
          /\ starts \in 0 .. MaxStarts
          /\ sends \in 0 .. MaxSends
          /\ box \in [Actor -> Seq(Msg)]

EmptyRing == [i \in Index |-> NoMsg]

Init == /\ lifecycle_state = "stopped"
        /\ started = [a \in Actor |-> FALSE]
        /\ queue = [a \in Actor |-> EmptyRing]
        /\ head = [a \in Actor |-> 0]
        /\ tail = [a \in Actor |-> 0]
        /\ count = [a \in Actor |-> 0]
        /\ receive_slot = [a \in Actor |-> NoMsg]
        /\ frames = <<>>
        /\ starts = 0
        /\ sends = 0
        /\ box = [a \in Actor |-> <<>>]

-----------------------------------------------------------------------------

Top == frames[Len(frames)]
SetTop(f) == frames' = [frames EXCEPT ![Len(frames)] = f]

InTest == frames = <<>>
InHandler(a) == frames # <<>> /\ Top.actor = a

\* Application code runs: the test itself or some handler.
InUser == frames # <<>> => Top.actor # 0

\* The mailboxes of the actors in S lose their messages.
Forget(S) == box' = [a \in Actor |-> IF a \in S THEN <<>> ELSE box[a]]

\* release_state and, for the actors of Up, the rest of ipc_port_actor_init.
Reset(Up) == /\ started' = [a \in Actor |-> a \in Up]
             /\ queue' = [a \in Actor |-> EmptyRing]
             /\ head' = [a \in Actor |-> 0]
             /\ tail' = [a \in Actor |-> 0]
             /\ count' = [a \in Actor |-> 0]
             /\ receive_slot' = [a \in Actor |-> NoMsg]
             /\ Forget(Actor)

\* ipc_port_stop_actor for the actors in S: head and tail stay where they are.
StopActor(S) == /\ started' = [a \in Actor |-> started[a] /\ a \notin S]
                /\ count' = [a \in Actor |-> IF a \in S THEN 0 ELSE count[a]]
                /\ Forget(S)
                /\ UNCHANGED <<queue, head, tail, receive_slot>>

-----------------------------------------------------------------------------
(* The test *)

\* ipc_test_start
Start == /\ InTest
         /\ lifecycle_state = "stopped"
         /\ starts < MaxStarts
         /\ starts' = starts + 1
         /\ lifecycle_state' = "running"
         /\ Reset(Actor)
         /\ UNCHANGED <<frames, sends>>

\* An actor has no memory for its mailbox: the ones before it are stopped
\* again, and what an earlier life has left of the others was released by
\* ipc_test_stop.
StartFails == /\ InTest
              /\ lifecycle_state = "stopped"
              /\ starts < MaxStarts
              /\ starts' = starts + 1
              /\ lifecycle_state' = "stopping"
              /\ Reset({})
              /\ UNCHANGED <<frames, sends>>

\* ipc_test_stop: ipc_stop_all and ipc_run_all.
Stop == /\ InTest
        /\ lifecycle_state' = IF lifecycle_state \in {"running", "stopping"} THEN "stopped"
                                                                          ELSE lifecycle_state
        /\ Reset({})
        /\ UNCHANGED <<frames, starts, sends>>

-----------------------------------------------------------------------------
(* What the test and handlers may do *)

\* enqueue accepts; otherwise it returns -EPERM or -ENOMEM and changes nothing.
Send(a) == /\ InUser
           /\ started[a]
           /\ count[a] < QueueDepth
           /\ sends < MaxSends
           /\ sends' = sends + 1
           /\ queue' = [queue EXCEPT ![a][tail[a]] = sends + 1]
           /\ tail' = [tail EXCEPT ![a] = (@ + 1) % QueueDepth]
           /\ count' = [count EXCEPT ![a] = @ + 1]
           /\ box' = [box EXCEPT ![a] = Append(@, sends + 1)]
           /\ UNCHANGED <<lifecycle_state, started, head, receive_slot, frames, starts>>

\* ipc_actor_fail, from the actor's handler
FailStop(a) == /\ InHandler(a)
               /\ a \in StopActors
               /\ StopActor({a})
               /\ UNCHANGED <<lifecycle_state, frames, starts, sends>>

\* Mutant of FailRestart: tail stays where it is.
FailRestartKeepsTail(a) ==
    /\ InHandler(a)
    /\ a \in RestartActors
    /\ started[a]
    /\ head' = [head EXCEPT ![a] = 0]
    /\ count' = [count EXCEPT ![a] = 0]
    /\ Forget({a})
    /\ UNCHANGED <<lifecycle_state, started, queue, tail, receive_slot, frames, starts, sends>>

\* ipc_port_restart_actor; a stopped actor is refused with -EPERM.
FailRestart(a) == /\ InHandler(a)
                  /\ a \in RestartActors
                  /\ started[a]
                  /\ head' = [head EXCEPT ![a] = 0]
                  /\ tail' = [tail EXCEPT ![a] = 0]
                  /\ count' = [count EXCEPT ![a] = 0]
                  /\ Forget({a})
                  /\ UNCHANGED <<lifecycle_state, started, queue, receive_slot, frames, starts,
                                 sends>>

\* ipc_stop_all
StopAll == /\ InUser
           /\ lifecycle_state = "running"
           /\ lifecycle_state' = "stopping"
           /\ StopActor(Actor)
           /\ UNCHANGED <<frames, starts, sends>>

-----------------------------------------------------------------------------
(* ipc_test_run_until_idle *)

Run == /\ InUser
       /\ Len(frames) < MaxDepth
       /\ frames' = Append(frames, NewFrame)
       /\ UNCHANGED <<lifecycle_state, started, rings, receive_slot, starts, sends, box>>

Servable(a) == started[a] /\ count[a] # 0

\* The loop is at actor a and no handler runs.
LoopAt(a) == frames # <<>> /\ Top.actor = 0 /\ Top.cursor = a

\* Mutant of Serve: head is advanced before the copy.
ServeAdvancesFirst(a) ==
    /\ LoopAt(a)
    /\ Servable(a)
    /\ receive_slot' = [receive_slot EXCEPT ![a] = queue[a][(head[a] + 1) % QueueDepth]]
    /\ head' = [head EXCEPT ![a] = (@ + 1) % QueueDepth]
    /\ count' = [count EXCEPT ![a] = @ - 1]
    /\ frames' = [k \in 1 .. Len(frames) |->
                    IF k = Len(frames)
                    THEN [Top EXCEPT !.actor = a, !.msg = Head(box[a]), !.reentered = FALSE]
                    ELSE [frames[k] EXCEPT !.reentered = @ \/ frames[k].actor = a]]
    /\ box' = [box EXCEPT ![a] = Tail(@)]
    /\ UNCHANGED <<lifecycle_state, started, queue, tail, starts, sends>>

\* The oldest message is copied and the handler is called with the copy.
Serve(a) ==
    /\ LoopAt(a)
    /\ Servable(a)
    /\ receive_slot' = [receive_slot EXCEPT ![a] = queue[a][head[a]]]
    /\ head' = [head EXCEPT ![a] = (@ + 1) % QueueDepth]
    /\ count' = [count EXCEPT ![a] = @ - 1]
    /\ frames' = [k \in 1 .. Len(frames) |->
                    IF k = Len(frames)
                    THEN [Top EXCEPT !.actor = a, !.msg = Head(box[a]), !.reentered = FALSE]
                    ELSE [frames[k] EXCEPT !.reentered = @ \/ frames[k].actor = a]]
    /\ box' = [box EXCEPT ![a] = Tail(@)]
    /\ UNCHANGED <<lifecycle_state, started, queue, tail, starts, sends>>

\* Mutant of Skip: made_progress tells about the last actor only.
SkipClears(a) == /\ LoopAt(a)
                 /\ ~Servable(a)
                 /\ SetTop([Top EXCEPT !.cursor = a + 1, !.made_progress = FALSE])
                 /\ UNCHANGED <<lifecycle_state, started, rings, receive_slot, starts, sends, box>>

Skip(a) == /\ LoopAt(a)
           /\ ~Servable(a)
           /\ SetTop([Top EXCEPT !.cursor = a + 1])
           /\ UNCHANGED <<lifecycle_state, started, rings, receive_slot, starts, sends, box>>

HandlerReturn(a) ==
    /\ InHandler(a)
    /\ SetTop([cursor |-> a + 1, made_progress |-> TRUE, actor |-> 0, msg |-> NoMsg,
               reentered |-> FALSE])
    /\ UNCHANGED <<lifecycle_state, started, rings, receive_slot, starts, sends, box>>

\* Mutant of NextRound: made_progress is not reset.
NextRoundKeepsProgress ==
    /\ LoopAt(N + 1)
    /\ Top.made_progress
    /\ SetTop([NewFrame EXCEPT !.made_progress = TRUE])
    /\ UNCHANGED <<lifecycle_state, started, rings, receive_slot, starts, sends, box>>

\* The end of a round.
NextRound == /\ LoopAt(N + 1)
             /\ Top.made_progress
             /\ SetTop(NewFrame)
             /\ UNCHANGED <<lifecycle_state, started, rings, receive_slot, starts, sends, box>>

Return == /\ LoopAt(N + 1)
          /\ ~Top.made_progress
          /\ frames' = SubSeq(frames, 1, Len(frames) - 1)
          /\ UNCHANGED <<lifecycle_state, started, rings, receive_slot, starts, sends, box>>

-----------------------------------------------------------------------------

LoopStep == \/ \E a \in Actor : Serve(a)
            \/ \E a \in Actor : Skip(a)
            \/ NextRound
            \/ Return

Next == \/ Start
        \/ StartFails
        \/ Stop
        \/ \E a \in Actor : Send(a)
        \/ \E a \in Actor : FailStop(a)
        \/ \E a \in Actor : FailRestart(a)
        \/ StopAll
        \/ Run
        \/ \E a \in Actor : HandlerReturn(a)
        \/ LoopStep

\* The loop goes on, and handlers return: none calls
\* ipc_test_run_until_idle for ever.
Fairness == WF_vars(LoopStep) /\ SF_vars(\E a \in Actor : HandlerReturn(a))

Spec == Init /\ [][Next]_vars /\ Fairness

-----------------------------------------------------------------------------
(* Properties *)

\* Of a started actor, the count slots from head on are its accepted
\* messages, oldest first, and the next one goes behind them: through any
\* wrap-around, restart, and a new start after a stop that has left head and
\* tail apart.
RingConsistent ==
    /\ TypeOK
    /\ \A a \in Actor : started[a] =>
          /\ count[a] = Len(box[a])
          /\ tail[a] = (head[a] + count[a]) % QueueDepth
          /\ \A n \in 1 .. count[a] : queue[a][(head[a] + n - 1) % QueueDepth] = box[a][n]

\* The message a handler works on is the oldest of its mailbox and stays as
\* it is while the handler sends, even to itself, fails, or stops the actors
\* ("copied mailbox delivery", CHANGELOG.md:20), unless the handler calls
\* ipc_test_run_until_idle again and that serves the same actor.
CopyIntact == \A k \in 1 .. Len(frames) :
    frames[k].actor # 0 /\ ~frames[k].reentered => receive_slot[frames[k].actor] = frames[k].msg

\* "Dispatch copied test-port mailbox messages until all mailboxes are empty"
\* (ipc.h:782): whenever ipc_test_run_until_idle returns, to the test or to a
\* handler, no started actor has a message left.
ReturnsIdle == [][Len(frames') < Len(frames) => \A a \in Actor : ~Servable(a)]_vars

\* ipc_test_run_until_idle returns once handlers send no more.
RunReturns == frames # <<>> ~> frames = <<>>
=============================================================================
