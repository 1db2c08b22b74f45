----------------------------- MODULE Lifecycle -----------------------------
(***************************************************************************)
(* Starting, stopping, joining and supervising the actors on the POSIX     *)
(* port: ipc_start_all_actors, ipc_stop_all, ipc_run_all, ipc_actor_fail   *)
(* and the lifecycle check of ipc_send_to in src/src/ipc.c, over           *)
(* ipc_port_actor_init, ipc_port_stop_actor, ipc_port_restart_actor,       *)
(* ipc_port_run_all and cleanup_actor of the port.                         *)
(*                                                                         *)
(* The calls walk the list of actors, 1 .. N, one hook and one port call   *)
(* at a time, while the threads of the actors run.  A mailbox is a number  *)
(* of messages; its order is the business of PosixMailbox, the delayed     *)
(* sends that a stop cancels that of DelayedSend.                          *)
(***************************************************************************)
EXTENDS Integers, FiniteSets

CONSTANTS N,                             \* actors, in the order of _ipc_actor_list
          Starters, Stoppers, Runners,   \* threads that call start, stop, run
          Sender,         \* threads that call ipc_send_to
          Askers,         \* actors that call ipc_ask with a timeout
          FailingInit,    \* actors whose ipc_port_actor_init may fail
          StopActors,     \* actors supervised with IPC_SUPERVISE_STOP
          RestartActors,  \* actors supervised with IPC_SUPERVISE_RESTART
          Careful,        \* does the application serialise its calls, see Alone
          QueueDepth,     \* cfg.queue_depth
          MaxSends        \* bound: messages sent and timeouts requested in a behaviour

ASSUME CountAssumption == N \in Nat \ {0} /\ QueueDepth \in Nat \ {0} /\ MaxSends \in Nat
ASSUME SupervisionAssumption == /\ FailingInit \cup StopActors \cup RestartActors \subseteq 1 .. N
                                /\ StopActors \cap RestartActors = {}
ASSUME UseAssumption == Askers \subseteq 1 .. N /\ Careful \in BOOLEAN

Actor == 1 .. N
Control == Starters \cup Stoppers \cup Runners

VARIABLES lifecycle,  \* lifecycle_state
          port,       \* the port resources of each actor
          running,    \* p->running
          joined,     \* p->joined, FALSE in the zero-initialised port state
          thread,     \* where the thread of each actor is
          queue,      \* messages in each mailbox
          hook,       \* auxiliary: lifecycle hooks called since ipc_port_actor_init
          pc,         \* where each control thread is
          checked,    \* the actor a thread in ipc_send_to is about to post to, or 0
          due,        \* actors with an ask-timeout helper that has not finished
          started,    \* auxiliary: the last ipc_start_all_actors has returned 0
          sent,       \* messages sent and timeouts requested so far
          faults      \* auxiliary: who has used the mailbox of an actor after its cleanup

actors == <<port, running, joined, thread, queue>>
vars == <<lifecycle, port, running, joined, thread, queue, hook, pc, checked, due, started,
          sent, faults>>

(* port:   "raw" never initialised, "live", "clean" after cleanup_actor or  *)
(*         a failed pthread_create: locks destroyed, buffers freed          *)
(* thread: "none", "start" created, "waiting" for messages, "busy" in a     *)
(*         handler; "fail_port" and "fail_start" in ipc_actor_fail, before  *)
(*         the port call and before the start hook; "exited"                *)
(* hook:   "none", "started", "stopped", or "unpaired" once a stop hook     *)
(*         has run without a start hook before it, or the reverse           *)
Location == [call : {"none", "start", "stop", "run"},
             step : {"idle", "init", "start_hook", "stop_hook", "stop_port", "failed",
                     "join", "check", "store"},
             actor : 0 .. N, last : 0 .. N]

TypeOK == /\ lifecycle \in {"stopped", "running", "stopping"}
          /\ port \in [Actor -> {"raw", "live", "clean"}]
          /\ running \in [Actor -> BOOLEAN]
          /\ joined \in [Actor -> BOOLEAN]
          /\ thread \in [Actor -> {"none", "start", "waiting", "busy", "fail_port",
                                   "fail_start", "exited"}]
          /\ queue \in [Actor -> 0 .. QueueDepth]
          /\ hook \in [Actor -> {"none", "started", "stopped", "unpaired"}]
          /\ pc \in [Control -> Location]
          /\ checked \in [Sender -> 0 .. N]
          /\ due \subseteq Actor
          /\ started \in BOOLEAN
          /\ sent \in 0 .. MaxSends
          /\ faults \subseteq {"stop", "timeout"}

Idle == [call |-> "none", step |-> "idle", actor |-> 0, last |-> 0]

Init == /\ lifecycle = "stopped"
        /\ port = [a \in Actor |-> "raw"]
        /\ running = [a \in Actor |-> FALSE]
        /\ joined = [a \in Actor |-> FALSE]
        /\ thread = [a \in Actor |-> "none"]
        /\ queue = [a \in Actor |-> 0]
        /\ hook = [a \in Actor |-> "none"]
        /\ pc = [c \in Control |-> Idle]
        /\ checked = [x \in Sender |-> 0]
        /\ due = {}
        /\ started = FALSE
        /\ sent = 0
        /\ faults = {}

-----------------------------------------------------------------------------

At(c, step) == pc[c].step = step
Enter(c, name, step, last) ==
    pc' = [pc EXCEPT ![c] = [call |-> name, step |-> step, actor |-> 1, last |-> last]]
Goto(c, step, a) == pc' = [pc EXCEPT ![c] = [pc[c] EXCEPT !.step = step, !.actor = a]]
Return(c) == pc' = [pc EXCEPT ![c] = Idle]

\* A careful application calls ipc_stop_all and ipc_run_all when no other
\* control call is under way, and ipc_run_all once the actors were told to stop.
\* Handlers, threads inside ipc_send_to and ask-timeout helpers go on meanwhile.
Alone(c) == Careful => \A d \in Control \ {c} : pc[d] = Idle

StartHookRuns(a) ==
    hook' = [hook EXCEPT ![a] = IF @ \in {"none", "stopped"} THEN "started" ELSE "unpaired"]
StopHookRuns(a) ==
    hook' = [hook EXCEPT ![a] = IF @ = "started" THEN "stopped" ELSE "unpaired"]

\* An access to the locks or the ring of actor a.
Touch(a, use) == faults' = IF port[a] = "clean" THEN faults \cup {use} ELSE faults

-----------------------------------------------------------------------------
(* ipc_start_all_actors *)

\* Mutant of StartBegin: the previous generation need not be joined.
StartBeginUnjoined(c) ==
    /\ c \in Starters
    /\ pc[c] = Idle
    /\ lifecycle # "running"
    /\ lifecycle' = "running"
    /\ started' = FALSE
    /\ Enter(c, "start", "init", 0)
    /\ UNCHANGED <<actors, hook, checked, due, sent, faults>>

\* The compare-and-swap.  In other states the call returns -EBUSY or -EALREADY.
StartBegin(c) ==
    /\ c \in Starters
    /\ pc[c] = Idle
    /\ lifecycle = "stopped"
    /\ lifecycle' = "running"
    /\ started' = FALSE
    /\ Enter(c, "start", "init", 0)
    /\ UNCHANGED <<actors, hook, checked, due, sent, faults>>

\* ipc_port_actor_init succeeds: the thread exists and may run at once.
InitActor(c) ==
    LET a == pc[c].actor IN
    /\ At(c, "init")
    /\ port' = [port EXCEPT ![a] = "live"]
    /\ running' = [running EXCEPT ![a] = TRUE]
    /\ joined' = [joined EXCEPT ![a] = FALSE]
    /\ thread' = [thread EXCEPT ![a] = "start"]
    /\ queue' = [queue EXCEPT ![a] = 0]
    /\ hook' = [hook EXCEPT ![a] = "none"]
    /\ Goto(c, "start_hook", a)
    /\ UNCHANGED <<lifecycle, checked, due, started, sent, faults>>

\* Mutants of InitFails: the failing actor is stopped too; nobody is stopped.
InitFailsStopsItself(c) ==
    LET a == pc[c].actor IN
    /\ At(c, "init")
    /\ a \in FailingInit
    /\ joined' = [joined EXCEPT ![a] = TRUE]
    /\ pc' = [pc EXCEPT ![c] = [call |-> "start", step |-> "stop_hook", actor |-> 1, last |-> a]]
    /\ UNCHANGED <<lifecycle, port, running, thread, queue, hook, checked, due, started, sent, faults>>
InitFailsOnly(c) ==
    LET a == pc[c].actor IN
    /\ At(c, "init")
    /\ a \in FailingInit
    /\ joined' = [joined EXCEPT ![a] = TRUE]
    /\ Goto(c, "failed", a)
    /\ UNCHANGED <<lifecycle, port, running, thread, queue, hook, checked, due, started, sent, faults>>

\* It fails, in calloc or in pthread_create: the actors before are stopped.
InitFails(c) ==
    LET a == pc[c].actor IN
    /\ At(c, "init")
    /\ a \in FailingInit
    /\ joined' = [joined EXCEPT ![a] = TRUE]
    /\ \/ UNCHANGED <<port, running, queue>>
       \/ /\ port' = [port EXCEPT ![a] = "clean"]
          /\ running' = [running EXCEPT ![a] = FALSE]
          /\ queue' = [queue EXCEPT ![a] = 0]
    /\ pc' = [pc EXCEPT ![c] = [call |-> "start", step |-> IF a = 1 THEN "failed" ELSE "stop_hook",
                                actor |-> 1, last |-> a - 1]]
    /\ UNCHANGED <<lifecycle, thread, hook, checked, due, started, sent, faults>>

\* The start hook; ipc_port_start has nothing left to do on this port.
StartHook(c) ==
    LET a == pc[c].actor IN
    /\ At(c, "start_hook")
    /\ StartHookRuns(a)
    /\ IF a < N THEN Goto(c, "init", a + 1) ELSE Return(c)
    /\ started' = (a = N)
    /\ UNCHANGED <<lifecycle, actors, checked, due, sent, faults>>

StartFails(c) ==
    /\ At(c, "failed")
    /\ lifecycle' = "stopping"
    /\ Return(c)
    /\ UNCHANGED <<actors, hook, checked, due, started, sent, faults>>

-----------------------------------------------------------------------------
(* ipc_stop_all, and stop_actors_through for a start that failed *)

StopBegin(c) ==
    /\ c \in Stoppers
    /\ pc[c] = Idle
    /\ Alone(c)
    /\ lifecycle = "running"
    /\ lifecycle' = "stopping"
    /\ Enter(c, "stop", "stop_hook", N)
    /\ UNCHANGED <<actors, hook, checked, due, started, sent, faults>>

StopHook(c) ==
    /\ At(c, "stop_hook")
    /\ StopHookRuns(pc[c].actor)
    /\ Goto(c, "stop_port", pc[c].actor)
    /\ UNCHANGED <<lifecycle, actors, checked, due, started, sent, faults>>

\* Mutant of StopPort: the loop ends one actor early.
StopPortEndsEarly(c) ==
    LET a == pc[c].actor IN
    /\ At(c, "stop_port")
    /\ running' = [running EXCEPT ![a] = FALSE]
    /\ Touch(a, "stop")
    /\ \/ a + 1 < pc[c].last /\ Goto(c, "stop_hook", a + 1)
       \/ a + 1 >= pc[c].last /\ pc[c].call = "start" /\ Goto(c, "failed", a)
       \/ a + 1 >= pc[c].last /\ pc[c].call = "stop" /\ Return(c)
    /\ UNCHANGED <<lifecycle, port, joined, thread, queue, hook, checked, due, started, sent>>

StopPort(c) ==
    LET a == pc[c].actor IN
    /\ At(c, "stop_port")
    /\ running' = [running EXCEPT ![a] = FALSE]
    /\ Touch(a, "stop")
    /\ \/ a < pc[c].last /\ Goto(c, "stop_hook", a + 1)
       \/ a = pc[c].last /\ pc[c].call = "start" /\ Goto(c, "failed", a)
       \/ a = pc[c].last /\ pc[c].call = "stop" /\ Return(c)
    /\ UNCHANGED <<lifecycle, port, joined, thread, queue, hook, checked, due, started, sent>>

-----------------------------------------------------------------------------
(* ipc_run_all *)

RunBegin(c) ==
    /\ c \in Runners
    /\ pc[c] = Idle
    /\ Alone(c)
    /\ Careful => lifecycle = "stopping"
    /\ Enter(c, "run", "join", 0)
    /\ UNCHANGED <<lifecycle, actors, hook, checked, due, started, sent, faults>>

\* Mutants of Join: the loop ends one actor early; the thread is not waited for.
JoinEndsEarly(c) ==
    LET a == pc[c].actor IN
    /\ At(c, "join")
    /\ joined[a] \/ thread[a] \in {"none", "exited"}
    /\ joined' = [joined EXCEPT ![a] = TRUE]
    /\ port' = [port EXCEPT ![a] = IF joined[a] THEN @ ELSE "clean"]
    /\ IF a + 1 < N THEN Goto(c, "join", a + 1) ELSE Goto(c, "check", a)
    /\ UNCHANGED <<lifecycle, running, thread, queue, hook, checked, due, started, sent, faults>>
JoinAtOnce(c) ==
    LET a == pc[c].actor IN
    /\ At(c, "join")
    /\ joined' = [joined EXCEPT ![a] = TRUE]
    /\ port' = [port EXCEPT ![a] = IF joined[a] THEN @ ELSE "clean"]
    /\ IF a < N THEN Goto(c, "join", a + 1) ELSE Goto(c, "check", a)
    /\ UNCHANGED <<lifecycle, running, thread, queue, hook, checked, due, started, sent, faults>>

\* p->joined, pthread_join and cleanup_actor.  Joining a thread that was never
\* created, as for the actors after one whose first initialisation failed, is
\* undefined; here it returns.
Join(c) ==
    LET a == pc[c].actor IN
    /\ At(c, "join")
    /\ joined[a] \/ thread[a] \in {"none", "exited"}
    /\ joined' = [joined EXCEPT ![a] = TRUE]
    /\ port' = [port EXCEPT ![a] = IF joined[a] THEN @ ELSE "clean"]
    /\ IF a < N THEN Goto(c, "join", a + 1) ELSE Goto(c, "check", a)
    /\ UNCHANGED <<lifecycle, running, thread, queue, hook, checked, due, started, sent, faults>>

RunCheck(c) ==
    /\ At(c, "check")
    /\ IF lifecycle = "stopping" THEN Goto(c, "store", N) ELSE Return(c)
    /\ UNCHANGED <<lifecycle, actors, hook, checked, due, started, sent, faults>>

RunStore(c) ==
    /\ At(c, "store")
    /\ lifecycle' = "stopped"
    /\ Return(c)
    /\ UNCHANGED <<actors, hook, checked, due, started, sent, faults>>

-----------------------------------------------------------------------------
(* The thread of actor a *)

Move(a, state) == thread' = [thread EXCEPT ![a] = state]

ThreadBegin(a) ==
    /\ thread[a] = "start"
    /\ Move(a, IF running[a] THEN "waiting" ELSE "exited")
    /\ UNCHANGED <<lifecycle, port, running, joined, queue, hook, pc, checked, due, started, sent, faults>>

Take(a) ==
    /\ thread[a] = "waiting"
    /\ queue[a] > 0
    /\ queue' = [queue EXCEPT ![a] = @ - 1]
    /\ Move(a, "busy")
    /\ UNCHANGED <<lifecycle, port, running, joined, hook, pc, checked, due, started, sent, faults>>

\* The ring is drained before running is looked at.
Exit(a) ==
    /\ thread[a] = "waiting"
    /\ queue[a] = 0
    /\ ~running[a]
    /\ Move(a, "exited")
    /\ UNCHANGED <<lifecycle, port, running, joined, queue, hook, pc, checked, due, started, sent, faults>>

HandlerReturn(a) ==
    /\ thread[a] = "busy"
    /\ Move(a, "waiting")
    /\ UNCHANGED <<lifecycle, port, running, joined, queue, hook, pc, checked, due, started, sent, faults>>

\* ipc_actor_fail of an actor with a supervision strategy: the stop hook,
\* the port call, and after a restart the start hook.
Fail(a) ==
    /\ thread[a] = "busy"
    /\ a \in StopActors \cup RestartActors
    /\ StopHookRuns(a)
    /\ Move(a, "fail_port")
    /\ UNCHANGED <<lifecycle, port, running, joined, queue, pc, checked, due, started, sent, faults>>

FailPort(a) ==
    /\ thread[a] = "fail_port"
    /\ running' = [running EXCEPT ![a] = a \in RestartActors]
    /\ queue' = [queue EXCEPT ![a] = IF a \in RestartActors THEN 0 ELSE @]
    /\ Move(a, IF a \in RestartActors THEN "fail_start" ELSE "busy")
    /\ UNCHANGED <<lifecycle, port, joined, hook, pc, checked, due, started, sent, faults>>

FailStart(a) ==
    /\ thread[a] = "fail_start"
    /\ StartHookRuns(a)
    /\ Move(a, "busy")
    /\ UNCHANGED <<lifecycle, port, running, joined, queue, pc, checked, due, started, sent, faults>>

-----------------------------------------------------------------------------
(* Sends *)

\* Mutant of Post: the test for a full mailbox off by one.
PostIntoFull(b) ==
    queue' = [queue EXCEPT ![b] = IF port[b] = "live" /\ @ <= QueueDepth THEN @ + 1 ELSE @]

\* ipc_port_send to actor b.  The zero-initialised state of a "raw" port is an
\* unlocked mutex and a ring of capacity 0.  To use a destroyed mailbox is
\* undefined; here the message is lost.
Post(b) == queue' = [queue EXCEPT ![b] = IF port[b] = "live" /\ @ < QueueDepth THEN @ + 1 ELSE @]

\* ipc_send or ipc_reply from the handler of a: no look at the lifecycle.
HandlerSend(a, b) ==
    /\ thread[a] = "busy"
    /\ sent < MaxSends
    /\ Post(b)
    /\ sent' = sent + 1
    /\ UNCHANGED <<lifecycle, port, running, joined, thread, hook, pc, checked, due, started, faults>>

\* ipc_send_to: the lifecycle is looked at, then the message is posted.
SendToCheck(x, b) ==
    /\ checked[x] = 0
    /\ sent < MaxSends
    /\ lifecycle = "running"
    /\ checked' = [checked EXCEPT ![x] = b]
    /\ sent' = sent + 1
    /\ UNCHANGED <<lifecycle, actors, hook, pc, due, started, faults>>

SendToPost(x) ==
    /\ checked[x] # 0
    /\ Post(checked[x])
    /\ checked' = [checked EXCEPT ![x] = 0]
    /\ UNCHANGED <<lifecycle, port, running, joined, thread, hook, pc, due, started, sent, faults>>

\* ipc_port_schedule_ask_timeout: a handler of a creates a detached helper
\* thread, which nobody can wait for.
AskWithTimeout(a) ==
    /\ thread[a] = "busy"
    /\ a \in Askers \ due
    /\ sent < MaxSends
    /\ due' = due \cup {a}
    /\ sent' = sent + 1
    /\ UNCHANGED <<lifecycle, actors, hook, pc, checked, started, faults>>

\* The helper finds its ask still pending and posts to a,
TimeoutPost(a) ==
    /\ a \in due
    /\ Post(a)
    /\ Touch(a, "timeout")
    /\ due' = due \ {a}
    /\ UNCHANGED <<lifecycle, port, running, joined, thread, hook, pc, checked, started, sent>>

\* or finds it answered or cancelled.
TimeoutLate(a) ==
    /\ a \in due
    /\ due' = due \ {a}
    /\ UNCHANGED <<lifecycle, actors, hook, pc, checked, started, sent, faults>>

-----------------------------------------------------------------------------

Begin(c) == StartBegin(c) \/ StopBegin(c) \/ RunBegin(c)

ControlStep(c) == \/ InitActor(c)
                  \/ InitFails(c)
                  \/ StartHook(c)
                  \/ StartFails(c)
                  \/ StopHook(c)
                  \/ StopPort(c)
                  \/ Join(c)
                  \/ RunCheck(c)
                  \/ RunStore(c)

ThreadStep(a) == \/ ThreadBegin(a)
                 \/ Take(a)
                 \/ Exit(a)
                 \/ FailPort(a)
                 \/ FailStart(a)

Next == \/ \E c \in Control : Begin(c)
        \/ \E c \in Control : ControlStep(c)
        \/ \E a \in Actor : ThreadStep(a)
        \/ \E a \in Actor : HandlerReturn(a)
        \/ \E a \in Actor : Fail(a)
        \/ \E a, b \in Actor : HandlerSend(a, b)
        \/ \E x \in Sender, b \in Actor : SendToCheck(x, b)
        \/ \E x \in Sender : SendToPost(x)
        \/ \E a \in Actor : AskWithTimeout(a)
        \/ \E a \in Actor : TimeoutPost(a)
        \/ \E a \in Actor : TimeoutLate(a)

\* Threads run, and a handler returns however many calls it makes.
Fairness == /\ \A c \in Control : WF_vars(ControlStep(c))
            /\ \A a \in Actor : WF_vars(ThreadStep(a)) /\ SF_vars(HandlerReturn(a))
            /\ \A x \in Sender : WF_vars(SendToPost(x))
            /\ \A a \in Actor : WF_vars(TimeoutPost(a) \/ TimeoutLate(a))

Spec == Init /\ [][Next]_vars /\ Fairness

-----------------------------------------------------------------------------
(* Properties *)

Alive(a) == thread[a] \notin {"none", "exited"}

\* In the stopped state no actor thread is left and no port resource is held,
\* although startups fail half-way, handlers fail and restart themselves, and
\* messages are still being drained: a new generation starts from nothing.
StoppedIsQuiet == lifecycle = "stopped" => \A a \in Actor : ~Alive(a) /\ port[a] # "live"

\* ipc_port_actor_init is never called for an actor whose last thread is not
\* joined ("Actor startup was requested while the previous generation is
\* stopping and has not yet been joined" is refused with -EBUSY).
Reborn(a) == thread[a] # "start" /\ thread'[a] = "start"
GenerationsDoNotOverlap ==
    [][\A a \in Actor : Reborn(a) => ~Alive(a) /\ port[a] # "live"]_vars

\* The mailbox of an actor is there as long as its thread runs, and after a
\* successful startup so are the mailboxes of all later actors, although
\* ipc_run_all destroys mailboxes while threads drain theirs and forward what
\* they find.  And a stop never locks a destroyed mailbox.
MailboxesOutliveThreads ==
    /\ \A a, b \in Actor : Alive(a) /\ (a = b \/ (started /\ a < b)) => port[b] = "live"
    /\ "stop" \notin faults

\* A stop hook runs once for each start hook, and for no actor that was not
\* started: the actors stopped by a failed startup are those before the failing
\* one.  (An actor whose handlers fail has its hooks called by them as well.)
HooksPaired == \A a \in Actor \ (StopActors \cup RestartActors) : hook[a] # "unpaired"

\* "Request all actor threads to stop" (ipc.h:770): when no control call is
\* under way and the state is stopping, every actor was told to, and only one
\* that restarted itself since runs on.
StopReachesAll ==
    (lifecycle = "stopping" /\ \A c \in Control : pc[c] = Idle) =>
        \A a \in Actor \ RestartActors : port[a] = "live" => ~running[a]

\* An ipc_run_all that follows a stop or a failed startup returns, unless an
\* actor restarts itself while it drains.
ShutdownEnds ==
    \A c \in Control : pc[c].call = "run"
        ~> (pc[c].call = "none" \/ \E a \in RestartActors : running[a])

-----------------------------------------------------------------------------
(* What the documentation says, and the code does not do *)

\* "no helper can enqueue more work after the actor has been asked to stop"
\* (posix_ipc_port.c:400-401), and "call ipc_run_all() afterwards to wait for
\* cleanup" (ipc.h:772-773): no ask-timeout helper is left to use the lock and
\* the ring that ipc_run_all has destroyed.
NoTimeoutAfterCleanup == "timeout" \notin faults
=============================================================================
