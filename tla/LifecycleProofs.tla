-------------------------- MODULE LifecycleProofs --------------------------
(***************************************************************************)
(* Proofs about Lifecycle for an application whose control calls do not    *)
(* overlap (see Alone), any number of actors, control threads, senders and *)
(* messages, and any sets of actors that fail, ask, or are supervised.     *)
(* Nothing is assumed of who sends to whom and when, or of ask-timeout     *)
(* helpers.                                                                *)
(***************************************************************************)
EXTENDS Lifecycle, TLAPS

-----------------------------------------------------------------------------
(* The inductive invariant *)

\* An actor has its port resources and a thread, or neither; in between there
\* is only ipc_port_actor_init.
Made(a) == port[a] = "live" /\ thread[a] # "none" /\ ~joined[a]
Quiet(a) == ~Alive(a) /\ port[a] # "live"

Supervised == StopActors \cup RestartActors

\* The start hook of actor a has run, and no stop hook but by its own failure.
Up(a) == a \notin Supervised => hook[a] = "started"

\* Actor a was told to stop.
Down(a) == a \notin RestartActors => ~running[a]

\* Where the control threads are; each disjunct is a stretch of one call, with
\* what the call has done so far.
Initialising(p) ==
    /\ p.step = "init" /\ p.call = "start" /\ p.actor \in Actor
    /\ lifecycle = "running" /\ ~started
    /\ \A a \in Actor : IF a < p.actor THEN Made(a) /\ Up(a) ELSE Quiet(a)

Hooking(p) ==
    /\ p.step = "start_hook" /\ p.call = "start" /\ p.actor \in Actor
    /\ lifecycle = "running" /\ ~started
    /\ \A a \in Actor : /\ a < p.actor => Made(a) /\ Up(a)
                        /\ a = p.actor => Made(a) /\ (a \notin Supervised => hook[a] = "none")
                        /\ a > p.actor => Quiet(a)

\* Actors up to "last" are being stopped, and "done" of them have had their
\* stop hook.
Stopping(p, done) ==
    /\ p.last \in Actor /\ p.actor \in 1 .. p.last
    /\ \/ p.call = "start" /\ lifecycle = "running" /\ ~started
       \/ p.call = "stop" /\ lifecycle = "stopping" /\ started /\ p.last = N
    /\ \A a \in Actor : /\ a <= p.last => Made(a)
                        /\ a > p.last => Quiet(a)
                        /\ a < p.actor => Down(a)
                        /\ done < a /\ a <= p.last => Up(a)

StoppingHook(p) == p.step = "stop_hook" /\ Stopping(p, p.actor - 1)
StoppingPort(p) == p.step = "stop_port" /\ Stopping(p, p.actor)

Failed(p) ==
    /\ p.step = "failed" /\ p.call = "start"
    /\ lifecycle = "running" /\ ~started
    /\ \A a \in Actor : (Made(a) /\ Down(a)) \/ Quiet(a)

Joining(p) ==
    /\ p.step = "join" /\ p.call = "run" /\ p.actor \in Actor
    /\ lifecycle = "stopping"
    /\ \A a \in Actor : IF a < p.actor THEN Quiet(a) ELSE Made(a) \/ (Quiet(a) /\ ~started)

Joined(p) ==
    /\ p.step \in {"check", "store"} /\ p.call = "run"
    /\ lifecycle = "stopping"
    /\ \A a \in Actor : Quiet(a)

LocInv(p) == \/ p = Idle
             \/ Initialising(p)
             \/ Hooking(p)
             \/ StoppingHook(p)
             \/ StoppingPort(p)
             \/ Failed(p)
             \/ Joining(p)
             \/ Joined(p)

ControlInv == \A c \in Control : LocInv(pc[c])

\* A careful application has one control call at a time.
Solo == \A c, d \in Control : c # d => pc[c] = Idle \/ pc[d] = Idle

\* Between control calls the state of the lifecycle tells about every actor.
AtRest ==
    /\ lifecycle = "running" => started /\ \A a \in Actor : Made(a) /\ Up(a)
    /\ lifecycle = "stopping" =>
         \A a \in Actor : (Made(a) /\ Down(a)) \/ (Quiet(a) /\ ~started)
    /\ lifecycle = "stopped" => \A a \in Actor : Quiet(a)
RestInv == (\A c \in Control : pc[c] = Idle) => AtRest

Unpaired == \A a \in Actor \ Supervised : hook[a] # "unpaired"

\* ipc_actor_fail does something for supervised actors only.
FailInv == \A a \in Actor \ Supervised : thread[a] \notin {"fail_port", "fail_start"}

\* A stop never used a mailbox after its cleanup.
FaultInv == "stop" \notin faults

Inv == /\ TypeOK /\ ControlInv /\ Solo /\ RestInv
       /\ Unpaired /\ FailInv /\ FaultInv

-----------------------------------------------------------------------------
(* Where a control thread is tells which stretch of its call it is in *)

LEMMA Here == ASSUME ControlInv, NEW c \in Control
              PROVE  /\ pc[c].step = "init" => Initialising(pc[c])
                     /\ pc[c].step = "start_hook" => Hooking(pc[c])
                     /\ pc[c].step = "stop_hook" => Stopping(pc[c], pc[c].actor - 1)
                     /\ pc[c].step = "stop_port" => Stopping(pc[c], pc[c].actor)
                     /\ pc[c].step = "failed" => Failed(pc[c])
                     /\ pc[c].step = "join" => Joining(pc[c])
                     /\ pc[c].step \in {"check", "store"} => Joined(pc[c])
                     /\ pc[c].step # "idle" => pc[c] # Idle
<1>1. LocInv(pc[c])
  BY DEF ControlInv
<1>2. Idle.step = "idle"
  BY DEF Idle
<1>3. pc[c] = Idle \/ pc[c].step \in {"init", "start_hook", "stop_hook", "stop_port", "failed",
                                      "join", "check", "store"}
  BY <1>1 DEF LocInv, Initialising, Hooking, StoppingHook, StoppingPort, Failed, Joining, Joined
<1>4. pc[c].step = "init" => Initialising(pc[c])
  BY <1>1, <1>2 DEF LocInv, Initialising, Hooking, StoppingHook, StoppingPort, Failed, Joining, Joined
<1>5. pc[c].step = "start_hook" => Hooking(pc[c])
  BY <1>1, <1>2 DEF LocInv, Initialising, Hooking, StoppingHook, StoppingPort, Failed, Joining, Joined
<1>6. pc[c].step = "stop_hook" => Stopping(pc[c], pc[c].actor - 1)
  BY <1>1, <1>2 DEF LocInv, Initialising, Hooking, StoppingHook, StoppingPort, Failed, Joining, Joined
<1>7. pc[c].step = "stop_port" => Stopping(pc[c], pc[c].actor)
  BY <1>1, <1>2 DEF LocInv, Initialising, Hooking, StoppingHook, StoppingPort, Failed, Joining, Joined
<1>8. pc[c].step = "failed" => Failed(pc[c])
  BY <1>1, <1>2 DEF LocInv, Initialising, Hooking, StoppingHook, StoppingPort, Failed, Joining, Joined
<1>9. pc[c].step = "join" => Joining(pc[c])
  BY <1>1, <1>2 DEF LocInv, Initialising, Hooking, StoppingHook, StoppingPort, Failed, Joining, Joined
<1>10. pc[c].step \in {"check", "store"} => Joined(pc[c])
  BY <1>1, <1>2 DEF LocInv, Initialising, Hooking, StoppingHook, StoppingPort, Failed, Joining, Joined
<1> QED BY <1>2, <1>4, <1>5, <1>6, <1>7, <1>8, <1>9, <1>10

\* In the stopped state there is no control call.
LEMMA StoppedIdle == ASSUME Inv, lifecycle = "stopped"
                     PROVE  (\A c \in Control : pc[c] = Idle) /\ AtRest
<1>1. ASSUME NEW c \in Control PROVE pc[c] = Idle
  BY DEF Inv, ControlInv, LocInv, Initialising, Hooking, StoppingHook, StoppingPort, Stopping,
         Failed, Joining, Joined
<1> QED BY <1>1 DEF Inv, RestInv

\* The pieces of the invariant that a step of one control thread can only break
\* for itself.
LEMMA OneMoves == ASSUME NEW c \in Control, \A d \in Control \ {c} : pc[d] = Idle,
                         \A d \in Control \ {c} : pc'[d] = pc[d],
                         LocInv(pc[c])', pc'[c] = Idle => AtRest'
                  PROVE  ControlInv' /\ Solo' /\ RestInv'
<1>1. ControlInv'
  <2> SUFFICES ASSUME NEW d \in Control PROVE LocInv(pc[d])'
    BY DEF ControlInv
  <2>1. CASE d = c
    BY <2>1
  <2>2. CASE d # c
    <3>1. pc'[d] = Idle
      BY <2>2
    <3> QED BY <3>1 DEF LocInv
  <2> QED BY <2>1, <2>2
<1>2. Solo'
  BY DEF Solo
<1>3. RestInv'
  BY DEF RestInv
<1> QED BY <1>1, <1>2, <1>3

-----------------------------------------------------------------------------
(* Steps of the actors and of the senders *)

\* Such a step leaves the control calls and the port resources alone, threads
\* change only while they live, and hooks only for actors that fail.
Env == /\ UNCHANGED <<lifecycle, port, joined, pc, started>>
       /\ \A a \in Actor : \/ thread'[a] = thread[a]
                           \/ Alive(a) /\ thread'[a] # "none"
       /\ \A a \in Actor \ Supervised : hook'[a] = hook[a]
       /\ \A a \in Actor : running'[a] => running[a] \/ a \in RestartActors

LEMMA EnvKeeps == ASSUME Inv, Env
                  PROVE  ControlInv' /\ Solo' /\ RestInv' /\ Unpaired'
<1>m. \A a \in Actor : Made(a) => Made(a)'
  BY DEF Env, Made
<1>q. \A a \in Actor : Quiet(a) => Quiet(a)'
  BY DEF Env, Quiet, Alive
<1>u. \A a \in Actor : Up(a) => Up(a)'
  BY DEF Env, Up
<1>d. \A a \in Actor : Down(a) => Down(a)'
  BY DEF Env, Down
<1>n. \A a \in Actor \ Supervised : hook'[a] = hook[a]
  BY DEF Env
<1>p. lifecycle' = lifecycle /\ started' = started /\ pc' = pc
  BY DEF Env
<1>1. ControlInv'
  <2> SUFFICES ASSUME NEW c \in Control PROVE LocInv(pc[c])'
    BY DEF ControlInv
  <2>1. LocInv(pc[c]) /\ pc'[c] = pc[c]
    BY <1>p DEF Inv, ControlInv
  <2>2. CASE pc[c] = Idle
    BY <2>1, <2>2 DEF LocInv
  <2>3. CASE Initialising(pc[c])
    <3>1. Initialising(pc[c])'
      BY <2>1, <2>3, <1>m, <1>q, <1>u, <1>p DEF Initialising
    <3> QED BY <3>1 DEF LocInv
  <2>4. CASE Hooking(pc[c])
    <3>1. Hooking(pc[c])'
      BY <2>1, <2>4, <1>m, <1>q, <1>u, <1>n, <1>p DEF Hooking
    <3> QED BY <3>1 DEF LocInv
  <2>5. CASE StoppingHook(pc[c])
    <3>1. StoppingHook(pc[c])'
      BY <2>1, <2>5, <1>m, <1>q, <1>u, <1>d, <1>p DEF StoppingHook, Stopping
    <3> QED BY <3>1 DEF LocInv
  <2>6. CASE StoppingPort(pc[c])
    <3>1. StoppingPort(pc[c])'
      BY <2>1, <2>6, <1>m, <1>q, <1>u, <1>d, <1>p DEF StoppingPort, Stopping
    <3> QED BY <3>1 DEF LocInv
  <2>7. CASE Failed(pc[c])
    <3>1. Failed(pc[c])'
      BY <2>1, <2>7, <1>m, <1>q, <1>d, <1>p DEF Failed
    <3> QED BY <3>1 DEF LocInv
  <2>8. CASE Joining(pc[c])
    <3>1. Joining(pc[c])'
      BY <2>1, <2>8, <1>m, <1>q, <1>p DEF Joining
    <3> QED BY <3>1 DEF LocInv
  <2>9. CASE Joined(pc[c])
    <3>1. Joined(pc[c])'
      BY <2>1, <2>9, <1>q, <1>p DEF Joined
    <3> QED BY <3>1 DEF LocInv
  <2> QED BY <2>1, <2>2, <2>3, <2>4, <2>5, <2>6, <2>7, <2>8, <2>9 DEF LocInv
<1>2. Solo'
  BY <1>p DEF Inv, Solo
<1>3. RestInv'
  <2>1. AtRest => AtRest'
    BY <1>m, <1>q, <1>u, <1>d, <1>p DEF AtRest
  <2> QED BY <2>1, <1>p DEF Inv, RestInv
<1>4. Unpaired'
  BY DEF Env, Inv, Unpaired
<1> QED BY <1>1, <1>2, <1>3, <1>4

LEMMA MadeOrQuiet == ASSUME Inv, NEW a \in Actor
                     PROVE  Made(a) \/ Quiet(a)
<1>1. CASE \A c \in Control : pc[c] = Idle
  <2>1. AtRest /\ lifecycle \in {"stopped", "running", "stopping"}
    BY <1>1 DEF Inv, RestInv, TypeOK
  <2> QED BY <2>1 DEF AtRest
<1>2. ASSUME NEW c \in Control, pc[c] # Idle PROVE Made(a) \/ Quiet(a)
  <2>1. LocInv(pc[c])
    BY DEF Inv, ControlInv
  <2>2. pc[c].actor \in Int /\ pc[c].last \in Int /\ a \in Int
    BY CountAssumption DEF Inv, TypeOK, Location, Actor
  <2> QED BY <1>2, <2>1, <2>2 DEF LocInv, Initialising, Hooking, StoppingHook, StoppingPort,
                                  Stopping, Failed, Joining, Joined
<1> QED BY <1>1, <1>2

\* A thread finds its own mailbox, and after a successful startup those of all
\* later actors.
LEMMA MailboxIsThere ==
  ASSUME Inv, NEW a \in Actor, NEW b \in Actor, Alive(a), a = b \/ (started /\ a < b)
  PROVE  Made(b)
<1>1. ~Quiet(a)
  BY DEF Quiet
<1>2. CASE a = b
  BY <1>1, <1>2, MadeOrQuiet
<1>3. CASE started /\ a < b
  <2>1. CASE \A c \in Control : pc[c] = Idle
    <3>1. AtRest /\ lifecycle \in {"stopped", "running", "stopping"}
      BY <2>1 DEF Inv, RestInv, TypeOK
    <3> QED BY <1>1, <1>3, <3>1 DEF AtRest
  <2>2. ASSUME NEW c \in Control, pc[c] # Idle PROVE Made(b)
    <3>1. LocInv(pc[c])
      BY DEF Inv, ControlInv
    <3>2. pc[c].actor \in Int /\ pc[c].last \in Int /\ \A d \in Actor : d \in Int /\ d <= N
      BY CountAssumption DEF Inv, TypeOK, Location, Actor
    <3>3. CASE Stopping(pc[c], pc[c].actor - 1) \/ Stopping(pc[c], pc[c].actor)
      BY <1>3, <3>2, <3>3 DEF Stopping
    <3>4. CASE Joining(pc[c])
      BY <1>1, <1>3, <3>2, <3>4 DEF Joining
    <3>5. CASE Joined(pc[c])
      BY <1>1, <3>5 DEF Joined
    <3> QED BY <1>3, <2>2, <3>1, <3>3, <3>4, <3>5
            DEF LocInv, Initialising, Hooking, StoppingHook, StoppingPort, Failed
  <2> QED BY <2>1, <2>2
<1> QED BY <1>2, <1>3

\* The thread of an actor moves to s.
LEMMA MoveStep ==
  ASSUME Inv, NEW a \in Actor, NEW s \in {"waiting", "busy", "fail_port", "fail_start", "exited"},
         Alive(a), Move(a, s),
         s \in {"fail_port", "fail_start"} => a \in Supervised,
         UNCHANGED <<lifecycle, port, joined, pc, checked, due, started, sent, faults>>,
         running' = running \/ running' = [running EXCEPT ![a] = a \in RestartActors],
         queue' \in [Actor -> 0 .. QueueDepth],
         hook' = hook \/ (a \in Supervised /\ (StartHookRuns(a) \/ StopHookRuns(a)))
  PROVE  Inv'
<1>1. thread' = [thread EXCEPT ![a] = s]
  BY DEF Move
<1>2. \A b \in Actor : \/ thread'[b] = thread[b]
                       \/ Alive(b) /\ thread'[b] # "none"
  BY <1>1 DEF Inv, TypeOK
<1>3. /\ hook' \in [Actor -> {"none", "started", "stopped", "unpaired"}]
      /\ \A b \in Actor \ Supervised : hook'[b] = hook[b]
  BY DEF Inv, TypeOK, StartHookRuns, StopHookRuns
<1>4. /\ running' \in [Actor -> BOOLEAN]
      /\ \A b \in Actor : running'[b] => running[b] \/ b \in RestartActors
  <2>1. CASE running' = running
    BY <2>1 DEF Inv, TypeOK
  <2>2. CASE running' = [running EXCEPT ![a] = a \in RestartActors]
    <3>1. running \in [Actor -> BOOLEAN] /\ (a \in RestartActors) \in BOOLEAN
      BY DEF Inv, TypeOK
    <3> QED BY <2>2, <3>1
  <2> QED BY <2>1, <2>2
<1>5. Env
  BY <1>2, <1>3, <1>4 DEF Env
<1>6. TypeOK'
  BY <1>1, <1>3, <1>4 DEF Inv, TypeOK
<1>7. FaultInv'
  BY DEF Inv, FaultInv
<1>8. FailInv'
  BY <1>1 DEF Inv, TypeOK, FailInv
<1> QED BY <1>5, <1>6, <1>7, <1>8, EnvKeeps DEF Inv

LEMMA ThreadInv == ASSUME Inv, NEW a \in Actor, ThreadStep(a) \/ HandlerReturn(a) \/ Fail(a)
                   PROVE  Inv'
<1> USE DEF Alive
<1>q. queue \in [Actor -> 0 .. QueueDepth] /\ QueueDepth \in Nat
  BY CountAssumption DEF Inv, TypeOK
<1>1. CASE ThreadBegin(a)
  <2>1. PICK s \in {"waiting", "exited"} : Move(a, s)
    BY <1>1 DEF ThreadBegin
  <2> QED BY <1>1, <2>1, <1>q, MoveStep DEF ThreadBegin
<1>2. CASE Take(a)
  <2>1. queue' \in [Actor -> 0 .. QueueDepth]
    BY <1>2, <1>q DEF Take
  <2> QED BY <1>2, <2>1, MoveStep DEF Take
<1>3. CASE Exit(a)
  BY <1>3, <1>q, MoveStep DEF Exit
<1>4. CASE HandlerReturn(a)
  BY <1>4, <1>q, MoveStep DEF HandlerReturn
<1>5. CASE Fail(a)
  BY <1>5, <1>q, MoveStep DEF Fail, Supervised
<1>6. CASE FailPort(a)
  <2>1. PICK s \in {"fail_start", "busy"} : Move(a, s)
    BY <1>6 DEF FailPort
  <2>2. queue' \in [Actor -> 0 .. QueueDepth]
    <3>1. (IF a \in RestartActors THEN 0 ELSE queue[a]) \in 0 .. QueueDepth
      BY <1>q
    <3> QED BY <1>6, <1>q, <3>1 DEF FailPort
  <2>3. a \in Supervised
    BY <1>6 DEF FailPort, Inv, FailInv
  <2> QED BY <1>6, <2>1, <2>2, <2>3, MoveStep DEF FailPort
<1>7. CASE FailStart(a)
  <2>1. a \in Supervised
    BY <1>7 DEF FailStart, Inv, FailInv
  <2> QED BY <1>7, <2>1, <1>q, MoveStep DEF FailStart
<1> QED BY <1>1, <1>2, <1>3, <1>4, <1>5, <1>6, <1>7 DEF ThreadStep

\* A post keeps to the depth of the mailbox.
LEMMA PostIsBounded == ASSUME Inv, NEW b \in Actor, Post(b)
                       PROVE  queue' \in [Actor -> 0 .. QueueDepth]
<1>1. queue[b] \in 0 .. QueueDepth /\ QueueDepth \in Nat
  BY CountAssumption DEF Inv, TypeOK
<1>2. (IF port[b] = "live" /\ queue[b] < QueueDepth THEN queue[b] + 1 ELSE queue[b])
        \in 0 .. QueueDepth
  BY <1>1
<1> QED BY <1>2 DEF Post, Inv, TypeOK

\* A step that posts, or only changes who is about to post.
LEMMA PostStep ==
  ASSUME Inv,
         UNCHANGED <<lifecycle, port, running, joined, thread, hook, pc, started>>,
         queue' = queue \/ \E b \in Actor : Post(b),
         faults' \subseteq faults \cup {"timeout"},
         checked' \in [Sender -> 0 .. N], due' \subseteq Actor, sent' \in 0 .. MaxSends
  PROVE  Inv'
<1>1. Env
  BY DEF Env
<1>2. queue' \in [Actor -> 0 .. QueueDepth]
  BY PostIsBounded DEF Inv, TypeOK
<1>3. TypeOK'
  BY <1>2 DEF Inv, TypeOK
<1>4. FailInv' /\ FaultInv'
  BY DEF Inv, FailInv, FaultInv
<1> QED BY <1>1, <1>3, <1>4, EnvKeeps DEF Inv

LEMMA SendInv ==
  ASSUME Inv,
         \/ \E a, b \in Actor : HandlerSend(a, b)
         \/ \E x \in Sender, b \in Actor : SendToCheck(x, b)
         \/ \E x \in Sender : SendToPost(x)
         \/ \E a \in Actor : AskWithTimeout(a) \/ TimeoutPost(a) \/ TimeoutLate(a)
  PROVE  Inv'
<1>t. /\ checked \in [Sender -> 0 .. N] /\ due \subseteq Actor /\ sent \in 0 .. MaxSends
      /\ N \in Nat /\ MaxSends \in Nat
  BY CountAssumption DEF Inv, TypeOK
<1>1. ASSUME NEW a \in Actor, NEW b \in Actor, HandlerSend(a, b) PROVE Inv'
  <2>1. sent' \in 0 .. MaxSends
    BY <1>1, <1>t DEF HandlerSend
  <2> QED BY <1>1, <1>t, <2>1, PostStep DEF HandlerSend
<1>2. ASSUME NEW x \in Sender, NEW b \in Actor, SendToCheck(x, b) PROVE Inv'
  <2>1. sent' \in 0 .. MaxSends /\ checked' \in [Sender -> 0 .. N]
    BY <1>2, <1>t DEF SendToCheck, Actor
  <2> QED BY <1>2, <1>t, <2>1, PostStep DEF SendToCheck, actors
<1>3. ASSUME NEW x \in Sender, SendToPost(x) PROVE Inv'
  <2>1. checked[x] \in Actor /\ checked' \in [Sender -> 0 .. N]
    BY <1>3, <1>t DEF SendToPost, Actor
  <2> QED BY <1>3, <1>t, <2>1, PostStep DEF SendToPost
<1>4. ASSUME NEW a \in Actor, AskWithTimeout(a) PROVE Inv'
  <2>1. sent' \in 0 .. MaxSends /\ due' \subseteq Actor
    BY <1>4, <1>t DEF AskWithTimeout
  <2> QED BY <1>4, <1>t, <2>1, PostStep DEF AskWithTimeout, actors
<1>5. ASSUME NEW a \in Actor, TimeoutPost(a) PROVE Inv'
  <2>1. due' \subseteq Actor /\ faults' \subseteq faults \cup {"timeout"}
    BY <1>5, <1>t DEF TimeoutPost, Touch
  <2> QED BY <1>5, <1>t, <2>1, PostStep DEF TimeoutPost
<1>6. ASSUME NEW a \in Actor, TimeoutLate(a) PROVE Inv'
  <2>1. due' \subseteq Actor
    BY <1>6, <1>t DEF TimeoutLate
  <2> QED BY <1>6, <1>t, <2>1, PostStep DEF TimeoutLate, actors
<1> QED BY <1>1, <1>2, <1>3, <1>4, <1>5, <1>6

-----------------------------------------------------------------------------
(* Steps of the control calls *)

CStep == {"idle", "init", "start_hook", "stop_hook", "stop_port", "failed", "join", "check",
          "store"}

LEMMA GotoFields ==
  ASSUME TypeOK, NEW c \in Control, NEW s \in CStep, NEW a \in 0 .. N, Goto(c, s, a)
  PROVE  /\ pc' \in [Control -> Location]
         /\ pc'[c].step = s /\ pc'[c].actor = a
         /\ pc'[c].call = pc[c].call /\ pc'[c].last = pc[c].last
         /\ \A d \in Control \ {c} : pc'[d] = pc[d]
<1>1. pc \in [Control -> Location] /\ pc[c] \in Location
  BY DEF TypeOK
<1> DEFINE q == [pc[c] EXCEPT !.step = s, !.actor = a]
<1>2. /\ q \in Location /\ q.step = s /\ q.actor = a /\ q.call = pc[c].call
      /\ q.last = pc[c].last
  BY <1>1 DEF Location, CStep
<1>3. pc' = [pc EXCEPT ![c] = q]
  BY DEF Goto
<1> HIDE DEF q
<1> QED BY <1>1, <1>2, <1>3

LEMMA ReturnFields ==
  ASSUME TypeOK, NEW c \in Control, Return(c)
  PROVE  /\ pc' \in [Control -> Location] /\ pc'[c] = Idle
         /\ \A d \in Control \ {c} : pc'[d] = pc[d]
<1>1. Idle \in Location
  BY CountAssumption DEF Idle, Location
<1> QED BY <1>1 DEF TypeOK, Return

LEMMA EnterFields ==
  ASSUME TypeOK, NEW c \in Control, NEW call \in {"start", "stop", "run"}, NEW s \in CStep,
         NEW last \in 0 .. N,
         pc' = [pc EXCEPT ![c] = [call |-> call, step |-> s, actor |-> 1, last |-> last]]
  PROVE  /\ pc' \in [Control -> Location]
         /\ pc'[c].step = s /\ pc'[c].actor = 1
         /\ pc'[c].call = call /\ pc'[c].last = last
         /\ \A d \in Control \ {c} : pc'[d] = pc[d]
<1> DEFINE q == [call |-> call, step |-> s, actor |-> 1, last |-> last]
<1>1. 1 \in 0 .. N
  BY CountAssumption
<1>2. /\ q \in Location /\ q.step = s /\ q.actor = 1 /\ q.call = call /\ q.last = last
  BY <1>1 DEF Location, CStep
<1> HIDE DEF q
<1>3. pc' = [pc EXCEPT ![c] = q]
  BY DEF q
<1> QED BY <1>2, <1>3 DEF TypeOK

\* While a control call is under way there is no other.
LEMMA Alone1 == ASSUME Inv, NEW c \in Control, pc[c].step # "idle"
                PROVE  \A d \in Control \ {c} : pc[d] = Idle
<1>1. pc[c] # Idle
  BY Here DEF Inv
<1> QED BY <1>1 DEF Inv, Solo

LEMMA ActorInt == N \in Nat \ {0} /\ \A a \in Actor : a \in Int /\ a >= 1 /\ a <= N /\ a \in 0 .. N
  BY CountAssumption DEF Actor

LEMMA StartBeginInv == ASSUME Inv, NEW c \in Control, StartBegin(c)
                       PROVE  Inv'
<1>1. /\ (\A d \in Control : pc[d] = Idle) /\ \A a \in Actor : Quiet(a)
  BY StoppedIdle DEF StartBegin, AtRest
<1>2. /\ lifecycle' = "running" /\ started' = FALSE
      /\ UNCHANGED <<port, running, joined, thread, queue, hook, checked, due, sent, faults>>
  BY DEF StartBegin, actors
<1>3. /\ pc' \in [Control -> Location]
      /\ pc'[c].step = "init" /\ pc'[c].actor = 1
      /\ pc'[c].call = "start" /\ pc'[c].last = 0
      /\ \A d \in Control \ {c} : pc'[d] = pc[d]
  <2>1. /\ pc' = [pc EXCEPT ![c] = [call |-> "start", step |-> "init", actor |-> 1, last |-> 0]]
        /\ "init" \in CStep /\ 0 \in 0 .. N
    BY CountAssumption DEF StartBegin, Enter, CStep
  <2> QED BY <2>1, EnterFields DEF Inv
<1>4. \A a \in Actor : Quiet(a)'
  BY <1>1, <1>2 DEF Quiet, Alive
<1>5. TypeOK'
  BY <1>2, <1>3 DEF Inv, TypeOK
<1>6. Initialising(pc[c])'
  <2>1. 1 \in Actor /\ \A a \in Actor : ~(a < 1)
    BY CountAssumption DEF Actor
  <2> QED BY <1>2, <1>3, <1>4, <2>1 DEF Initialising
<1>7. pc'[c] # Idle
  BY <1>3 DEF Idle
<1>8. ControlInv' /\ Solo' /\ RestInv'
  BY <1>1, <1>3, <1>6, <1>7, OneMoves DEF LocInv
<1>9. Unpaired' /\ FailInv' /\ FaultInv'
  BY <1>2 DEF Inv, Unpaired, FailInv, FaultInv
<1> QED BY <1>5, <1>8, <1>9 DEF Inv

LEMMA InitActorInv == ASSUME Inv, NEW c \in Control, InitActor(c)
                      PROVE  Inv' /\ pc[c].actor \in Actor /\ Quiet(pc[c].actor)
<1>1. /\ Initialising(pc[c]) /\ \A d \in Control \ {c} : pc[d] = Idle
  BY Here, Alone1 DEF InitActor, At, Inv
<1>2. PICK a \in Actor : a = pc[c].actor /\ Quiet(a)
  BY <1>1, ActorInt DEF Initialising
<1>3. /\ port' = [port EXCEPT ![a] = "live"]
      /\ running' = [running EXCEPT ![a] = TRUE]
      /\ joined' = [joined EXCEPT ![a] = FALSE]
      /\ thread' = [thread EXCEPT ![a] = "start"]
      /\ queue' = [queue EXCEPT ![a] = 0]
      /\ hook' = [hook EXCEPT ![a] = "none"]
      /\ Goto(c, "start_hook", a)
      /\ UNCHANGED <<lifecycle, checked, due, started, sent, faults>>
  BY <1>2 DEF InitActor
<1>4. /\ pc' \in [Control -> Location]
      /\ pc'[c].step = "start_hook" /\ pc'[c].actor = a /\ pc'[c].call = pc[c].call
      /\ \A d \in Control \ {c} : pc'[d] = pc[d]
  BY <1>2, <1>3, GotoFields, ActorInt DEF Inv, CStep
<1>5. /\ Made(a)' /\ hook'[a] = "none" /\ queue'[a] = 0 /\ thread'[a] = "start"
      /\ \A b \in Actor \ {a} : /\ Made(b)' <=> Made(b)
                                /\ Quiet(b)' <=> Quiet(b)
                                /\ Up(b)' <=> Up(b)
                                /\ hook'[b] = hook[b] /\ queue'[b] = queue[b]
                                /\ thread'[b] = thread[b]
  <2>1. /\ port'[a] = "live" /\ ~joined'[a] /\ hook'[a] = "none" /\ queue'[a] = 0
        /\ thread'[a] = "start"
    BY <1>2, <1>3 DEF Inv, TypeOK
  <2>2. \A b \in Actor \ {a} : /\ port'[b] = port[b] /\ joined'[b] = joined[b]
                                /\ hook'[b] = hook[b] /\ queue'[b] = queue[b]
                                /\ thread'[b] = thread[b]
    BY <1>2, <1>3 DEF Inv, TypeOK
  <2> QED BY <2>1, <2>2 DEF Made, Quiet, Alive, Up
<1>6. TypeOK'
  <2>1. queue' \in [Actor -> 0 .. QueueDepth]
    <3>1. 0 \in 0 .. QueueDepth
      BY CountAssumption
    <3> QED BY <1>2, <1>3, <3>1 DEF Inv, TypeOK
  <2> QED BY <1>2, <1>3, <1>4, <2>1 DEF Inv, TypeOK
<1>7. Hooking(pc[c])'
  <2>1. \A b \in Actor \ {a} : IF b < a THEN Made(b) /\ Up(b) ELSE Quiet(b)
    BY <1>1, <1>2 DEF Initialising
  <2>2. pc[c].call = "start" /\ lifecycle' = "running" /\ ~started'
    BY <1>1, <1>3 DEF Initialising
  <2>3. \A b \in Actor : /\ b < a => Made(b)' /\ Up(b)'
                         /\ b = a => Made(b)' /\ (b \notin Supervised => hook'[b] = "none")
                         /\ b > a => Quiet(b)'
    BY <1>2, <1>5, <2>1, ActorInt
  <2> QED BY <1>2, <1>4, <2>2, <2>3 DEF Hooking
<1>8. pc'[c] # Idle
  BY <1>4 DEF Idle
<1>9. ControlInv' /\ Solo' /\ RestInv'
  BY <1>1, <1>4, <1>7, <1>8, OneMoves DEF LocInv
<1>10. Unpaired' /\ FailInv' /\ FaultInv'
  BY <1>2, <1>3, <1>5 DEF Inv, Unpaired, FailInv, FaultInv
<1> QED BY <1>2, <1>6, <1>9, <1>10 DEF Inv

LEMMA InitFailsInv == ASSUME Inv, NEW c \in Control, InitFails(c)
                      PROVE  Inv'
<1>1. /\ Initialising(pc[c]) /\ \A d \in Control \ {c} : pc[d] = Idle
  BY Here, Alone1 DEF InitFails, At, Inv
<1>2. PICK a \in Actor : a = pc[c].actor /\ Quiet(a) /\ a \in FailingInit
  BY <1>1, ActorInt DEF Initialising, InitFails
<1>3. /\ joined' = [joined EXCEPT ![a] = TRUE]
      /\ \/ UNCHANGED <<port, running, queue>>
         \/ /\ port' = [port EXCEPT ![a] = "clean"]
            /\ running' = [running EXCEPT ![a] = FALSE]
            /\ queue' = [queue EXCEPT ![a] = 0]
      /\ pc' = [pc EXCEPT ![c] = [call |-> "start",
                                  step |-> IF a = 1 THEN "failed" ELSE "stop_hook",
                                  actor |-> 1, last |-> a - 1]]
      /\ UNCHANGED <<lifecycle, thread, hook, checked, due, started, sent, faults>>
  BY <1>2 DEF InitFails
<1>4. /\ pc' \in [Control -> Location]
      /\ pc'[c].step = (IF a = 1 THEN "failed" ELSE "stop_hook") /\ pc'[c].actor = 1
      /\ pc'[c].call = "start" /\ pc'[c].last = a - 1
      /\ \A d \in Control \ {c} : pc'[d] = pc[d]
  <2>1. (IF a = 1 THEN "failed" ELSE "stop_hook") \in CStep /\ a - 1 \in 0 .. N
    BY ActorInt DEF CStep
  <2> QED BY <1>3, <2>1, EnterFields DEF Inv
<1>5. /\ joined'[a] /\ Quiet(a)' /\ ~Made(a)'
      /\ \A b \in Actor \ {a} : /\ Made(b)' <=> Made(b)
                                /\ Quiet(b)' <=> Quiet(b)
                                /\ Up(b)' <=> Up(b)
                                /\ queue'[b] = queue[b]
  <2>1. port'[a] # "live" /\ joined'[a] /\ thread'[a] = thread[a]
    BY <1>2, <1>3 DEF Inv, TypeOK, Quiet
  <2>2. \A b \in Actor \ {a} : /\ port'[b] = port[b] /\ joined'[b] = joined[b]
                                /\ hook'[b] = hook[b] /\ queue'[b] = queue[b]
                                /\ thread'[b] = thread[b]
    BY <1>2, <1>3 DEF Inv, TypeOK
  <2> QED BY <1>2, <2>1, <2>2 DEF Made, Quiet, Alive, Up
<1>6. TypeOK'
  <2>1. queue' \in [Actor -> 0 .. QueueDepth]
    <3>1. 0 \in 0 .. QueueDepth
      BY CountAssumption
    <3> QED BY <1>2, <1>3, <3>1 DEF Inv, TypeOK
  <2>2. port' \in [Actor -> {"raw", "live", "clean"}] /\ running' \in [Actor -> BOOLEAN]
    BY <1>2, <1>3 DEF Inv, TypeOK
  <2> QED BY <1>2, <1>3, <1>4, <2>1, <2>2 DEF Inv, TypeOK
<1>7. \A b \in Actor : /\ b < a => Made(b)' /\ Up(b)'
                       /\ ~(b < a) => Quiet(b)'
  <2>1. \A b \in Actor \ {a} : IF b < a THEN Made(b) /\ Up(b) ELSE Quiet(b)
    BY <1>1, <1>2 DEF Initialising
  <2> QED BY <1>5, <2>1, ActorInt
<1>9. lifecycle' = "running" /\ ~started' /\ ~started
  BY <1>1, <1>3 DEF Initialising
<1>10. LocInv(pc[c])' /\ pc'[c] # Idle
  <2>1. CASE a = 1
    <3>1. \A b \in Actor : Quiet(b)'
      BY <1>7, <2>1, ActorInt
    <3> QED BY <1>4, <1>9, <2>1, <3>1 DEF LocInv, Failed, Idle
  <2>2. CASE a # 1
    <3>1. a - 1 \in Actor /\ 1 \in 1 .. a - 1
      BY <2>2, CountAssumption DEF Actor
    <3>2. \A b \in Actor : (b <= a - 1 <=> b < a) /\ (b > a - 1 <=> ~(b < a)) /\ ~(b < 1)
      BY ActorInt
    <3>3. Stopping(pc[c], pc[c].actor - 1)'
      BY <1>4, <1>7, <1>9, <3>1, <3>2 DEF Stopping
    <3> QED BY <1>4, <2>2, <3>3 DEF LocInv, StoppingHook, Idle
  <2> QED BY <2>1, <2>2
<1>11. ControlInv' /\ Solo' /\ RestInv'
  BY <1>1, <1>4, <1>10, OneMoves
<1>12. Unpaired' /\ FailInv' /\ FaultInv'
  BY <1>3 DEF Inv, Unpaired, FailInv, FaultInv
<1> QED BY <1>6, <1>11, <1>12 DEF Inv

LEMMA StartHookInv == ASSUME Inv, NEW c \in Control, StartHook(c)
                      PROVE  Inv'
<1>1. /\ Hooking(pc[c]) /\ \A d \in Control \ {c} : pc[d] = Idle
  BY Here, Alone1 DEF StartHook, At, Inv
<1>2. PICK a \in Actor : a = pc[c].actor /\ Made(a) /\ (a \notin Supervised => hook[a] = "none")
  BY <1>1, ActorInt DEF Hooking
<1>3. /\ StartHookRuns(a)
      /\ IF a < N THEN Goto(c, "init", a + 1) ELSE Return(c)
      /\ started' = (a = N)
      /\ UNCHANGED <<lifecycle, port, running, joined, thread, queue, checked, due, sent, faults>>
  BY <1>2 DEF StartHook, actors
<1>s. (a = N => started') /\ (a # N => ~started')
  BY <1>3, Zenon
<1>4. /\ hook' \in [Actor -> {"none", "started", "stopped", "unpaired"}]
      /\ a \notin Supervised => hook'[a] = "started"
      /\ \A b \in Actor \ {a} : hook'[b] = hook[b]
  BY <1>2, <1>3 DEF StartHookRuns, Inv, TypeOK
<1>5. /\ \A b \in Actor : Made(b)' <=> Made(b)
      /\ \A b \in Actor : Quiet(b)' <=> Quiet(b)
  BY <1>3 DEF Made, Quiet, Alive
<1>6. \A b \in Actor : Up(b) \/ b = a => Up(b)'
  BY <1>4 DEF Up
<1>7. \A b \in Actor : /\ b <= a => Made(b)' /\ Up(b)'
                       /\ b > a => Quiet(b)'
  <2>1. \A b \in Actor : /\ b < a => Made(b) /\ Up(b)
                         /\ b > a => Quiet(b)
    BY <1>1, <1>2 DEF Hooking
  <2> QED BY <1>2, <1>5, <1>6, <2>1, ActorInt
<1>8. lifecycle' = "running" /\ ~started
  BY <1>1, <1>3 DEF Hooking
<1>9. /\ pc' \in [Control -> Location] /\ LocInv(pc[c])' /\ (pc'[c] = Idle => AtRest')
      /\ \A d \in Control \ {c} : pc'[d] = pc[d]
  <2>1. CASE a < N
    <3>1. a + 1 \in Actor /\ a + 1 \in 0 .. N /\ "init" \in CStep /\ ~started'
      BY <2>1, <1>s, CountAssumption DEF Actor, CStep
    <3>2. /\ pc' \in [Control -> Location]
          /\ pc'[c].step = "init" /\ pc'[c].actor = a + 1 /\ pc'[c].call = pc[c].call
          /\ \A d \in Control \ {c} : pc'[d] = pc[d]
      BY <2>1, <3>1, <1>3, GotoFields DEF Inv
    <3>3. pc[c].call = "start"
      BY <1>1 DEF Hooking
    <3>4. \A b \in Actor : IF b < a + 1 THEN Made(b)' /\ Up(b)' ELSE Quiet(b)'
      BY <1>7, ActorInt
    <3>5. Initialising(pc[c])'
      BY <1>8, <3>1, <3>2, <3>3, <3>4 DEF Initialising
    <3> QED BY <3>2, <3>5 DEF LocInv, Idle
  <2>2. CASE ~(a < N)
    <3>1. a = N /\ started' /\ \A b \in Actor : b <= a
      BY <2>2, <1>s, ActorInt
    <3>2. AtRest'
      BY <3>1, <1>7, <1>8 DEF AtRest
    <3> QED BY <2>2, <3>2, <1>3, ReturnFields DEF LocInv, Inv
  <2> QED BY <2>1, <2>2
<1>10. TypeOK'
  <2>1. started' \in BOOLEAN
    BY <1>3
  <2> QED BY <1>2, <1>3, <1>4, <1>9, <2>1 DEF Inv, TypeOK
<1>11. ControlInv' /\ Solo' /\ RestInv'
  BY <1>1, <1>9, OneMoves
<1>12. Unpaired' /\ FailInv' /\ FaultInv'
  BY <1>3, <1>4 DEF Inv, Unpaired, FailInv, FaultInv
<1> QED BY <1>10, <1>11, <1>12 DEF Inv

\* Steps that change neither the actors nor the traffic.
LEMMA SameActors ==
  ASSUME Inv, UNCHANGED <<actors, hook, checked, due, started, sent, faults>>,
         pc' \in [Control -> Location], lifecycle' \in {"stopped", "running", "stopping"},
         ControlInv' /\ Solo' /\ RestInv'
  PROVE  Inv'
<1>1. TypeOK'
  BY DEF Inv, TypeOK, actors
<1>2. Unpaired' /\ FailInv' /\ FaultInv'
  BY DEF Inv, Unpaired, FailInv, FaultInv, actors
<1> QED BY <1>1, <1>2 DEF Inv

LEMMA SamePredicates ==
  ASSUME UNCHANGED <<actors, hook>>
  PROVE  /\ \A b \in Actor : Made(b)' <=> Made(b)
         /\ \A b \in Actor : Quiet(b)' <=> Quiet(b)
         /\ \A b \in Actor : Up(b)' <=> Up(b)
         /\ \A b \in Actor : Down(b)' <=> Down(b)
  BY DEF actors, Made, Quiet, Alive, Up, Down

LEMMA StartFailsInv == ASSUME Inv, NEW c \in Control, StartFails(c)
                       PROVE  Inv'
<1>1. /\ Failed(pc[c]) /\ \A d \in Control \ {c} : pc[d] = Idle
  BY Here, Alone1 DEF StartFails, At, Inv
<1>2. /\ lifecycle' = "stopping" /\ Return(c)
      /\ UNCHANGED <<actors, hook, checked, due, started, sent, faults>>
  BY DEF StartFails
<1>3. /\ pc' \in [Control -> Location] /\ pc'[c] = Idle
      /\ \A d \in Control \ {c} : pc'[d] = pc[d]
  BY <1>2, ReturnFields DEF Inv
<1>4. AtRest'
  BY <1>1, <1>2, SamePredicates DEF AtRest, Failed
<1>5. ControlInv' /\ Solo' /\ RestInv'
  BY <1>1, <1>3, <1>4, OneMoves DEF LocInv
<1> QED BY <1>2, <1>3, <1>5, SameActors

LEMMA StopBeginInv == ASSUME Inv, Careful, NEW c \in Control, StopBegin(c)
                      PROVE  Inv'
<1>1. /\ \A d \in Control : pc[d] = Idle
      /\ started /\ \A a \in Actor : Made(a) /\ Up(a)
  BY DEF StopBegin, Alone, Inv, RestInv, AtRest
<1>2. /\ lifecycle' = "stopping"
      /\ pc' = [pc EXCEPT ![c] = [call |-> "stop", step |-> "stop_hook", actor |-> 1, last |-> N]]
      /\ UNCHANGED <<actors, hook, checked, due, started, sent, faults>>
  BY DEF StopBegin, Enter
<1>3. /\ pc' \in [Control -> Location]
      /\ pc'[c].step = "stop_hook" /\ pc'[c].actor = 1
      /\ pc'[c].call = "stop" /\ pc'[c].last = N
      /\ \A d \in Control \ {c} : pc'[d] = pc[d]
  <2>1. "stop_hook" \in CStep /\ N \in 0 .. N
    BY CountAssumption DEF CStep
  <2> QED BY <1>2, <2>1, EnterFields DEF Inv
<1>4. \A a \in Actor : Made(a)' /\ Up(a)'
  BY <1>1, <1>2, SamePredicates
<1>6. Stopping(pc[c], pc[c].actor - 1)'
  <2>1. N \in Actor /\ 1 \in 1 .. N /\ \A a \in Actor : ~(a > N) /\ ~(a < 1)
    BY CountAssumption DEF Actor
  <2> QED BY <1>1, <1>2, <1>3, <1>4, <2>1 DEF Stopping
<1>7. pc'[c] # Idle
  BY <1>3 DEF Idle
<1>8. ControlInv' /\ Solo' /\ RestInv'
  BY <1>1, <1>3, <1>6, <1>7, OneMoves DEF LocInv, StoppingHook
<1> QED BY <1>2, <1>3, <1>8, SameActors

LEMMA StopHookInv == ASSUME Inv, NEW c \in Control, StopHook(c)
                     PROVE  Inv'
<1>1. /\ Stopping(pc[c], pc[c].actor - 1) /\ \A d \in Control \ {c} : pc[d] = Idle
  BY Here, Alone1 DEF StopHook, At, Inv
<1>2. PICK a \in Actor : a = pc[c].actor
  BY <1>1, CountAssumption DEF Stopping, Actor
<1>3. /\ StopHookRuns(a) /\ Goto(c, "stop_port", a)
      /\ UNCHANGED <<lifecycle, port, running, joined, thread, queue, checked, due, started, sent,
                     faults>>
  BY <1>2 DEF StopHook, actors
<1>4. /\ pc' \in [Control -> Location]
      /\ pc'[c].step = "stop_port" /\ pc'[c].actor = a
      /\ pc'[c].call = pc[c].call /\ pc'[c].last = pc[c].last
      /\ \A d \in Control \ {c} : pc'[d] = pc[d]
  BY <1>3, GotoFields, ActorInt DEF Inv, CStep
<1>5. /\ hook' \in [Actor -> {"none", "started", "stopped", "unpaired"}]
      /\ hook[a] = "started" => hook'[a] = "stopped"
      /\ \A b \in Actor \ {a} : hook'[b] = hook[b]
  BY <1>3 DEF StopHookRuns, Inv, TypeOK
<1>6. /\ \A b \in Actor : Made(b)' <=> Made(b)
      /\ \A b \in Actor : Quiet(b)' <=> Quiet(b)
      /\ \A b \in Actor : Down(b)' <=> Down(b)
      /\ \A b \in Actor \ {a} : Up(b)' <=> Up(b)
  BY <1>3, <1>5 DEF Made, Quiet, Alive, Up, Down
<1>7. Up(a)
  BY <1>1, <1>2, ActorInt DEF Stopping
<1>8. Stopping(pc[c], pc[c].actor)'
  <2>1. \A b \in Actor : a < b => a - 1 < b /\ b # a
    BY ActorInt
  <2> QED BY <1>1, <1>2, <1>3, <1>4, <1>6, <2>1 DEF Stopping
<1>9. ControlInv' /\ Solo' /\ RestInv'
  BY <1>1, <1>4, <1>8, OneMoves DEF LocInv, StoppingPort, Idle
<1>10. TypeOK'
  BY <1>3, <1>4, <1>5 DEF Inv, TypeOK
<1>11. Unpaired' /\ FailInv' /\ FaultInv'
  BY <1>3, <1>5, <1>7 DEF Inv, Unpaired, FailInv, FaultInv, Up
<1> QED BY <1>9, <1>10, <1>11 DEF Inv

LEMMA StopPortInv == ASSUME Inv, NEW c \in Control, StopPort(c)
                     PROVE  Inv'
<1>1. /\ Stopping(pc[c], pc[c].actor) /\ \A d \in Control \ {c} : pc[d] = Idle
  BY Here, Alone1 DEF StopPort, At, Inv
<1>2. PICK a \in Actor : a = pc[c].actor
  BY <1>1, CountAssumption DEF Stopping, Actor
<1>l. PICK l \in Actor : l = pc[c].last
  BY <1>1 DEF Stopping
<1>3. /\ running' = [running EXCEPT ![a] = FALSE]
      /\ Touch(a, "stop")
      /\ \/ a < l /\ Goto(c, "stop_hook", a + 1)
         \/ a = l /\ pc[c].call = "start" /\ Goto(c, "failed", a)
         \/ a = l /\ pc[c].call = "stop" /\ Return(c)
      /\ UNCHANGED <<lifecycle, port, joined, thread, queue, hook, checked, due, started, sent>>
  BY <1>2, <1>l DEF StopPort
<1>4. a <= l /\ \A b \in Actor : /\ b <= l => Made(b)
                                 /\ b > l => Quiet(b)
                                 /\ b < a => Down(b)
                                 /\ a < b /\ b <= l => Up(b)
  BY <1>1, <1>2, <1>l DEF Stopping
<1>5. faults' = faults
  BY <1>3, <1>4 DEF Touch, Made
<1>6. /\ running' \in [Actor -> BOOLEAN] /\ ~running'[a]
      /\ \A b \in Actor \ {a} : running'[b] = running[b]
  BY <1>3 DEF Inv, TypeOK
<1>7. /\ \A b \in Actor : Made(b)' <=> Made(b)
      /\ \A b \in Actor : Quiet(b)' <=> Quiet(b)
      /\ \A b \in Actor : Up(b)' <=> Up(b)
      /\ \A b \in Actor : Down(b) \/ b = a => Down(b)'
  BY <1>3, <1>6 DEF Made, Quiet, Alive, Up, Down
<1>8. \A b \in Actor : b <= a => Down(b)'
  BY <1>4, <1>7, ActorInt
<1>9. /\ pc' \in [Control -> Location] /\ LocInv(pc[c])' /\ (pc'[c] = Idle => AtRest')
      /\ \A d \in Control \ {c} : pc'[d] = pc[d]
  <2>1. CASE a < l /\ Goto(c, "stop_hook", a + 1)
    <3>1. a + 1 \in 0 .. N /\ a + 1 \in 1 .. l /\ "stop_hook" \in CStep
      BY <2>1, ActorInt DEF CStep
    <3>2. /\ pc' \in [Control -> Location]
          /\ pc'[c].step = "stop_hook" /\ pc'[c].actor = a + 1
          /\ pc'[c].call = pc[c].call /\ pc'[c].last = l
          /\ \A d \in Control \ {c} : pc'[d] = pc[d]
      BY <2>1, <3>1, <1>l, GotoFields DEF Inv
    <3>3. \A b \in Actor : (b < a + 1 <=> b <= a) /\ ((a + 1) - 1 < b <=> a < b)
      BY ActorInt
    <3>4. \A b \in Actor : /\ b <= l => Made(b)'
                           /\ b > l => Quiet(b)'
                           /\ b < a + 1 => Down(b)'
                           /\ (a + 1) - 1 < b /\ b <= l => Up(b)'
      BY <1>4, <1>7, <1>8, <3>3
    <3>5. \/ pc[c].call = "start" /\ lifecycle' = "running" /\ ~started'
          \/ pc[c].call = "stop" /\ lifecycle' = "stopping" /\ started' /\ l = N
      BY <1>1, <1>3, <1>7, <1>l DEF Stopping
    <3>6. Stopping(pc[c], pc[c].actor - 1)'
      BY <3>1, <3>2, <3>4, <3>5 DEF Stopping
    <3> QED BY <3>2, <3>6 DEF LocInv, StoppingHook, Idle
  <2>2. CASE a = l /\ pc[c].call = "start" /\ Goto(c, "failed", a)
    <3>1. /\ pc' \in [Control -> Location]
          /\ pc'[c].step = "failed" /\ pc'[c].call = pc[c].call
          /\ \A d \in Control \ {c} : pc'[d] = pc[d]
      BY <2>2, GotoFields, ActorInt DEF Inv, CStep
    <3>2. lifecycle' = "running" /\ ~started'
      BY <1>1, <1>3, <1>7, <2>2 DEF Stopping
    <3>3. \A b \in Actor : (Made(b)' /\ Down(b)') \/ Quiet(b)'
      BY <1>4, <1>7, <1>8, <2>2, ActorInt
    <3> QED BY <2>2, <3>1, <3>2, <3>3 DEF LocInv, Failed, Idle
  <2>3. CASE a = l /\ pc[c].call = "stop" /\ Return(c)
    <3>1. lifecycle' = "stopping" /\ a = N
      BY <1>1, <1>3, <1>7, <1>l, <2>3 DEF Stopping
    <3>2. \A b \in Actor : Made(b)' /\ Down(b)'
      BY <1>4, <1>7, <1>8, <2>3, <3>1, ActorInt
    <3>3. AtRest'
      BY <3>1, <3>2 DEF AtRest
    <3> QED BY <2>3, <3>3, ReturnFields DEF LocInv, Inv
  <2> QED BY <1>3, <2>1, <2>2, <2>3
<1>10. ControlInv' /\ Solo' /\ RestInv'
  BY <1>1, <1>9, OneMoves
<1>11. TypeOK'
  BY <1>3, <1>5, <1>6, <1>9 DEF Inv, TypeOK
<1>12. Unpaired' /\ FailInv' /\ FaultInv'
  BY <1>3, <1>5 DEF Inv, Unpaired, FailInv, FaultInv
<1> QED BY <1>10, <1>11, <1>12 DEF Inv

LEMMA RunBeginInv == ASSUME Inv, Careful, NEW c \in Control, RunBegin(c)
                     PROVE  Inv'
<1>1. /\ \A d \in Control : pc[d] = Idle
      /\ lifecycle = "stopping" /\ \A a \in Actor : Made(a) \/ (Quiet(a) /\ ~started)
  BY DEF RunBegin, Alone, Inv, RestInv, AtRest
<1>2. /\ pc' = [pc EXCEPT ![c] = [call |-> "run", step |-> "join", actor |-> 1, last |-> 0]]
      /\ UNCHANGED <<lifecycle, actors, hook, checked, due, started, sent, faults>>
  BY DEF RunBegin, Enter
<1>3. /\ pc' \in [Control -> Location]
      /\ pc'[c].step = "join" /\ pc'[c].actor = 1 /\ pc'[c].call = "run"
      /\ \A d \in Control \ {c} : pc'[d] = pc[d]
  <2>1. "join" \in CStep /\ 0 \in 0 .. N
    BY CountAssumption DEF CStep
  <2> QED BY <1>2, <2>1, EnterFields DEF Inv
<1>4. Joining(pc[c])'
  <2>1. 1 \in Actor /\ \A a \in Actor : ~(a < 1)
    BY CountAssumption DEF Actor
  <2>2. lifecycle' = "stopping" /\ started' = started
    BY <1>1, <1>2
  <2>3. \A a \in Actor : Made(a)' \/ (Quiet(a)' /\ ~started')
    BY <1>1, <1>2, SamePredicates
  <2> QED BY <1>3, <2>1, <2>2, <2>3 DEF Joining
<1>5. pc'[c] # Idle
  BY <1>3 DEF Idle
<1>6. ControlInv' /\ Solo' /\ RestInv'
  BY <1>1, <1>3, <1>4, <1>5, OneMoves DEF LocInv
<1> QED BY <1>1, <1>2, <1>3, <1>6, SameActors

LEMMA JoinInv == ASSUME Inv, NEW c \in Control, Join(c)
                 PROVE  Inv'
<1>1. /\ Joining(pc[c]) /\ \A d \in Control \ {c} : pc[d] = Idle
  BY Here, Alone1 DEF Join, At, Inv
<1>2. PICK a \in Actor : a = pc[c].actor
  BY <1>1 DEF Joining
<1>3. /\ joined[a] \/ thread[a] \in {"none", "exited"}
      /\ joined' = [joined EXCEPT ![a] = TRUE]
      /\ port' = [port EXCEPT ![a] = IF joined[a] THEN @ ELSE "clean"]
      /\ IF a < N THEN Goto(c, "join", a + 1) ELSE Goto(c, "check", a)
      /\ UNCHANGED <<lifecycle, running, thread, queue, hook, checked, due, started, sent, faults>>
  BY <1>2 DEF Join
<1>4. /\ joined'[a] /\ (joined[a] => port'[a] = port[a]) /\ (~joined[a] => port'[a] = "clean")
      /\ \A b \in Actor \ {a} : joined'[b] = joined[b] /\ port'[b] = port[b]
      /\ joined' \in [Actor -> BOOLEAN] /\ port' \in [Actor -> {"raw", "live", "clean"}]
  BY <1>3 DEF Inv, TypeOK
<1>5. Quiet(a)' /\ ~Made(a)'
  <2>1. joined[a] => Quiet(a)
    BY MadeOrQuiet DEF Made
  <2> QED BY <1>3, <1>4, <2>1 DEF Quiet, Alive, Made
<1>6. \A b \in Actor \ {a} : (Made(b)' <=> Made(b)) /\ (Quiet(b)' <=> Quiet(b))
  BY <1>3, <1>4 DEF Made, Quiet, Alive
<1>7. lifecycle' = "stopping" /\ pc[c].call = "run" /\ started' = started
  BY <1>1, <1>3 DEF Joining
<1>10. \A b \in Actor : /\ b <= a => Quiet(b)'
                        /\ b > a => Made(b)' \/ (Quiet(b)' /\ ~started')
  <2>1. \A b \in Actor : IF b < a THEN Quiet(b) ELSE Made(b) \/ (Quiet(b) /\ ~started)
    BY <1>1, <1>2 DEF Joining
  <2> QED BY <1>5, <1>6, <1>7, <2>1, ActorInt
<1>11. /\ pc' \in [Control -> Location] /\ LocInv(pc[c])' /\ pc'[c] # Idle
       /\ \A d \in Control \ {c} : pc'[d] = pc[d]
  <2>1. CASE a < N
    <3>1. a + 1 \in 0 .. N /\ a + 1 \in Actor /\ "join" \in CStep
      BY <2>1, ActorInt DEF CStep, Actor
    <3>2. /\ pc' \in [Control -> Location]
          /\ pc'[c].step = "join" /\ pc'[c].actor = a + 1 /\ pc'[c].call = pc[c].call
          /\ \A d \in Control \ {c} : pc'[d] = pc[d]
      BY <1>3, <2>1, <3>1, GotoFields DEF Inv
    <3>3. \A b \in Actor : IF b < a + 1 THEN Quiet(b)' ELSE Made(b)' \/ (Quiet(b)' /\ ~started')
      BY <1>10, ActorInt
    <3>4. Joining(pc[c])'
      BY <1>7, <3>1, <3>2, <3>3 DEF Joining
    <3> QED BY <3>2, <3>4 DEF LocInv, Idle
  <2>2. CASE ~(a < N)
    <3>1. /\ pc' \in [Control -> Location]
          /\ pc'[c].step = "check" /\ pc'[c].call = pc[c].call
          /\ \A d \in Control \ {c} : pc'[d] = pc[d]
      BY <1>3, <2>2, GotoFields, ActorInt DEF Inv, CStep
    <3>2. \A b \in Actor : Quiet(b)'
      BY <1>10, <2>2, ActorInt
    <3>3. Joined(pc[c])'
      BY <1>7, <3>1, <3>2 DEF Joined
    <3> QED BY <3>1, <3>3 DEF LocInv, Idle
  <2> QED BY <2>1, <2>2
<1>12. ControlInv' /\ Solo' /\ RestInv'
  BY <1>1, <1>11, OneMoves
<1>13. TypeOK'
  BY <1>3, <1>4, <1>11 DEF Inv, TypeOK
<1>14. Unpaired' /\ FailInv' /\ FaultInv'
  BY <1>3 DEF Inv, Unpaired, FailInv, FaultInv
<1> QED BY <1>12, <1>13, <1>14 DEF Inv

LEMMA RunEndInv == ASSUME Inv, NEW c \in Control, RunCheck(c) \/ RunStore(c)
                   PROVE  Inv'
<1>1. /\ Joined(pc[c]) /\ \A d \in Control \ {c} : pc[d] = Idle
  BY Here, Alone1 DEF RunCheck, RunStore, At, Inv
<1>2. UNCHANGED <<actors, hook, checked, due, started, sent, faults>>
  BY DEF RunCheck, RunStore
<1>3. \A a \in Actor : Quiet(a)'
  BY <1>1, <1>2, SamePredicates DEF Joined
<1>4. /\ pc' \in [Control -> Location] /\ LocInv(pc[c])' /\ (pc'[c] = Idle => AtRest')
      /\ lifecycle' \in {"stopped", "running", "stopping"}
      /\ \A d \in Control \ {c} : pc'[d] = pc[d]
  <2>1. CASE RunCheck(c)
    <3>1. lifecycle' = "stopping" /\ Goto(c, "store", N) /\ pc[c].call = "run"
      BY <1>1, <2>1 DEF RunCheck, Joined
    <3>2. N \in 0 .. N /\ "store" \in CStep
      BY CountAssumption DEF CStep
    <3>3. /\ pc' \in [Control -> Location]
          /\ pc'[c].step = "store" /\ pc'[c].call = pc[c].call
          /\ \A d \in Control \ {c} : pc'[d] = pc[d]
      BY <3>1, <3>2, GotoFields DEF Inv
    <3>4. Joined(pc[c])'
      BY <1>3, <3>1, <3>3 DEF Joined
    <3> QED BY <3>1, <3>3, <3>4 DEF LocInv, Idle
  <2>2. CASE RunStore(c)
    <3>1. lifecycle' = "stopped" /\ Return(c)
      BY <2>2 DEF RunStore
    <3> QED BY <1>3, <3>1, ReturnFields DEF LocInv, AtRest, Inv
  <2> QED BY <2>1, <2>2
<1>5. ControlInv' /\ Solo' /\ RestInv'
  BY <1>1, <1>4, OneMoves
<1> QED BY <1>2, <1>4, <1>5, SameActors

-----------------------------------------------------------------------------
(* The theorems *)

LEMMA InitInv == Init => Inv
<1> SUFFICES ASSUME Init PROVE Inv
  OBVIOUS
<1>1. TypeOK
  <2>1. Idle \in Location /\ 0 \in 0 .. QueueDepth /\ 0 \in 0 .. N /\ 0 \in 0 .. MaxSends
    BY CountAssumption DEF Idle, Location
  <2>2. /\ pc \in [Control -> Location] /\ queue \in [Actor -> 0 .. QueueDepth]
        /\ checked \in [Sender -> 0 .. N]
    BY <2>1 DEF Init
  <2> QED BY <2>1, <2>2 DEF Init, TypeOK
<1>2. \A c \in Control : pc[c] = Idle
  BY DEF Init
<1>3. ControlInv /\ Solo
  BY <1>2 DEF ControlInv, LocInv, Solo
<1>4. RestInv
  BY DEF Init, RestInv, AtRest, Quiet, Alive
<1>5. Unpaired /\ FailInv /\ FaultInv
  BY DEF Init, Unpaired, FailInv, FaultInv
<1> QED BY <1>1, <1>3, <1>4, <1>5 DEF Inv

LEMMA NextInv == Careful /\ Inv /\ [Next]_vars => Inv'
<1> SUFFICES ASSUME Careful, Inv, [Next]_vars PROVE Inv'
  OBVIOUS
<1>1. ASSUME NEW c \in Control, Begin(c) \/ ControlStep(c) PROVE Inv'
  BY <1>1, StartBeginInv, StopBeginInv, RunBeginInv, InitActorInv, InitFailsInv, StartHookInv,
     StartFailsInv, StopHookInv, StopPortInv, JoinInv, RunEndInv DEF Begin, ControlStep
<1>2. CASE UNCHANGED vars
  <2>1. ControlInv' /\ Solo' /\ RestInv'
    <3>1. Env
      BY <1>2 DEF Env, vars
    <3> QED BY <3>1, EnvKeeps
  <2> QED BY <1>2, <2>1, SameActors DEF vars, actors, Inv, TypeOK
<1> QED BY <1>1, <1>2, ThreadInv, SendInv DEF Next

\* When control calls do not overlap, where they are and what they have done
\* to which actors always fits together as Inv says, whatever handlers,
\* ipc_send_to and ask-timeout helpers send meanwhile.
THEOREM LifecycleInvariant == ASSUME Careful PROVE Spec => []Inv
  BY InitInv, NextInv, PTL DEF Spec

\* Every variable keeps its type; in particular no mailbox is filled beyond its
\* depth, whatever races with a start or a stop.
THEOREM TypesAreCorrect == ASSUME Careful PROVE Spec => []TypeOK
<1>1. Inv => TypeOK
  BY DEF Inv
<1> QED BY <1>1, LifecycleInvariant, PTL

\* In the stopped state no actor thread is left and no port resource is held.
THEOREM StoppedStateIsQuiet == ASSUME Careful PROVE Spec => []StoppedIsQuiet
<1>1. Inv => StoppedIsQuiet
  BY StoppedIdle DEF StoppedIsQuiet, AtRest, Quiet
<1> QED BY <1>1, LifecycleInvariant, PTL

\* The mailbox of an actor is there as long as its thread runs, after a
\* successful startup those of the later actors too, and a stop never locks a
\* destroyed one: whatever handlers, senders and ask-timeout helpers do.
THEOREM MailboxesOutlive == ASSUME Careful PROVE Spec => []MailboxesOutliveThreads
<1>1. Inv => MailboxesOutliveThreads
  BY MailboxIsThere DEF Inv, FaultInv, Made, MailboxesOutliveThreads
<1> QED BY <1>1, LifecycleInvariant, PTL

\* Hooks come in pairs, whichever actor fails to start.
THEOREM HooksArePaired == ASSUME Careful PROVE Spec => []HooksPaired
<1>1. Inv => HooksPaired
  BY DEF Inv, Unpaired, HooksPaired, Supervised
<1> QED BY <1>1, LifecycleInvariant, PTL

\* When a stop, or the undoing of a failed start, is over, every actor was told
\* to stop, and only one that restarted itself since runs on.
THEOREM StopReachesEveryone == ASSUME Careful PROVE Spec => []StopReachesAll
<1>1. Inv => StopReachesAll
  BY DEF Inv, RestInv, AtRest, StopReachesAll, Down, Quiet
<1> QED BY <1>1, LifecycleInvariant, PTL

LEMMA RebornIsQuiet == ASSUME Careful, Inv, [Next]_vars, NEW a \in Actor, Reborn(a)
                       PROVE  ~Alive(a) /\ port[a] # "live"
<1>1. thread \in [Actor -> {"none", "start", "waiting", "busy", "fail_port", "fail_start",
                            "exited"}]
  BY DEF Inv, TypeOK
<1>2. thread'[a] = "start" /\ thread[a] # "start"
  BY DEF Reborn
<1>3. ASSUME NEW b \in Actor, ThreadStep(b) \/ HandlerReturn(b) \/ Fail(b) PROVE FALSE
  <2>1. PICK s \in {"waiting", "busy", "fail_port", "fail_start", "exited"} :
            thread' = [thread EXCEPT ![b] = s]
    BY <1>3 DEF ThreadStep, HandlerReturn, Fail, ThreadBegin, Take, Exit, FailPort, FailStart, Move
  <2> QED BY <1>1, <1>2, <2>1
<1>4. ASSUME NEW c \in Control, InitActor(c) PROVE Quiet(a)
  <2>1. pc[c].actor \in Actor /\ Quiet(pc[c].actor)
    BY <1>4, InitActorInv
  <2>2. a = pc[c].actor
    BY <1>1, <1>2, <1>4, <2>1 DEF InitActor
  <2> QED BY <2>1, <2>2
<1>5. ASSUME thread' = thread PROVE FALSE
  BY <1>2, <1>5
<1> QED BY <1>3, <1>4, <1>5
        DEF Next, Begin, ControlStep, StartBegin, StopBegin, RunBegin, InitFails, StartHook,
            StartFails, StopHook, StopPort, Join, RunCheck, RunStore, HandlerSend, SendToCheck,
            SendToPost, AskWithTimeout, TimeoutPost, TimeoutLate, vars, actors, Quiet

\* ipc_port_actor_init is never called for an actor whose last thread is not
\* joined.
THEOREM GenerationsAreSeparate == ASSUME Careful PROVE Spec => GenerationsDoNotOverlap
<1>1. Inv /\ [Next]_vars => [\A a \in Actor : Reborn(a) => ~Alive(a) /\ port[a] # "live"]_vars
  BY RebornIsQuiet
<1> QED BY <1>1, LifecycleInvariant, PTL DEF Spec, GenerationsDoNotOverlap
=============================================================================
