# A TLA+ model of actor_framework_cxx

This directory specifies the actor framework in `src/`: registration and routing, the ask/reply
protocol, the lifecycle of the actors, and the three ports (POSIX, Zephyr, and the deterministic
test port).
TLC checks the specifications on small instances; TLAPS proves every safety property of the passing
runs, and the safety part of three refinements, for every value of the constants.

## 1. The system

An application declares *actors* and *messages*. Every actor has a mailbox and a thread. A core
(`src/ipc.c`) keeps the routing tables, the table of pending asks and the lifecycle state; a
*port* (POSIX, Zephyr, or a deterministic test port) provides mailboxes, threads and timers.

| Part | State | Operations | What is hard |
|---|---|---|---|
| Registration and routing (`ipc.c`) | `reg_table`, `sub_table`, `handler_table`, descriptor ids | static registration; `ipc_send`, `ipc_publish`, `ipc_send_to`; overflow policy | tables at their limits; one of several deliveries failing |
| Ask/reply (`ipc.c`) | `ask_table` under `ask_lock`, `next_ask_id` | `ipc_ask*`, `ipc_reply`, `ipc_reply_error`, `ipc_ask_cancel`, `ipc_ask_timeout_expired`, dispatch | the lock is released around every send; reply, timeout and cancellation race; ids wrap |
| Lifecycle (`ipc.c`) | `lifecycle_state` | `ipc_start_all_actors`, `ipc_stop_all`, `ipc_run_all` | half-failed starts, calls that overlap, threads that still drain |
| Supervision (`ipc.c`) | a strategy per actor | `ipc_actor_fail` | a restart in the middle of a handler or of a shutdown |
| POSIX mailbox (`posix_ipc_port.c`) | ring, `head`, `tail`, `count`, `running`, lock, condition variable | `ipc_port_send`, `ipc_port_stop_actor`, `ipc_port_restart_actor`, `ipc_thread_fn` | lost wake-ups, wrap-around, reset under a running thread |
| POSIX delayed send | `delay_active`, `delay_cancel`, `delay_thread`, `delay_msg` | `ipc_port_send_after`, `delay_thread_fn`, `cancel_delayed_send` | the lock is released for a join; the helper sends unlocked |
| POSIX ask timeout | a detached thread per timed ask | `ipc_port_schedule_ask_timeout`, `ask_timeout_thread_fn` | fires late, once, into a possibly full mailbox |
| POSIX init and cleanup | `joined`, buffers, locks | `ipc_port_actor_init`, `ipc_port_run_all`, `cleanup_actor` | cleanup while others still send |
| Zephyr port (`zephyr_ipc_port.c`) | `k_msgq`, `delayed_work` and `delay_lock` per actor, `ask_timeouts` under `ask_timeout_lock` | the same interface; `delayed_work_fn` and `ask_timeout_work_fn` on the system workqueue | pool entries reused under a running handler, buffers shared with the workqueue, `k_thread_abort` of a lock's owner, spinning on one core |
| Test port (`ipc_test_port.c`) | a ring and one `receive_slot` per actor | the same interface, `ipc_test_run_until_idle` | sequential, but handlers re-enter it |
| Ids and slot sizes | none | FNV-1a, alignment macros | pure functions |

The core calls the port with no lock held. The port calls back into the core from the actors'
threads (`ipc_dispatch_actor_handlers`) and from timeout helpers (`ipc_ask_timeout_expired`).
Handlers, callbacks and hooks are application code and may call any API function.

What makes each part correct:

* routing: a handled command has one route, dispatch runs the handler of the message's own type,
  and the result of a publication tells whether every subscriber got it;
* mailbox: FIFO, bounded, one handler call at a time, nothing accepted is forgotten, a stopped
  actor's thread ends;
* ask/reply: a callback runs at most once, not at all after a cancellation or an error return,
  and eventually when there is a timeout; late messages never touch another ask;
* delayed send: at most one pending message; a replaced or cancelled one never arrives;
* lifecycle: generations do not overlap, hooks come in pairs, the stopped state means that
  nothing is left, mailboxes outlive the threads that drain into them, a shutdown ends;
* Zephyr port: as for delayed sends and timeouts, and every wait on the workqueue or on a lock ends;
* test port: messages are handled once, in order, from an intact copy, until idle.

## 2. The modules

| Module | Models | Notes |
|---|---|---|
| `Mailbox` | what a port promises about a mailbox | abstract specification |
| `PosixMailbox` | ring, lock and `ipc_thread_fn` of one actor | refines `Mailbox` |
| `PosixMailboxProofs` | | proofs: invariants and refinement |
| `AskReply` | ask table, ids, timeout helpers, dispatch; mailboxes are bounded queues | |
| `AskReplyProofs` | | proofs: unique ids, one callback, cancellation |
| `AskProtocolProofs` | | proofs: ids never run out, failed asks, correlation, single replies, timeouts |
| `DelaySlot` | the documented one-message delay slot | abstract specification |
| `DelayedSend` | `ipc_port_send_after`, its helper thread, and the cancellation | refines `DelaySlot` |
| `DelayedSendProofs` | | proofs: invariants and refinement |
| `Lifecycle` | start, stop, run, supervision, port init and cleanup | mailboxes are counters |
| `LifecycleProofs` | | proofs: invariants and separate generations |
| `Routing` | registration, routes, subscriptions, overflow policy, send, publish, dispatch | mailboxes are bounded queues |
| `RoutingProofs` | | proofs: tables, dispatch, publications |
| `MCRouting` | | an instance of `Routing` with a hash collision |
| `ZephyrPort` | the Zephyr port with the timeout path of `ipc.c`, the system workqueue and its threads | refines a `DelaySlot` per actor; mailboxes are counters |
| `ZephyrPortProofs` | | proofs: delayed message, timeout pool, refinement |
| `TestPort` | the test port with start, stop and supervision | |
| `TestPortProofs` | | proofs: ring, intact copy, idle when it returns |

**Granularity.** A stretch of code with a lock held is one action, and so is a call of
`ipc_port_send`, a hook, or an atomic operation on `lifecycle_state`. Wherever the code gives up
the lock there is a program counter value, so one API call is several actions.

**PosixMailbox.** `ring`, `head`, `tail`, `count`, `running` and `recv` are the fields of
`ipc_port_state`; `pc` says where `ipc_thread_fn` is. `ThreadStart`, `ThreadWake` and
`HandlerReturn` are the three places where the thread acquires the lock; `Serve` is the drain
loop. `SpuriousWakeup` is what POSIX permits of `pthread_cond_wait`. The thread of an actor is
one of many callers of `Send`, `Stop` and `Restart`, so those need no caller.

**AskReply.** `ask_table` and `next_ask_id` are the core's variables. `Ask` is the locked part of
`ipc_ask_with_id_raw`; `AskArm*`, `AskSend*` and `AskUndo` are what follows. `Reply`,
`ReplyTooLarge` and `ReplyError` are the locked parts of the reply calls, `ReplySend*` and
`ReplyUndo` their tails. `Timer*` is the helper thread of one ask. `DispatchCallback` and
`DispatchHandler` are `ipc_dispatch_actor_handlers`. An error return that changes nothing is not
an action. `ser`, `info`, `status`, `callbacks`, `accepted` and `lost` are auxiliary: they record
which ask a thing belongs to and what became of it. `IdSpace` stands for 2^32.

**DelayedSend.** A call that finds `delay_active` set passes through `Begin`, `Join`,
`JoinReturn`; any other call is `Begin` alone. `Complete` is what a call does at the end under
`delay_lock`: install the message and create the helper, or just clear `delay_active`. A second
`pthread_join` of one thread returns at once, which is what glibc does (it reports `EINVAL`).

**Lifecycle.** The list of actors is `1 .. N`. `StopHook` and `StopPort` serve `ipc_stop_all` and
`stop_actors_through`. `due` is the set of actors with a detached ask-timeout helper:
`AskWithTimeout` creates it, `TimeoutPost` and `TimeoutLate` are its two ends. One constant describes
the application: with `Careful` it calls `ipc_stop_all` and `ipc_run_all` while no other control call is
under way, and `ipc_run_all` only when the actors were told to stop, since `ipc.h:761` says that without
arranging for that the call can block forever. Nothing else is asked of it. Handlers send to any
actor, earlier or later, at any time; `ipc_send_to` may have passed its check long before it
posts; helpers are detached and never waited for; any actor may fail to start. Using a destroyed
mailbox and joining a thread that was never created are undefined; in the model the message is lost
and the join returns. `faults` records stops and ask-timeout helpers that used a destroyed mailbox.

**Routing.** The three tables are sequences, in registration order, because lookups return the
first match. `Refused` collects every error of `register_cmd_unlocked` and
`subscribe_event_unlocked`; each one ends the process, in a debug build by an `assert`, otherwise by
the `abort()` in `_ipc_actor_register_handler_static` (`RegistrationAborts`). `Hash` stands for
FNV-1a and may map two names to one id. A publication is `PublishBegin`, one `PublishTo` per
subscription, and `PublishReturn`, since each delivery takes another mailbox's lock. `Start` and
`Stop` are whole startups and shutdowns, which Lifecycle has in detail; here no publication is
under way across a shutdown. `pub` keeps the last publication of a thread, with the auxiliary `got`
and `met`.

**ZephyrPort.** Thread 0 is the main thread, which starts the actors `1 .. N`; each of them is a
thread too. `pc` and `call` say where each is. A section under `delay_lock`, `ask_timeout_lock` or
`ask_lock` is entered by one action (`Cancel`, `LockPool`, `LockAsks`) and left by another, because
`k_thread_abort` (`Abort`) may come in between; the workqueue is never aborted, so its sections are
single actions. `SendAfter`, `Fail` and `StopAll` lead through the same cancellation: `Cancel` takes
the lock and cancels the work, `Flushed` is the return of `k_work_flush`, and `Install`, `Cancelled`,
`Purge` and `Abort` are what follows. `work` is the state of a work item as the code can observe it
(idle, scheduled, queued, running); an entry of the pool that is initialised anew while its handler
runs becomes scheduled, and the end of the handler then leaves it alone. `Ask` covers the table entry
and its timeout; the request and the replies are in `AskReply`, so `EndAsk` may end a pending ask at
any time. The workqueue takes due items in any order. `UniProcessor` says whether threads run at all
while the workqueue is busy. `fired`, `armed` and `expired` are auxiliary.

**TestPort.** `frames` is the stack of activations of `ipc_test_run_until_idle`: a handler may call it
again. Between the steps of the loop the test or the innermost handler acts: it sends, fails, stops
everything or runs the loop. Sends are numbered; `box`, the abstract FIFO mailbox, is auxiliary. An `ipc_test_start` whose
initialisation fails is one action, since no handler runs meanwhile. Unlike on POSIX, a stop
discards what is queued.

Operators named as mutants (comments say "Mutant of") are small faults, each next to the
definition it distorts; no specification uses them. They show that each property can fail.

## 3. The runs

Run `tlc -config <cfg> <module>`. `Deadlock` is checked except where the system may come to rest:
in `AskReply` when the bound on asks is used up, in `Lifecycle` because a restart during the drain
makes a shutdown hang (see below), in `Routing` when a refused registration has ended the process,
in `ZephyrPort` when the actors are aborted.

| Run | cfg | Bounds | Result |
|---|---|---|---|
| `mailbox` | PosixMailbox.cfg | 4 messages, capacity 3 | passes: ring, wake-ups, refinement (every accepted message is served), stop ends the thread |
| `ask_races` | AskReply_races.cfg | 2 actors, 2 timed asks, depth 1, 1 restart | passes: one callback, cancellation, error return, one reply, correlation, timeouts on their way, timed asks end |
| `ask_wrap` | AskReply_wrap.cfg | 1 actor, 1 other thread, 4 asks, 4 ids, table of 2, oversized replies | passes: ids unique and always available |
| `ask_timeout_lost` | AskReply_timeout_lost.cfg | 1 ask, depth 1 | violated: a timed ask never ends |
| `delayed_send` | DelayedSend.cfg | 1 caller, 4 delayed sends, any stops and restarts | passes: one helper with its own message, nothing late, calls return, refinement |
| `delayed_two_callers` | DelayedSend_two_callers.cfg | 2 callers, 3 sends | violated: two helpers |
| `lifecycle` | Lifecycle.cfg | 3 actors (unsupervised; RESTART; STOP) that may all fail to start, 2 control threads, 1 sender, 2 actors that ask with timeouts, depth 1, 3 messages | passes: stopped is quiet, mailboxes outlive threads, hooks paired, stop reaches all, generations do not overlap, shutdown ends |
| `lifecycle_cleanup` | Lifecycle_cleanup.cfg | 1 actor, 1 control thread, 1 sender, depth 1, 2 messages | violated: an ask-timeout helper uses a destroyed mailbox |
| `routing` | Routing.cfg | 2 actors, 2 threads, 1 command, 2 events, 2 routes, 3 subscriptions, depth 1 | passes: handlers routed, dispatch by type, publish honest |
| `zephyr` | ZephyrPort.cfg | 2 actors (STOP; RESTART), 2 calls of `ipc_send_after` or `ipc_ask` in any mix, 1 failure, 1 shutdown, pool of 1, depth 1 | passes: pool consistent, delayed message intact, one delayed message (refinement), timeouts expire, shutdown ends |
| `zephyr_spin` | ZephyrPort_spin.cfg | 1 actor, 1 ask, one core | violated: `ask_lock` is never released |
| `test_port` | TestPort.cfg | 2 actors (STOP; RESTART), depth 2, 5 sends, 2 starts, 2 nested loops | passes: ring, intact copy, idle when it returns, returns |

**Why the bounds are enough.** Capacity 3 with four messages fills, wraps and empties the ring
with head at every index. Two asks are the least with which one can be mistaken for the other,
and with depth 1 every send of the protocol can meet a full mailbox: requests, replies and
timeouts race for the slot and with each other. Untimed asks are in `ask_wrap`, and every
depth in the proofs. Four ids and four asks make `next_ask_id` pass 0 and meet a pending id. Four
delayed sends let a replacement itself be replaced, with a failed `pthread_create` in between. Three subscriptions are one less
than the two actors could make for the two events, so the table fills; one of the events has the
id of the command and is too large for one of the actors, so that collisions and a delivery
that fails alone both happen. The two threads are symmetric. The state space of the
Lifecycle run contains any number of generations; only the number of messages is bounded. Its
unsupervised actor is the first, so that its hooks are also run by the undo of a start in which
a later actor fails, and the actors after a failing one exist as well.
In `zephyr` a pool of one entry and two calls make the second ask meet a full pool, an entry just
given back by a handler that still runs, or a lock left by an aborted actor; two delayed sends
make one replace the other at any point of its work, from the main thread and from an actor. In
`test_port` five sends fill and wrap a ring of two slots, and a second start follows a stop that left
`head` and `tail` apart; with two activations a handler re-enters the loop that serves it.

**Fairness.** A thread that is ready runs, a lock is granted in the end, sleeps end and
handlers return; these are weak fairness of the steps a thread takes of its own accord
(in Lifecycle a handler that keeps calling `ipc_actor_fail` still returns: strong fairness of
`HandlerReturn`; in TestPort likewise for handlers that run the loop again). In ZephyrPort weak
fairness of a thread's steps in a call is enough for its locks, since the calls that compete for
them are bounded; delays end and the workqueue goes on, but no handler need return there. No
fairness is assumed of sends, asks, stops, restarts, or spurious wake-ups.

### What the violations show

* `ask_timeout_lost`: the timeout is posted once; if the mailbox is full the helper is gone and
  nothing else ends the ask. `TimedAskEnds`, which excepts asks whose message was dropped, holds.
* `delayed_two_callers`: `delay_active` stays set while the lock is released for the join.
* `lifecycle_cleanup`: one actor asks with a timeout and is stopped and joined as the
  documentation says; the detached helper of the ask then wakes, finds it pending, and locks the
  mutex that `cleanup_actor` has destroyed. No application can wait for the helper.
* `zephyr_spin`: `lock_asks` spins without giving up the core. The system workqueue is cooperative and
  its default priority is above every preemptible actor; when the timeout of an ask is due while an
  actor is inside `lock_asks` .. `unlock_asks`, `ipc_ask_timeout_expired` spins for ever. With a
  core to spare (`UniProcessor = FALSE`) the actor gets on, and `TimeoutsExpire` holds.

Further limits of the code, which the passing runs exclude by an assumption or by an exception
in a property. Each is a counterexample of a few steps when the assumption is lifted:

* a reply sets `reply_sent`; when the timeout then finds the mailbox full, its undo (`ipc.c:327`)
  clears `reply_sent` although the reply set it, and a second reply is accepted, where `README.md:434` of
  the repository says `-EALREADY` (`OneReplyUnlessReopened` excepts asks whose timeout was dropped);
* once `next_ask_id` has gone round, a late message or timer of an old ask can meet a new ask of the
  same id: it runs the new one's callback, closes it or uses up its reply (`CorrelatedIds`,
  `OneReplyUnlessReopened` and `TimeoutOnItsWay` fail with one slot, three ids and three asks);
* `ipc_port_restart_actor` sets `running` also after `ipc_stop_all`: an actor that fails while it
  drains is resurrected and `ipc_run_all` does not return (`ShutdownEnds` excepts it);
* actors after the one whose first initialisation failed have `joined == false` from their static
  initialisation, and `ipc_run_all` joins threads that were never created, which is undefined (in
  the model such a join returns);
* `MailboxesOutliveThreads` is about an actor's own mailbox and those of later actors. During a shutdown
  `ipc_run_all` joins in the order of the list, so a handler that still drains and replies to an
  *earlier* actor uses a mailbox that may be destroyed. An `ipc_send_to` that passed its check before the
  stop may post after the cleanup;
* an ask made by a thread that is not the actor's own (`README.md:284` of the repository, `app_actor.c:92`
  of the example) can return an error *and* get its callback: the timeout is posted and dispatched
  between the failed send and the undo. `FailedAskIsSilent` is about asks made by the actor itself, where
  that cannot happen;
* on Zephyr, `k_thread_abort` of an actor inside `ask_lock`, `ask_timeout_lock` or a `delay_lock` leaves
  the lock taken: later timeouts and stops wait for ever (`TimeoutsExpire` and `StopAllEnds` except
  it). An actor that calls `ipc_stop_all` itself aborts itself on the way and the actors after it
  run on (in the run the main thread calls it);
* on the test port, a handler that calls `ipc_test_run_until_idle` finds its message overwritten
  when the nested loop serves the same actor (`CopyIntact` excepts it);
* a stopped actor drains before it looks at `running`; if its handler, or others, keep sending to
  it, its thread does not end (`StopEndsThread` assumes that the sends end);
* `ipc_send_after` after the cancellation of a stop creates a helper that posts to the stopped
  actor (`posix_ipc_port.c:400` says otherwise);
* the thread of an actor exists before its start hook is called (`ipc.h:237` says otherwise), so a
  message of an earlier actor, of `ipc_send_to` or of a late helper can be handled before the hook;
* `lifecycle_state` is RUNNING while actors are still being initialised, so `ipc_send_to` is accepted
  (`README.md:436` of the repository says `-EPERM`), and an `ipc_stop_all` that overlaps the startup, which
  `Careful` excludes, leaves the actors initialised later running (`StopReachesAll` fails);
* with supervision, a stop hook can run twice: once by `ipc_actor_fail`, once by `ipc_stop_all`
  (`HooksPaired` excepts supervised actors), and a restarted actor runs again after the stop
  (`StopReachesAll` and `ShutdownEnds` except restarts);
* `ipc_publish` returns the first result that is not 0: a `+1` for a dropped delivery hides a later
  subscriber's negative error, although `ipc.h:556` promises the first negative one
  (`PublishHonest` excepts publications with a dropped delivery);
* collisions are detected among registered names only: a command that nobody handles but whose
  id is that of a registered one is sent to that one's handler (`DispatchMatches` is about messages
  that their actor handles);
* `ipc_send_to` refuses a descriptor that was never registered, sent or published, because only
  the other calls initialise its id.

## 4. The proofs

`tlapm <module>.tla` checks the proofs of each of the eight modules `PosixMailboxProofs`,
`AskReplyProofs`, `AskProtocolProofs`, `DelayedSendProofs`, `LifecycleProofs`, `RoutingProofs`,
`ZephyrPortProofs` and `TestPortProofs`. Every safety property that a passing run checks is a theorem,
and so is the safety half of the three refinements. They hold for every value of the constants
that satisfies the named assumptions of the modules: any capacity, depth and table size of at least
1, any id space larger than the ask table by two, any sets of actors, threads and descriptors, any
hash, any number of calls. Where a property
needs more, the theorem has the hypothesis (`ASSUME ... PROVE`), and TLC has a counterexample
without it:

| Hypothesis | Theorems | Meaning | Satisfied by run |
|---|---|---|---|
| `FirstRound` | `MessagesAreCorrelated`, `RepliesAreSingle`, `TimeoutsAreNotForgotten` | fewer asks than ids: less than 2^32 asks since startup | `ask_races` |
| `OneCaller` | all of DelayedSendProofs | one thread makes the delayed sends, stops and restarts of an actor | `delayed_send` |
| `Careful` | all of LifecycleProofs | the application's use of the control calls, see Lifecycle in section 2 | `lifecycle` |

In each module an inductive invariant is shown to hold initially and to be preserved, one lemma or
step per action; the properties follow from it. What it adds to the properties, and why:

* **PosixMailboxProofs.** `TypeOK /\ RingConsistent /\ NoLostWakeup`:
  the index arithmetic needs the types, and that a dequeue returns a message needs
  `RingConsistent`. `PosixMailboxRefines` shows the refinement of `Mailbox` step by
  step: `Send` is `Accept`, a dequeue is `Take`, a wait is `Idle`,
  and lemmas about `%` say what appending to or removing from the ring does to `Queued`.
* **AskReplyProofs.** `AtMostOneCallback` and the others are not inductive: that a callback runs
  once follows from an ask sitting in at most one slot, having had no callback while it is
  there, and serial numbers being fresh. That is `AskBookkeeping`. The invariant
  is `TypeOK`, `ReplyNamed` (a reply call in progress names an expected reply), and the
  conjunction of `AskBookkeeping`, `UniqueIds`, `AtMostOneCallback` and `CancelPreventsCallback`.
* **AskProtocolProofs.** `IdsNeverRunOut` is a counting argument: with a free slot fewer ids are pending
  than `alloc_ask_id` is willing to try, and its candidates differ because the id space is larger than
  the table. `CallInv` adds to the invariant of AskReplyProofs that slots and calls in progress agree with
  the asks they belong to (`Begun`, `Calls`: while an actor is inside `ipc_ask` no callback of that ask has
  run, because the actor would have had to run it itself), and that a failed ask is in no slot (`Errors`);
  `FailedAskIsSilent` needs both, since a timeout may be posted between the failed send and the undo.
  `RoundInv` adds, for the first round of ids, that the id of an ask determines the ask (`Ids`), that an
  ask open to replies has had none unless a dropped timeout reopened it (`Replies`), and that
  `timeout_queued` tells what the ask's own timer has done (`Timers`).
* **RoutingProofs.** `TablesInv`: entries carry the hash of their descriptor (`EntriesKeyed`), refusals
  keep ids apart (`EntriesUnique`), `handler_table` is made of the two other tables (`HandlersKnown`).
  `PublicationsInv`: the deliveries so far of a publication are those of the subscriptions before its
  position, and `rc` is the first result that was not 0. `DispatchIsByType` then rests on two handlers
  of one actor never sharing an id.
* **DelayedSendProofs.** `HelperInv` (what a helper has done, by where it is), `FieldsInv` (a helper that has
  not returned is the one that `delay_thread` and `delay_msg` are about) and `CallerInv` (a caller between
  its two locked sections has cancelled that helper, or the helper is past its wait). The last one is
  why the message of a cancelled helper is never late. `DelayImplementsSlot` is the refinement of `DelaySlot`.
* **LifecycleProofs.** `ControlInv` describes each stretch of a control call with what it has done to which
  actors, `RestInv` the actors when no call is under way, `Solo` that one call is under way at a
  time. None of them constrains the senders and helpers, which may do what they do at any moment. A thread
  that is alive finds its own mailbox and, after a successful startup, all later ones (lemma
  `MailboxIsThere`), because `ipc_run_all` joins in the order of the list. `Unpaired`, `FailInv` and
  `FaultInv` carry the hooks, the failures of supervised actors, and that no stop meets a destroyed mailbox.
* **ZephyrPortProofs.** `Flushing` (a caller in `k_work_flush` holds `delay_lock`, and the work it cancelled is
  not scheduled again), `DelayInv` (a handler about to send has its item running, which is what the flush
  waits for), `FreshCalls` (the ask or message of a call in progress is in no slot or entry yet), `PoolInv` (the used
  entries of the pool stand for the armed timeouts, one each, and are on their way), and `Starting`.
  `PortImplementsDelaySlot` is the refinement of `DelaySlot` for each actor; its property states no liveness.
* **TestPortProofs.** `RingInv` relates each ring to the abstract mailbox with the same arithmetic as on
  POSIX; `CopyIntact` is about the whole stack of activations; `NestInv` says that only a handler
  nests, and `IdleInv` that a round without progress has found the actors before its cursor idle, from
  which `ReturnIsIdle` follows.

Only model-checked: the liveness properties `StopEndsThread`, `TimedAskEnds`, `CallsReturn`,
`ShutdownEnds`, `TimeoutsExpire`, `StopAllEnds` and `RunReturns`, and the liveness half of the
refinements of `PosixMailbox` and `DelayedSend` (`AbstractSpec`). They rest on fairness, and fairness
on `ENABLED`, which the prover does not handle.

## 5. Not modelled

* Payload bytes and what FNV-1a computes: a message is an identity with a size and a hash.
* Publications that overlap a shutdown; `ipc_send_to` and handlers that do are in `Lifecycle`.
* Real time: a delay or timeout may end at any moment. `deadline_ms` is stored and never read by the code.
* The `-EMSGSIZE` branch of the port's `ipc_port_send_after` (`posix_ipc_port.c:305`): `ipc_send_after_raw` has
  tested the size before. Asks from the main thread on Zephyr (the example makes one): in `ZephyrPort` only
  actors ask; the main thread starts, stops and sends delayed messages.
* Memory models: each access under a lock or to an atomic is one step. `p->delay_thread`, read
  without its lock, is read at the moment of the join.
* Asks left in the table at shutdown: `AskReply` has running actors throughout. On POSIX the mailboxes
  are drained, so these are asks that nobody answers; they hold their slots there as well.
* Several starts on Zephyr, where `ipc_run_all` waits for nothing; sends before
  `ipc_start_all_actors` has returned, which `ipc.h` excludes; initialisation errors of statically
  declared actors, whose resources the macros provide. Kernel objects (mutexes, message queues,
  work items) are modelled as the code uses them, with priorities only in `UniProcessor`.
* The slot layout and alignment macros, FNV-1a, and the declaration macros: compile-time constants
  and static initialisers without behaviour of their own. `Hash` is an arbitrary function.
* The examples, the mock port, the tests and the build files: users and doubles of the framework.

## 6. Plan

All components with run-time behaviour are modelled, and every safety property of the passing runs is
proved; the liveness properties stay with TLC. What could still be added:

1. the theorems of LifecycleProofs that hold without `Careful`, or with less than it (`TypeOK` is one);
2. the refinement of `Mailbox` by the test port, whose ring is already related to a FIFO mailbox.
