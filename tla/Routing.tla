------------------------------ MODULE Routing ------------------------------
(***************************************************************************)
(* Registration and routing in src/src/ipc.c: the command routes           *)
(* (reg_table), the event subscriptions (sub_table), the handler bindings  *)
(* (handler_table), the message ids hashed from descriptor names, and the  *)
(* calls that use them: ipc_send, ipc_publish, ipc_send_to, the overflow   *)
(* policy and the dispatch of a message to its handler.                    *)
(*                                                                         *)
(* The tables are filled while the actors are stopped and read without a   *)
(* lock while they run.  Each delivery of a publication is an action of    *)
(* its own, so publications, sends and dispatches interleave.              *)
(***************************************************************************)
EXTENDS Integers, Sequences, Functions

CONSTANTS Actor,
          Thread,         \* threads that send
          Desc,           \* message descriptors, one per name
          NoDesc,
          Events,         \* the descriptors of kind IPC_EVENT; the others are IPC_CMD
          Hash,           \* _ipc_fnv1a of each descriptor's name
          Size,           \* payload size of each descriptor
          MaxPayload,     \* cfg.max_payload_size of each actor
          MaxRegistrations, MaxSubscriptions,   \* IPC_CORE_MAX_...
          QueueDepth,     \* cfg.queue_depth
          CounterSpace    \* 2^32 in the program

ASSUME DescAssumption == NoDesc \notin Desc /\ Events \subseteq Desc
\* A name that hashes to 0 would look uninitialised for ever.
ASSUME HashAssumption == Hash \in [Desc -> Nat \ {0}]
ASSUME SizesAssumption == Size \in [Desc -> Nat] /\ MaxPayload \in [Actor -> Nat]
ASSUME LimitAssumption == /\ MaxRegistrations \in Nat /\ MaxSubscriptions \in Nat
                          /\ QueueDepth \in Nat \ {0} /\ CounterSpace \in Nat \ {0}

VARIABLES reg_table, sub_table, handler_table,
          id,          \* .id of each descriptor, 0 until it is first used
          policy,      \* _mailbox_overflow_policy
          dropped,     \* _dropped_messages
          lifecycle,   \* "stopped", "running", or "aborted" when registration failed
          mailbox,     \* descriptors of the queued messages
          pub          \* the publication each thread is in, or its last one

tables == <<reg_table, sub_table, handler_table>>
vars == <<reg_table, sub_table, handler_table, id, policy, dropped, lifecycle, mailbox, pub>>

Entry == [desc : Desc, id : Nat, actor : Actor]
Result == {"ok", "DROPPED", "ENOMEM", "EMSGSIZE"}

\* Auxiliary: got, deliveries to each actor by this publication; met, the
\* results of its deliveries other than 0.
Publication == [desc : Desc \cup {NoDesc}, active : BOOLEAN, pos : Nat, rc : Result,
                got : [Actor -> Nat], met : SUBSET Result]
NoPublication == [desc |-> NoDesc, active |-> FALSE, pos |-> 0, rc |-> "ok",
                  got |-> [a \in Actor |-> 0], met |-> {}]

TypeOK == /\ reg_table \in Seq(Entry) /\ Len(reg_table) <= MaxRegistrations
          /\ sub_table \in Seq(Entry) /\ Len(sub_table) <= MaxSubscriptions
          /\ handler_table \in Seq(Entry)
          /\ id \in [Desc -> Nat] /\ \A d \in Desc : id[d] \in {0, Hash[d]}
          /\ policy \in [Actor -> {"fail", "drop"}]
          /\ dropped \in [Actor -> 0 .. CounterSpace - 1]
          /\ lifecycle \in {"stopped", "running", "aborted"}
          /\ mailbox \in [Actor -> Seq(Desc)]
          /\ pub \in [Thread -> Publication]

Init == /\ reg_table = <<>> /\ sub_table = <<>> /\ handler_table = <<>>
        /\ id = [d \in Desc |-> 0]
        /\ policy = [a \in Actor |-> "fail"]
        /\ dropped = [a \in Actor |-> 0]
        /\ lifecycle = "stopped"
        /\ mailbox = [a \in Actor |-> <<>>]
        /\ pub = [t \in Thread |-> NoPublication]

-----------------------------------------------------------------------------
(* Registration, while the actors are stopped (registration_closed) *)

\* Mutant of Collides: collisions go unnoticed.
CollidesNever(d) == FALSE

\* detect_id_collision: another name has this id, as a command or as an event.
Collides(d) == \E e \in Range(reg_table) \cup Range(sub_table) :
                 e.id = Hash[d] /\ e.desc # d

\* Mutants of Refused: the subscription table is one entry too long; an actor
\* may subscribe twice.
RefusedTooLate(a, d) ==
    \/ Collides(d)
    \/ d \notin Events /\ \E e \in Range(reg_table) : e.id = Hash[d]
    \/ d \notin Events /\ Len(reg_table) >= MaxRegistrations
    \/ d \in Events /\ \E e \in Range(sub_table) : e.id = Hash[d] /\ e.actor = a
    \/ d \in Events /\ Len(sub_table) > MaxSubscriptions
RefusedUnlessRepeated(a, d) ==
    \/ Collides(d)
    \/ d \notin Events /\ \E e \in Range(reg_table) : e.id = Hash[d]
    \/ d \notin Events /\ Len(reg_table) >= MaxRegistrations
    \/ d \in Events /\ Len(sub_table) >= MaxSubscriptions

\* register_cmd_unlocked or subscribe_event_unlocked returns an error.
Refused(a, d) ==
    \/ Collides(d)
    \/ d \notin Events /\ \/ \E e \in Range(reg_table) : e.id = Hash[d]
                          \/ Len(reg_table) >= MaxRegistrations
    \/ d \in Events /\ \/ \E e \in Range(sub_table) : e.id = Hash[d] /\ e.actor = a
                       \/ Len(sub_table) >= MaxSubscriptions

HandlerTableFull == Len(handler_table) >= MaxRegistrations + MaxSubscriptions

EnsureId(d) == id' = [id EXCEPT ![d] = Hash[d]]

\* Mutant of RegisterHandler: the handler is bound and the route is not added.
RegisterUnrouted(a, d) ==
    LET e == [desc |-> d, id |-> Hash[d], actor |-> a] IN
    /\ lifecycle = "stopped"
    /\ ~Refused(a, d) /\ ~HandlerTableFull
    /\ EnsureId(d)
    /\ handler_table' = Append(handler_table, e)
    /\ UNCHANGED <<reg_table, sub_table, policy, dropped, lifecycle, mailbox, pub>>

\* _ipc_actor_register_handler_static
RegisterHandler(a, d) ==
    LET e == [desc |-> d, id |-> Hash[d], actor |-> a] IN
    /\ lifecycle = "stopped"
    /\ ~Refused(a, d) /\ ~HandlerTableFull
    /\ EnsureId(d)
    /\ \/ d \notin Events /\ reg_table' = Append(reg_table, e) /\ UNCHANGED sub_table
       \/ d \in Events /\ sub_table' = Append(sub_table, e) /\ UNCHANGED reg_table
    /\ handler_table' = Append(handler_table, e)
    /\ UNCHANGED <<policy, dropped, lifecycle, mailbox, pub>>

\* A refused registration ends the process.
RegistrationAborts(a, d) ==
    /\ lifecycle = "stopped"
    /\ Refused(a, d) \/ HandlerTableFull
    /\ lifecycle' = "aborted"
    /\ UNCHANGED <<tables, id, policy, dropped, mailbox, pub>>

SetOverflowPolicy(a, p) ==
    /\ lifecycle = "stopped"
    /\ policy' = [policy EXCEPT ![a] = p]
    /\ UNCHANGED <<tables, id, dropped, lifecycle, mailbox, pub>>

Start == /\ lifecycle = "stopped"
         /\ lifecycle' = "running"
         /\ UNCHANGED <<tables, id, policy, dropped, mailbox, pub>>

\* ipc_stop_all and ipc_run_all, when nobody sends any more: the mailboxes are
\* drained and freed.
Stop == /\ lifecycle = "running"
        /\ \A t \in Thread : ~pub[t].active
        /\ lifecycle' = "stopped"
        /\ mailbox' = [a \in Actor |-> <<>>]
        /\ pub' = [t \in Thread |-> NoPublication]
        /\ UNCHANGED <<tables, id, policy, dropped>>

-----------------------------------------------------------------------------
(* Delivery to one actor *)

\* The size check, ipc_port_send and apply_mailbox_overflow_policy.
Delivery(a, d) == IF Size[d] > MaxPayload[a] THEN "EMSGSIZE"
                  ELSE IF Len(mailbox[a]) < QueueDepth THEN "ok"
                  ELSE IF policy[a] = "drop" THEN "DROPPED" ELSE "ENOMEM"

Deliver(a, d) ==
    /\ mailbox' = [mailbox EXCEPT ![a] = IF Delivery(a, d) = "ok" THEN Append(@, d) ELSE @]
    /\ dropped' = [dropped EXCEPT ![a] = IF Delivery(a, d) = "DROPPED"
                                         THEN (@ + 1) % CounterSpace ELSE @]

\* find_registered(Hash[d]) returns a.
Route(d, a) == \E i \in 1 .. Len(reg_table) :
                 /\ reg_table[i].id = Hash[d] /\ reg_table[i].actor = a
                 /\ \A j \in 1 .. i - 1 : reg_table[j].id # Hash[d]

\* ipc_send_raw.  With no route it returns -ENOENT, the id initialised.
Send(t, d) ==
    /\ lifecycle = "running"
    /\ ~pub[t].active
    /\ d \notin Events
    /\ EnsureId(d)
    /\ \/ \E a \in Actor : Route(d, a) /\ Deliver(a, d)
       \/ (\A a \in Actor : ~Route(d, a)) /\ UNCHANGED <<mailbox, dropped>>
    /\ UNCHANGED <<tables, policy, lifecycle, pub>>

\* ipc_send_to_raw.  It does not initialise the id and refuses the id 0.
SendTo(t, a, d) ==
    /\ lifecycle = "running"
    /\ ~pub[t].active
    /\ id[d] # 0
    /\ Deliver(a, d)
    /\ UNCHANGED <<tables, id, policy, lifecycle, pub>>

-----------------------------------------------------------------------------
(* ipc_publish_raw and publish_prepared_msg *)

PublishBegin(t, d) ==
    /\ lifecycle = "running"
    /\ ~pub[t].active
    /\ d \in Events
    /\ EnsureId(d)
    /\ pub' = [pub EXCEPT ![t] = [NoPublication EXCEPT !.desc = d, !.active = TRUE]]
    /\ UNCHANGED <<tables, policy, dropped, lifecycle, mailbox>>

\* i is the next entry of sub_table for the event that thread t publishes.
NextSubscription(t, i) ==
    /\ i > pub[t].pos /\ sub_table[i].id = Hash[pub[t].desc]
    /\ \A j \in pub[t].pos + 1 .. i - 1 : sub_table[j].id # Hash[pub[t].desc]

\* Mutant of FirstResult: the last result counts.
LastResult(old, new) == new

\* The first result other than 0 is kept.
FirstResult(old, new) == IF old = "ok" THEN new ELSE old

PublishTo(t) == LET p == pub[t] IN
    /\ p.active
    /\ \E i \in 1 .. Len(sub_table) :
          LET a == sub_table[i].actor
              rc == Delivery(a, p.desc)
          IN  /\ NextSubscription(t, i)
              /\ Deliver(a, p.desc)
              /\ pub' = [pub EXCEPT ![t] =
                   [desc |-> p.desc, active |-> TRUE, pos |-> i,
                    rc |-> FirstResult(p.rc, rc),
                    got |-> [p.got EXCEPT ![a] = IF rc = "ok" THEN @ + 1 ELSE @],
                    met |-> p.met \cup ({rc} \ {"ok"})]]
    /\ UNCHANGED <<tables, id, policy, lifecycle>>

PublishReturn(t) ==
    /\ pub[t].active
    /\ \A i \in 1 .. Len(sub_table) : ~NextSubscription(t, i)
    /\ pub' = [pub EXCEPT ![t].active = FALSE]
    /\ UNCHANGED <<tables, id, policy, dropped, lifecycle, mailbox>>

-----------------------------------------------------------------------------

\* The binding that ipc_dispatch_actor_handlers picks for message d at actor a.
Binding(a, d, i) ==
    /\ handler_table[i].actor = a /\ handler_table[i].id = Hash[d]
    /\ \A j \in 1 .. i - 1 : ~(handler_table[j].actor = a /\ handler_table[j].id = Hash[d])

\* The thread of a takes a message and dispatches it.
Dispatch(a) == /\ lifecycle = "running"
               /\ mailbox[a] # <<>>
               /\ mailbox' = [mailbox EXCEPT ![a] = Tail(@)]
               /\ UNCHANGED <<tables, id, policy, dropped, lifecycle, pub>>

Next == \/ \E a \in Actor, d \in Desc : RegisterHandler(a, d)
        \/ \E a \in Actor, d \in Desc : RegistrationAborts(a, d)
        \/ \E a \in Actor, p \in {"fail", "drop"} : SetOverflowPolicy(a, p)
        \/ Start
        \/ Stop
        \/ \E t \in Thread, d \in Desc : Send(t, d)
        \/ \E t \in Thread, a \in Actor, d \in Desc : SendTo(t, a, d)
        \/ \E t \in Thread, d \in Desc : PublishBegin(t, d)
        \/ \E t \in Thread : PublishTo(t)
        \/ \E t \in Thread : PublishReturn(t)
        \/ \E a \in Actor : Dispatch(a)

Spec == Init /\ [][Next]_vars

-----------------------------------------------------------------------------
(* Properties *)

\* What the application declared: actor a handles d (IPC_ACTOR_HANDLE).
Handles(a, d) == \E e \in Range(handler_table) : e.actor = a /\ e.desc = d

\* No handler is left "with no command route" (ipc.c:405): a command goes to
\* the one actor that handles it, and the second abort of registration, for a
\* full handler_table, is never the reason that a registration fails.
HandlersRouted ==
    /\ \A a \in Actor, d \in Desc \ Events : Handles(a, d) => Route(d, a)
    /\ Len(handler_table) = Len(reg_table) + Len(sub_table)

\* A queued message that its actor handles is dispatched to the handler of
\* its own type, although dispatch only compares hashed ids.
DispatchMatches ==
    \A a \in Actor : \A d \in Range(mailbox[a]) : Handles(a, d) =>
        \A i \in 1 .. Len(handler_table) : Binding(a, d, i) => handler_table[i].desc = d

\* A publication of an event that somebody handles returns 0 exactly when every
\* actor that handles the event has received it, whatever fills and empties the
\* mailboxes meanwhile; and nobody receives one publication twice.  When a
\* delivery met an error, the result is an error (ipc.h:556), unless a delivery
\* to an actor with the drop policy was dropped: its +1 may hide the error.
PublishHonest ==
    \A t \in Thread :
        LET p == pub[t]
            subscribers == {a \in Actor : Handles(a, p.desc)}
        IN  /\ \A a \in Actor : p.got[a] <= 1
            /\ (~p.active /\ p.desc # NoDesc /\ subscribers # {}) =>
                 (p.rc = "ok" <=> \A a \in subscribers : p.got[a] = 1)
            /\ (p.met # {} /\ "DROPPED" \notin p.met) => p.rc \in p.met
=============================================================================
