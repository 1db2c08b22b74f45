--------------------------- MODULE RoutingProofs ---------------------------
(***************************************************************************)
(* Proofs about registration, routing and publication, for every set of    *)
(* actors, threads and descriptors, every hash function and all table      *)
(* sizes.                                                                  *)
(***************************************************************************)
EXTENDS Routing, WellFoundedInduction, TLAPS

-----------------------------------------------------------------------------
(* The inductive invariant *)

\* An entry carries the hash of its descriptor; commands are in reg_table and
\* events in sub_table.
EntriesKeyed ==
    /\ \A i \in 1 .. Len(reg_table) :
          reg_table[i].desc \notin Events /\ reg_table[i].id = Hash[reg_table[i].desc]
    /\ \A i \in 1 .. Len(sub_table) :
          sub_table[i].desc \in Events /\ sub_table[i].id = Hash[sub_table[i].desc]

\* What the refusals keep out: two routes of one id, two subscriptions of one
\* actor to one id, and two names of one id.
EntriesUnique ==
    /\ \A i, j \in 1 .. Len(reg_table) : reg_table[i].id = reg_table[j].id => i = j
    /\ \A i, j \in 1 .. Len(sub_table) :
          sub_table[i].id = sub_table[j].id /\ sub_table[i].actor = sub_table[j].actor => i = j
    /\ \A i, j \in 1 .. Len(sub_table) :
          sub_table[i].id = sub_table[j].id => sub_table[i].desc = sub_table[j].desc
    /\ \A i \in 1 .. Len(reg_table), j \in 1 .. Len(sub_table) :
          reg_table[i].id # sub_table[j].id

\* handler_table holds the entries of the two other tables.
HandlersKnown ==
    /\ Len(handler_table) = Len(reg_table) + Len(sub_table)
    /\ \A i \in 1 .. Len(handler_table) :
          \/ \E j \in 1 .. Len(reg_table) : handler_table[i] = reg_table[j]
          \/ \E j \in 1 .. Len(sub_table) : handler_table[i] = sub_table[j]
    /\ \A j \in 1 .. Len(sub_table) :
          \E i \in 1 .. Len(handler_table) : handler_table[i] = sub_table[j]

TablesInv == EntriesKeyed /\ EntriesUnique /\ HandlersKnown

\* Entry i is a subscription to the event of publication p.
Subscribed(p, i) == sub_table[i].id = Hash[p.desc]

\* A publication under way or over has served the subscriptions up to pos: an
\* actor was sent the event only by an entry among them, all of them if no
\* delivery failed, and one of them was left out if some delivery did.
Faithful(p) ==
    /\ p.desc \in Events
    /\ p.pos \in 0 .. Len(sub_table)
    /\ \A a \in Actor : /\ p.got[a] \in {0, 1}
                        /\ p.got[a] = 1 => \E i \in 1 .. p.pos : Subscribed(p, i) /\ sub_table[i].actor = a
    /\ "ok" \notin p.met
    /\ IF p.met = {}
       THEN /\ p.rc = "ok"
            /\ \A i \in 1 .. p.pos : Subscribed(p, i) => p.got[sub_table[i].actor] = 1
       ELSE /\ p.rc \in p.met
            /\ \E i \in 1 .. p.pos : Subscribed(p, i) /\ p.got[sub_table[i].actor] = 0
    /\ ~p.active => \A i \in p.pos + 1 .. Len(sub_table) : ~Subscribed(p, i)

\* Publications exist only while the tables are closed.
PublicationsInv ==
    \A t \in Thread : \/ pub[t] = NoPublication
                      \/ lifecycle = "running" /\ Faithful(pub[t])

Inv == TypeOK /\ TablesInv /\ PublicationsInv

-----------------------------------------------------------------------------
(* Lemmas on the operators of the model *)

\* The set of entries of a table, by position.
LEMMA InRange == ASSUME NEW s \in Seq(Entry), NEW e
                 PROVE  e \in Range(s) <=> \E i \in 1 .. Len(s) : s[i] = e
  BY DEF Range

\* A non-empty set of positions has a first one.
LEMMA First == ASSUME NEW S \in SUBSET Nat, S # {}
               PROVE  \E i \in S : \A j \in S : i <= j
  <1>1. PICK i \in S : \A j \in S : ~(<<j, i>> \in OpToRel(<, Nat))
    BY WFMin, NatLessThanWellFounded
  <1>2. ASSUME NEW j \in S
        PROVE  i <= j
    <2>1. ~(j < i)
      BY <1>1, Zenon DEF OpToRel
    <2> QED
      BY <2>1
  <1> QED
    BY <1>2

\* The walk of publish_prepared_msg ends only behind the last subscription.
LEMMA NoneLeft ==
    ASSUME TypeOK, NEW t \in Thread, \A i \in 1 .. Len(sub_table) : ~NextSubscription(t, i)
    PROVE  \A i \in pub[t].pos + 1 .. Len(sub_table) : ~Subscribed(pub[t], i)
  <1> DEFINE S == {i \in pub[t].pos + 1 .. Len(sub_table) : Subscribed(pub[t], i)}
  <1>1. pub[t].pos \in Nat /\ Len(sub_table) \in Nat
    BY DEF TypeOK, Publication
  <1>2. ASSUME S # {}
        PROVE  FALSE
    <2>1. S \in SUBSET Nat
      BY <1>1
    <2>2. PICK i \in S : \A j \in S : i <= j
      BY <1>2, <2>1, First
    <2>3. i \in 1 .. Len(sub_table) /\ i > pub[t].pos /\ Subscribed(pub[t], i)
      BY <1>1, <2>2
    <2>4. ASSUME NEW j \in pub[t].pos + 1 .. i - 1
          PROVE  ~Subscribed(pub[t], j)
      <3>1. j \in Int /\ j < i /\ j \in pub[t].pos + 1 .. Len(sub_table)
        BY <1>1, <2>3
      <3>2. j \notin S
        BY <2>2, <3>1, <2>3
      <3> QED
        BY <3>1, <3>2
    <2>5. NextSubscription(t, i)
      BY <2>3, <2>4 DEF NextSubscription, Subscribed
    <2> QED
      BY <2>3, <2>5
  <1> QED
    BY <1>2

\* A delivery has one of the results of ipc_port_send, and leaves the mailboxes
\* and the counters of dropped messages what they are.
LEMMA DeliverType ==
    ASSUME TypeOK, NEW a \in Actor, NEW d \in Desc, Deliver(a, d)
    PROVE  /\ Delivery(a, d) \in Result
           /\ mailbox' \in [Actor -> Seq(Desc)]
           /\ dropped' \in [Actor -> 0 .. CounterSpace - 1]
  <1>1. Delivery(a, d) \in Result
    BY DEF Delivery, Result
  <1>2. mailbox' \in [Actor -> Seq(Desc)]
    BY DEF TypeOK, Deliver
  <1>3. (dropped[a] + 1) % CounterSpace \in 0 .. CounterSpace - 1
    BY LimitAssumption DEF TypeOK
  <1>4. dropped' \in [Actor -> 0 .. CounterSpace - 1]
    BY <1>3 DEF TypeOK, Deliver
  <1> QED
    BY <1>1, <1>2, <1>4

LEMMA EnsureIdType == ASSUME TypeOK, NEW d \in Desc, EnsureId(d)
                      PROVE  id' \in [Desc -> Nat] /\ \A e \in Desc : id'[e] \in {0, Hash[e]}
  BY HashAssumption DEF TypeOK, EnsureId

LEMMA NoPublicationType == NoPublication \in Publication
  BY DEF NoPublication, Publication, Result

-----------------------------------------------------------------------------
(* Type correctness *)


\* Registration of a handler
LEMMA RegisterType == ASSUME TypeOK, NEW a \in Actor, NEW d \in Desc, RegisterHandler(a, d)
                      PROVE  TypeOK'
  <1> DEFINE e == [desc |-> d, id |-> Hash[d], actor |-> a]
  <1>1. e \in Entry
    BY HashAssumption DEF Entry
  <1>2. id' \in [Desc -> Nat] /\ \A f \in Desc : id'[f] \in {0, Hash[f]}
    BY EnsureIdType DEF RegisterHandler
  <1>3. /\ reg_table \in Seq(Entry) /\ sub_table \in Seq(Entry) /\ handler_table \in Seq(Entry)
        /\ Len(reg_table) <= MaxRegistrations /\ Len(sub_table) <= MaxSubscriptions
    BY DEF TypeOK
  <1>4. reg_table' \in Seq(Entry) /\ Len(reg_table') <= MaxRegistrations
    <2>1. CASE d \in Events
      BY <2>1, <1>3 DEF RegisterHandler
    <2>2. CASE d \notin Events
      <3>1. reg_table' = Append(reg_table, e) /\ ~(Len(reg_table) >= MaxRegistrations)
        BY <2>2 DEF RegisterHandler, Refused
      <3> QED
        BY <1>1, <1>3, <3>1, LimitAssumption
    <2> QED
      BY <2>1, <2>2
  <1>5. sub_table' \in Seq(Entry) /\ Len(sub_table') <= MaxSubscriptions
    <2>1. CASE d \notin Events
      BY <2>1, <1>3 DEF RegisterHandler
    <2>2. CASE d \in Events
      <3>1. sub_table' = Append(sub_table, e) /\ ~(Len(sub_table) >= MaxSubscriptions)
        BY <2>2 DEF RegisterHandler, Refused
      <3> QED
        BY <1>1, <1>3, <3>1, LimitAssumption
    <2> QED
      BY <2>1, <2>2
  <1>6. handler_table' \in Seq(Entry)
    BY <1>1, <1>3 DEF RegisterHandler
  <1> QED
    BY <1>2, <1>4, <1>5, <1>6 DEF TypeOK, RegisterHandler

\* The record that PublishTo leaves behind is a publication.
LEMMA PublishToType == ASSUME TypeOK, NEW t \in Thread, pub[t].desc \in Desc, PublishTo(t)
                       PROVE  TypeOK'
  <1> DEFINE p == pub[t]
  <1>1. PICK i \in 1 .. Len(sub_table) :
          LET a == sub_table[i].actor
              rc == Delivery(a, p.desc)
          IN  /\ Deliver(a, p.desc)
              /\ pub' = [pub EXCEPT ![t] =
                   [desc |-> p.desc, active |-> TRUE, pos |-> i,
                    rc |-> FirstResult(p.rc, rc),
                    got |-> [p.got EXCEPT ![a] = IF rc = "ok" THEN @ + 1 ELSE @],
                    met |-> p.met \cup ({rc} \ {"ok"})]]
    BY DEF PublishTo
  <1> DEFINE a == sub_table[i].actor
             rc == Delivery(a, p.desc)
             q == [desc |-> p.desc, active |-> TRUE, pos |-> i,
                   rc |-> FirstResult(p.rc, rc),
                   got |-> [p.got EXCEPT ![a] = IF rc = "ok" THEN @ + 1 ELSE @],
                   met |-> p.met \cup ({rc} \ {"ok"})]
  <1>2. p \in Publication /\ a \in Actor
    <2>1. sub_table[i] \in Entry /\ p \in Publication
      BY DEF TypeOK
    <2> QED
      BY <2>1 DEF Entry
  <1>3. /\ rc \in Result
        /\ mailbox' \in [Actor -> Seq(Desc)]
        /\ dropped' \in [Actor -> 0 .. CounterSpace - 1]
    BY <1>1, <1>2, DeliverType
  <1> HIDE DEF rc, a
  <1>4. FirstResult(p.rc, rc) \in Result
    BY <1>2, <1>3 DEF FirstResult, Publication
  <1>5. [p.got EXCEPT ![a] = IF rc = "ok" THEN @ + 1 ELSE @] \in [Actor -> Nat]
    BY <1>2 DEF Publication
  <1>6. q \in Publication
    BY <1>2, <1>3, <1>4, <1>5 DEF Publication
  <1>7. pub' = [pub EXCEPT ![t] = q]
    BY <1>1 DEF rc, a
  <1>8. pub' \in [Thread -> Publication]
    BY <1>6, <1>7 DEF TypeOK
  <1> QED
    BY <1>3, <1>8 DEF TypeOK, PublishTo, tables

\* Every step
LEMMA TypeStep == ASSUME TypeOK, PublicationsInv, [Next]_vars
                  PROVE  TypeOK'
  <1>1. CASE \E a \in Actor, d \in Desc : RegisterHandler(a, d)
    BY <1>1, RegisterType
  <1>2. CASE \E a \in Actor, d \in Desc : RegistrationAborts(a, d)
    BY <1>2 DEF TypeOK, RegistrationAborts, tables
  <1>3. CASE \E a \in Actor, p \in {"fail", "drop"} : SetOverflowPolicy(a, p)
    BY <1>3 DEF TypeOK, SetOverflowPolicy, tables
  <1>4. CASE Start
    BY <1>4 DEF TypeOK, Start, tables
  <1>5. CASE Stop
    BY <1>5, NoPublicationType DEF TypeOK, Stop, tables
  <1>6. CASE \E t \in Thread, d \in Desc : Send(t, d)
    BY <1>6, DeliverType, EnsureIdType DEF TypeOK, Send, tables
  <1>7. CASE \E t \in Thread, a \in Actor, d \in Desc : SendTo(t, a, d)
    BY <1>7, DeliverType DEF TypeOK, SendTo, tables
  <1>8. ASSUME NEW t \in Thread, NEW d \in Desc, PublishBegin(t, d)
        PROVE  TypeOK'
    <2>1. [NoPublication EXCEPT !.desc = d, !.active = TRUE] \in Publication
      BY DEF NoPublication, Publication, Result
    <2>2. pub' \in [Thread -> Publication]
      BY <1>8, <2>1 DEF TypeOK, PublishBegin
    <2> QED
      BY <1>8, <2>2, EnsureIdType DEF TypeOK, PublishBegin, tables
  <1>9. ASSUME NEW t \in Thread, PublishTo(t)
        PROVE  TypeOK'
    <2>1. pub[t].desc \in Desc
      BY <1>9, DescAssumption DEF PublicationsInv, PublishTo, NoPublication, Faithful
    <2> QED
      BY <1>9, <2>1, PublishToType
  <1>10. ASSUME NEW t \in Thread, PublishReturn(t)
         PROVE  TypeOK'
    <2>1. pub[t] \in Publication
      BY DEF TypeOK
    <2>2. [pub[t] EXCEPT !.active = FALSE] \in Publication
      BY <2>1 DEF Publication
    <2>3. pub' \in [Thread -> Publication]
      BY <1>10, <2>2 DEF TypeOK, PublishReturn
    <2> QED
      BY <1>10, <2>3 DEF TypeOK, PublishReturn, tables
  <1>11. CASE \E a \in Actor : Dispatch(a)
    BY <1>11 DEF TypeOK, Dispatch, tables
  <1>12. CASE UNCHANGED vars
    BY <1>12 DEF TypeOK, vars
  <1> QED
    BY <1>1, <1>2, <1>3, <1>4, <1>5, <1>6, <1>7, <1>8, <1>9, <1>10, <1>11, <1>12 DEF Next

-----------------------------------------------------------------------------
(* The tables *)

\* A registration that is not refused adds an entry unlike all others.
LEMMA RegisterTables ==
    ASSUME TypeOK, TablesInv, NEW a \in Actor, NEW d \in Desc, RegisterHandler(a, d)
    PROVE  TablesInv'
  <1> DEFINE e == [desc |-> d, id |-> Hash[d], actor |-> a]
  <1>1. /\ reg_table \in Seq(Entry) /\ sub_table \in Seq(Entry) /\ handler_table \in Seq(Entry)
        /\ e \in Entry
    BY HashAssumption DEF TypeOK, Entry
  <1>2. \A i \in 1 .. Len(reg_table) : reg_table[i].id = Hash[d] => reg_table[i].desc = d
    BY <1>1, InRange DEF RegisterHandler, Refused, Collides
  <1>3. \A i \in 1 .. Len(sub_table) : sub_table[i].id = Hash[d] => sub_table[i].desc = d
    BY <1>1, InRange DEF RegisterHandler, Refused, Collides
  <1>4. handler_table' = Append(handler_table, e)
    BY DEF RegisterHandler
  <1>5. /\ Len(handler_table') = Len(handler_table) + 1
        /\ \A i \in 1 .. Len(handler_table) : handler_table'[i] = handler_table[i]
        /\ handler_table'[Len(handler_table) + 1] = e
    BY <1>1, <1>4
  <1>e. e.desc = d /\ e.id = Hash[d] /\ e.actor = a
    OBVIOUS
  <1> HIDE DEF e
  <1>6. CASE d \notin Events
    <2>1. reg_table' = Append(reg_table, e) /\ sub_table' = sub_table
      BY <1>6 DEF RegisterHandler, e
    <2>2. \A i \in 1 .. Len(reg_table) : reg_table[i].id # Hash[d]
      BY <1>1, <1>6, InRange DEF RegisterHandler, Refused
    <2>3. /\ Len(reg_table') = Len(reg_table) + 1
          /\ \A i \in 1 .. Len(reg_table) : reg_table'[i] = reg_table[i]
          /\ reg_table'[Len(reg_table) + 1] = e
      BY <1>1, <2>1
    <2>4. Len(reg_table) \in Nat /\ Len(sub_table) \in Nat /\ Len(handler_table) \in Nat
      BY <1>1
    <2>5. EntriesKeyed'
      BY <1>6, <1>e, <2>1, <2>3, <2>4 DEF TablesInv, EntriesKeyed
    <2>6. \A j \in 1 .. Len(sub_table) : sub_table[j].id # Hash[d]
      BY <1>3, <1>6 DEF TablesInv, EntriesKeyed
    <2>7. EntriesUnique'
      BY <1>e, <2>1, <2>2, <2>3, <2>4, <2>6 DEF TablesInv, EntriesUnique
    <2>8. HandlersKnown'
      <3>1. \A i \in 1 .. Len(handler_table') :
              i = Len(handler_table) + 1 \/ i \in 1 .. Len(handler_table)
        BY <1>5, <2>4
      <3>2. ASSUME NEW i \in 1 .. Len(handler_table')
            PROVE  \/ \E j \in 1 .. Len(reg_table') : handler_table'[i] = reg_table'[j]
                   \/ \E j \in 1 .. Len(sub_table') : handler_table'[i] = sub_table'[j]
        <4>1. CASE i = Len(handler_table) + 1
          <5>1. Len(reg_table) + 1 \in 1 .. Len(reg_table')
            BY <2>3, <2>4
          <5> QED
            BY <1>5, <2>3, <4>1, <5>1
        <4>2. CASE i \in 1 .. Len(handler_table)
          <5>1. handler_table'[i] = handler_table[i]
            BY <1>5, <4>2
          <5>2. CASE \E j \in 1 .. Len(reg_table) : handler_table[i] = reg_table[j]
            BY <2>1, <2>3, <2>4, <5>1, <5>2
          <5>3. CASE \E j \in 1 .. Len(sub_table) : handler_table[i] = sub_table[j]
            BY <2>1, <2>3, <2>4, <5>1, <5>3
          <5> QED
            BY <4>2, <5>2, <5>3 DEF TablesInv, HandlersKnown
        <4> QED
          BY <3>1, <4>1, <4>2
      <3>3. ASSUME NEW j \in 1 .. Len(sub_table')
            PROVE  \E i \in 1 .. Len(handler_table') : handler_table'[i] = sub_table'[j]
        BY <1>5, <2>1, <2>4 DEF TablesInv, HandlersKnown
      <3>4. Len(handler_table) = Len(reg_table) + Len(sub_table)
        BY DEF TablesInv, HandlersKnown
      <3>5. Len(handler_table') = Len(reg_table') + Len(sub_table')
        BY <1>5, <2>1, <2>3, <2>4, <3>4
      <3> QED
        BY <3>2, <3>3, <3>5 DEF HandlersKnown
    <2> QED
      BY <2>5, <2>7, <2>8 DEF TablesInv
  <1>7. CASE d \in Events
    <2>1. sub_table' = Append(sub_table, e) /\ reg_table' = reg_table
      BY <1>7 DEF RegisterHandler, e
    <2>2. \A i \in 1 .. Len(sub_table) : ~(sub_table[i].id = Hash[d] /\ sub_table[i].actor = a)
      BY <1>1, <1>7, InRange DEF RegisterHandler, Refused
    <2>3. /\ Len(sub_table') = Len(sub_table) + 1
          /\ \A i \in 1 .. Len(sub_table) : sub_table'[i] = sub_table[i]
          /\ sub_table'[Len(sub_table) + 1] = e
      BY <1>1, <2>1
    <2>4. Len(reg_table) \in Nat /\ Len(sub_table) \in Nat /\ Len(handler_table) \in Nat
      BY <1>1
    <2>5. EntriesKeyed'
      BY <1>7, <1>e, <2>1, <2>3, <2>4 DEF TablesInv, EntriesKeyed
    <2>6. \A i \in 1 .. Len(reg_table) : reg_table[i].id # Hash[d]
      BY <1>2, <1>7 DEF TablesInv, EntriesKeyed
    <2>7. EntriesUnique'
      <3> DEFINE new == Len(sub_table) + 1
      <3>1. \A i \in 1 .. new : i # new => i \in 1 .. Len(sub_table)
        BY <2>4
      <3>2. \A i \in 1 .. new : i # new =>
              /\ sub_table'[i] = sub_table[i]
              /\ ~(sub_table[i].id = Hash[d] /\ sub_table[i].actor = a)
              /\ sub_table[i].id = Hash[d] => sub_table[i].desc = d
        BY <3>1, <1>3, <2>2, <2>3
      <3>3. sub_table'[new].id = Hash[d] /\ sub_table'[new].actor = a /\ sub_table'[new].desc = d
            /\ Len(sub_table') = new
        BY <1>e, <2>3
      <3> HIDE DEF new
      <3>4. \A i, j \in 1 .. new : sub_table'[i].id = sub_table'[j].id
              /\ sub_table'[i].actor = sub_table'[j].actor => i = j
        BY <3>1, <3>2, <3>3 DEF TablesInv, EntriesUnique
      <3>5. \A i, j \in 1 .. new : sub_table'[i].id = sub_table'[j].id
              => sub_table'[i].desc = sub_table'[j].desc
        BY <3>1, <3>2, <3>3 DEF TablesInv, EntriesUnique
      <3>6. \A i \in 1 .. Len(reg_table), j \in 1 .. new : reg_table[i].id # sub_table'[j].id
        BY <3>1, <3>2, <3>3, <2>6 DEF TablesInv, EntriesUnique
      <3> QED
        BY <3>3, <3>4, <3>5, <3>6, <2>1 DEF TablesInv, EntriesUnique
    <2>8. HandlersKnown'
      <3>1. \A i \in 1 .. Len(handler_table') :
              i = Len(handler_table) + 1 \/ i \in 1 .. Len(handler_table)
        BY <1>5, <2>4
      <3>2. ASSUME NEW i \in 1 .. Len(handler_table')
            PROVE  \/ \E j \in 1 .. Len(reg_table') : handler_table'[i] = reg_table'[j]
                   \/ \E j \in 1 .. Len(sub_table') : handler_table'[i] = sub_table'[j]
        <4>1. CASE i = Len(handler_table) + 1
          <5>1. Len(sub_table) + 1 \in 1 .. Len(sub_table')
            BY <2>3, <2>4
          <5> QED
            BY <1>5, <2>3, <4>1, <5>1
        <4>2. CASE i \in 1 .. Len(handler_table)
          <5>1. handler_table'[i] = handler_table[i]
            BY <1>5, <4>2
          <5>2. CASE \E j \in 1 .. Len(reg_table) : handler_table[i] = reg_table[j]
            BY <2>1, <2>3, <2>4, <5>1, <5>2
          <5>3. CASE \E j \in 1 .. Len(sub_table) : handler_table[i] = sub_table[j]
            BY <2>1, <2>3, <2>4, <5>1, <5>3
          <5> QED
            BY <4>2, <5>2, <5>3 DEF TablesInv, HandlersKnown
        <4> QED
          BY <3>1, <4>1, <4>2
      <3>3. ASSUME NEW j \in 1 .. Len(sub_table')
            PROVE  \E i \in 1 .. Len(handler_table') : handler_table'[i] = sub_table'[j]
        <4>1. CASE j = Len(sub_table) + 1
          <5>1. Len(handler_table) + 1 \in 1 .. Len(handler_table')
            BY <1>5, <2>4
          <5> QED
            BY <1>5, <2>3, <4>1, <5>1
        <4>2. CASE j \in 1 .. Len(sub_table)
          <5>1. PICK i \in 1 .. Len(handler_table) : handler_table[i] = sub_table[j]
            BY <4>2 DEF TablesInv, HandlersKnown
          <5> QED
            BY <1>5, <2>3, <2>4, <4>2, <5>1
        <4> QED
          BY <2>3, <2>4, <4>1, <4>2
      <3>4. Len(handler_table) = Len(reg_table) + Len(sub_table)
        BY DEF TablesInv, HandlersKnown
      <3>5. Len(handler_table') = Len(reg_table') + Len(sub_table')
        BY <1>5, <2>1, <2>3, <2>4, <3>4
      <3> QED
        BY <3>2, <3>3, <3>5 DEF HandlersKnown
    <2> QED
      BY <2>5, <2>7, <2>8 DEF TablesInv
  <1> QED
    BY <1>6, <1>7

\* No other action changes a table.
LEMMA TablesStep == ASSUME TypeOK, TablesInv, [Next]_vars
                    PROVE  TablesInv'
  <1>1. CASE \E a \in Actor, d \in Desc : RegisterHandler(a, d)
    BY <1>1, RegisterTables
  <1>2. CASE UNCHANGED tables
    <2>1. reg_table' = reg_table /\ sub_table' = sub_table /\ handler_table' = handler_table
      BY <1>2 DEF tables
    <2>2. EntriesKeyed'
      BY <2>1 DEF TablesInv, EntriesKeyed
    <2>3. EntriesUnique'
      BY <2>1 DEF TablesInv, EntriesUnique
    <2>4. HandlersKnown'
      BY <2>1 DEF TablesInv, HandlersKnown
    <2> QED
      BY <2>2, <2>3, <2>4 DEF TablesInv
  <1>3. [Next]_vars => UNCHANGED tables \/ \E a \in Actor, d \in Desc : RegisterHandler(a, d)
    BY DEF Next, vars, tables, RegistrationAborts, SetOverflowPolicy, Start, Stop, Send,
           SendTo, PublishBegin, PublishTo, PublishReturn, Dispatch
  <1> QED
    BY <1>1, <1>2, <1>3

-----------------------------------------------------------------------------
(* Publications *)

\* The first subscription to an event is not yet served.
LEMMA PublishBeginFaithful ==
    ASSUME TypeOK, PublicationsInv, NEW t \in Thread, NEW d \in Desc, PublishBegin(t, d)
    PROVE  PublicationsInv'
  <1> DEFINE q == [NoPublication EXCEPT !.desc = d, !.active = TRUE]
  <1>1. /\ lifecycle' = "running" /\ lifecycle = "running" /\ sub_table' = sub_table
        /\ d \in Events /\ pub' = [pub EXCEPT ![t] = q] /\ pub \in [Thread -> Publication]
    BY DEF TypeOK, PublishBegin, tables
  <1>2. /\ q.desc = d /\ q.active = TRUE /\ q.pos = 0 /\ q.rc = "ok"
        /\ q.got = [a \in Actor |-> 0] /\ q.met = {}
    BY DEF NoPublication
  <1> HIDE DEF q
  <1>3. Len(sub_table) \in Nat
    BY DEF TypeOK
  <1>4. Faithful(q)'
    BY <1>1, <1>2, <1>3 DEF Faithful
  <1>5. ASSUME NEW u \in Thread, u # t
        PROVE  pub'[u] = NoPublication \/ Faithful(pub[u])'
    BY <1>1, <1>5 DEF PublicationsInv, Faithful, Subscribed
  <1> QED
    BY <1>1, <1>4, <1>5 DEF PublicationsInv

\* One more subscription is served: an actor that subscribes at entry i was
\* not sent the event by an earlier entry, so its count is 0 before.
LEMMA PublishToFaithful ==
    ASSUME TypeOK, TablesInv, PublicationsInv, NEW t \in Thread, PublishTo(t)
    PROVE  PublicationsInv'
  <1> DEFINE p == pub[t]
             q == pub'[t]
  <1>1. PICK i \in 1 .. Len(sub_table) :
          LET a == sub_table[i].actor
              rc == Delivery(a, p.desc)
          IN  /\ NextSubscription(t, i)
              /\ pub' = [pub EXCEPT ![t] =
                   [desc |-> p.desc, active |-> TRUE, pos |-> i,
                    rc |-> FirstResult(p.rc, rc),
                    got |-> [p.got EXCEPT ![a] = IF rc = "ok" THEN @ + 1 ELSE @],
                    met |-> p.met \cup ({rc} \ {"ok"})]]
    BY DEF PublishTo
  <1> DEFINE a == sub_table[i].actor
             rc == Delivery(a, p.desc)
  <1>2. p \in Publication /\ a \in Actor /\ pub \in [Thread -> Publication]
    <2>1. sub_table[i] \in Entry /\ pub \in [Thread -> Publication]
      BY DEF TypeOK
    <2> QED
      BY <2>1 DEF Entry
  <1>3. /\ q.desc = p.desc /\ q.active = TRUE /\ q.pos = i
        /\ q.rc = FirstResult(p.rc, rc)
        /\ q.got = [p.got EXCEPT ![a] = IF rc = "ok" THEN @ + 1 ELSE @]
        /\ q.met = p.met \cup ({rc} \ {"ok"})
    BY <1>1, <1>2
  <1>4. pub' = [pub EXCEPT ![t] = q]
    BY <1>1, <1>2
  <1>5. lifecycle = "running" /\ Faithful(p)
    BY DEF PublicationsInv, PublishTo, NoPublication
  <1>6. lifecycle' = "running" /\ sub_table' = sub_table
    BY <1>5 DEF PublishTo, tables
  <1>7. /\ i \in Nat /\ p.pos \in Nat /\ i > p.pos /\ i <= Len(sub_table) /\ Len(sub_table) \in Nat
        /\ sub_table[i].id = Hash[p.desc]
        /\ \A j \in p.pos + 1 .. i - 1 : sub_table[j].id # Hash[p.desc]
    BY <1>1, <1>2 DEF NextSubscription, TypeOK, Publication
  <1>8. p.got \in [Actor -> Nat] /\ p.rc \in Result
    BY <1>2 DEF Publication
  <1> HIDE DEF p, q, a, rc
  <1>9. p.got[a] = 0
    <2>1. ASSUME p.got[a] = 1
          PROVE  FALSE
      <3>1. PICK j \in 1 .. p.pos : Subscribed(p, j) /\ sub_table[j].actor = a
        BY <1>2, <1>5, <2>1 DEF Faithful
      <3>2. j \in 1 .. Len(sub_table) /\ j # i
        BY <1>7, <3>1
      <3> QED
        BY <1>7, <3>1, <3>2 DEF Subscribed, TablesInv, EntriesUnique, a
    <2> QED
      BY <1>2, <1>5, <2>1 DEF Faithful
  <1>10. /\ q.got \in [Actor -> Nat]
         /\ q.got[a] = IF rc = "ok" THEN 1 ELSE 0
         /\ \A b \in Actor : b # a => q.got[b] = p.got[b]
    BY <1>2, <1>3, <1>8, <1>9
  <1>11. \A j \in 1 .. i : j = i \/ j \in 1 .. p.pos \/ j \in p.pos + 1 .. i - 1
    BY <1>7
  <1>12. \A j \in 1 .. i : sub_table[j].id = Hash[p.desc] =>
           j = i \/ (j \in 1 .. p.pos /\ sub_table[j].actor # a)
    <2>1. ASSUME NEW j \in 1 .. i, j # i, sub_table[j].id = Hash[p.desc]
          PROVE  j \in 1 .. p.pos /\ sub_table[j].actor # a
      <3>1. j \in 1 .. p.pos
        BY <1>7, <1>11, <2>1
      <3>2. j \in 1 .. Len(sub_table)
        BY <1>7
      <3> QED
        BY <1>7, <2>1, <3>1, <3>2 DEF TablesInv, EntriesUnique, a
    <2> QED
      BY <2>1
  <1>13. \A j \in 1 .. i : sub_table[j].actor \in Actor
    <2>1. \A j \in 1 .. i : sub_table[j] \in Entry
      BY <1>7 DEF TypeOK
    <2> QED
      BY <2>1 DEF Entry
  <1>14. ASSUME NEW b \in Actor
         PROVE  /\ q.got[b] \in {0, 1}
                /\ q.got[b] = 1 => \E j \in 1 .. i :
                     sub_table[j].id = Hash[p.desc] /\ sub_table[j].actor = b
    <2>1. CASE b = a
      BY <1>7, <1>10, <2>1 DEF a
    <2>2. CASE b # a
      <3>1. q.got[b] = p.got[b] /\ p.got[b] \in {0, 1}
        BY <1>5, <1>10, <2>2 DEF Faithful
      <3>2. ASSUME q.got[b] = 1
            PROVE  \E j \in 1 .. i : sub_table[j].id = Hash[p.desc] /\ sub_table[j].actor = b
        <4>1. PICK j \in 1 .. p.pos : Subscribed(p, j) /\ sub_table[j].actor = b
          BY <1>5, <3>1, <3>2 DEF Faithful
        <4> QED
          BY <1>7, <4>1 DEF Subscribed
      <3> QED
        BY <3>1, <3>2
    <2> QED
      BY <2>1, <2>2
  <1>15. IF q.met = {}
         THEN /\ q.rc = "ok"
              /\ \A j \in 1 .. i : sub_table[j].id = Hash[p.desc] => q.got[sub_table[j].actor] = 1
         ELSE /\ q.rc \in q.met
              /\ \E j \in 1 .. i : sub_table[j].id = Hash[p.desc] /\ q.got[sub_table[j].actor] = 0
    <2>1. CASE rc # "ok"
      <3>1. rc \in q.met /\ q.got[a] = 0 /\ i \in 1 .. i
        BY <1>3, <1>7, <1>10, <2>1
      <3>2. q.rc \in q.met
        BY <1>3, <1>5, <2>1 DEF FirstResult, Faithful
      <3> QED
        BY <1>7, <3>1, <3>2 DEF a
    <2>2. CASE rc = "ok" /\ p.met = {}
      <3>1. q.met = {} /\ q.rc = "ok"
        BY <1>3, <1>5, <2>2 DEF FirstResult, Faithful
      <3>2. ASSUME NEW j \in 1 .. i, sub_table[j].id = Hash[p.desc]
            PROVE  q.got[sub_table[j].actor] = 1
        <4>1. CASE j = i
          BY <1>10, <2>2, <4>1 DEF a
        <4>2. CASE j # i
          BY <1>5, <1>10, <1>12, <1>13, <2>2, <3>2, <4>2 DEF Faithful, Subscribed
        <4> QED
          BY <4>1, <4>2
      <3> QED
        BY <3>1, <3>2
    <2>3. CASE rc = "ok" /\ p.met # {}
      <3>1. q.met = p.met /\ q.rc = p.rc /\ p.rc \in p.met
        BY <1>3, <1>5, <2>3 DEF FirstResult, Faithful
      <3>2. PICK j \in 1 .. p.pos : Subscribed(p, j) /\ p.got[sub_table[j].actor] = 0
        BY <1>5, <2>3 DEF Faithful
      <3>3. j \in 1 .. i /\ j # i
        BY <1>7, <3>2
      <3>4. q.got[sub_table[j].actor] = 0
        BY <1>10, <1>12, <1>13, <3>2, <3>3 DEF Subscribed
      <3> QED
        BY <2>3, <3>1, <3>2, <3>3, <3>4 DEF Subscribed
    <2> QED
      BY <2>1, <2>2, <2>3
  <1>16. "ok" \notin q.met /\ p.desc \in Events /\ i \in 0 .. Len(sub_table)
    BY <1>3, <1>5, <1>7 DEF Faithful
  <1>17. Faithful(pub[t])'
    BY <1>3, <1>6, <1>14, <1>15, <1>16 DEF Faithful, Subscribed, q
  <1>18. ASSUME NEW u \in Thread, u # t
         PROVE  pub'[u] = NoPublication \/ Faithful(pub[u])'
    <2>1. pub'[u] = pub[u]
      BY <1>2, <1>4, <1>18
    <2> QED
      BY <1>6, <2>1 DEF PublicationsInv, Faithful, Subscribed
  <1> QED
    BY <1>6, <1>17, <1>18 DEF PublicationsInv

\* The walk is over.
LEMMA PublishReturnFaithful ==
    ASSUME TypeOK, PublicationsInv, NEW t \in Thread, PublishReturn(t)
    PROVE  PublicationsInv'
  <1> DEFINE p == pub[t]
             q == pub'[t]
  <1>1. pub \in [Thread -> Publication] /\ p \in Publication
    BY DEF TypeOK
  <1>2. lifecycle = "running" /\ Faithful(p)
    BY DEF PublicationsInv, PublishReturn, NoPublication
  <1>3. lifecycle' = "running" /\ sub_table' = sub_table
    BY <1>2 DEF PublishReturn, tables
  <1>4. q = [p EXCEPT !.active = FALSE]
    BY <1>1 DEF PublishReturn
  <1>5. /\ q.desc = p.desc /\ q.pos = p.pos /\ q.rc = p.rc /\ q.got = p.got /\ q.met = p.met
        /\ q.active = FALSE
    BY <1>1, <1>4 DEF Publication
  <1>6. \A i \in p.pos + 1 .. Len(sub_table) : ~Subscribed(p, i)
    BY NoneLeft DEF PublishReturn
  <1> HIDE DEF p, q
  <1>7. Faithful(pub[t])'
    BY <1>2, <1>3, <1>5, <1>6 DEF Faithful, Subscribed, q
  <1>8. ASSUME NEW u \in Thread, u # t
        PROVE  pub'[u] = NoPublication \/ Faithful(pub[u])'
    <2>1. pub'[u] = pub[u]
      BY <1>1, <1>8 DEF PublishReturn
    <2> QED
      BY <1>3, <2>1 DEF PublicationsInv, Faithful, Subscribed
  <1> QED
    BY <1>3, <1>7, <1>8 DEF PublicationsInv

\* The other steps of a running system change neither sub_table nor pub, and
\* a stopped system has no publications.
LEMMA PublicationsStep == ASSUME TypeOK, TablesInv, PublicationsInv, [Next]_vars
                          PROVE  PublicationsInv'
  <1>1. CASE \E t \in Thread, d \in Desc : PublishBegin(t, d)
    BY <1>1, PublishBeginFaithful
  <1>2. CASE \E t \in Thread : PublishTo(t)
    BY <1>2, PublishToFaithful
  <1>3. CASE \E t \in Thread : PublishReturn(t)
    BY <1>3, PublishReturnFaithful
  <1>4. CASE Stop
    BY <1>4 DEF Stop, PublicationsInv
  <1>5. CASE pub' = pub /\ lifecycle # "running"
    BY <1>5 DEF PublicationsInv
  <1>6. CASE pub' = pub /\ lifecycle' = lifecycle /\ sub_table' = sub_table
    BY <1>6 DEF PublicationsInv, Faithful, Subscribed
  <1>7. \/ \E t \in Thread, d \in Desc : PublishBegin(t, d)
        \/ \E t \in Thread : PublishTo(t)
        \/ \E t \in Thread : PublishReturn(t)
        \/ Stop
        \/ pub' = pub /\ lifecycle # "running"
        \/ pub' = pub /\ lifecycle' = lifecycle /\ sub_table' = sub_table
    BY DEF Next, vars, tables, RegisterHandler, RegistrationAborts, SetOverflowPolicy, Start,
           Send, SendTo, Dispatch
  <1> QED
    BY <1>1, <1>2, <1>3, <1>4, <1>5, <1>6, <1>7

-----------------------------------------------------------------------------
(* The theorems *)

LEMMA InitInv == Init => Inv
  <1> SUFFICES ASSUME Init PROVE Inv
    OBVIOUS
  <1>1. TypeOK
    BY NoPublicationType, LimitAssumption DEF Init, TypeOK
  <1>2. TablesInv
    BY DEF Init, TablesInv, EntriesKeyed, EntriesUnique, HandlersKnown
  <1>3. PublicationsInv
    BY DEF Init, PublicationsInv
  <1> QED
    BY <1>1, <1>2, <1>3 DEF Inv

\* The tables, the ids and every publication stay consistent.
THEOREM RoutingInvariant == Spec => []Inv
  <1>1. Inv /\ [Next]_vars => Inv'
    BY TypeStep, TablesStep, PublicationsStep DEF Inv
  <1> QED
    BY InitInv, <1>1, PTL DEF Spec

\* Tables, ids, counters, mailboxes and publications keep their types.
THEOREM TypesAreCorrect == Spec => []TypeOK
  <1>1. Inv => TypeOK
    BY DEF Inv
  <1> QED
    BY RoutingInvariant, <1>1, PTL

\* A registration never fails for a full handler_table
\* (_ipc_actor_register_handler_static): if the table of routes or of
\* subscriptions takes the entry, there is room for the binding.
LEMMA HandlerTableHasRoom ==
    ASSUME Inv, NEW a \in Actor, NEW d \in Desc, ~Refused(a, d)
    PROVE  ~HandlerTableFull
  <1>1. /\ Len(reg_table) \in Nat /\ Len(sub_table) \in Nat
        /\ Len(reg_table) <= MaxRegistrations /\ Len(sub_table) <= MaxSubscriptions
        /\ Len(handler_table) = Len(reg_table) + Len(sub_table)
    BY DEF Inv, TypeOK, TablesInv, HandlersKnown
  <1>2. Len(reg_table) < MaxRegistrations \/ Len(sub_table) < MaxSubscriptions
    BY <1>1, LimitAssumption DEF Refused
  <1> QED
    BY <1>1, <1>2, LimitAssumption DEF HandlerTableFull

\* Entries of handler_table by position.
LEMMA HandlesEntry ==
    ASSUME Inv, NEW a \in Actor, NEW d \in Desc
    PROVE  Handles(a, d) <=> \E i \in 1 .. Len(handler_table) :
                               handler_table[i].actor = a /\ handler_table[i].desc = d
  <1>1. handler_table \in Seq(Entry)
    BY DEF Inv, TypeOK
  <1>2. \A e : e \in Range(handler_table) <=> \E i \in 1 .. Len(handler_table) : handler_table[i] = e
    BY <1>1, InRange
  <1> QED
    BY <1>2 DEF Handles

\* Two handlers of one id are of one descriptor.
LEMMA OneNamePerId ==
    ASSUME Inv, NEW i \in 1 .. Len(handler_table), NEW j \in 1 .. Len(handler_table)
    PROVE  /\ handler_table[i].id = Hash[handler_table[i].desc]
           /\ handler_table[i].id = handler_table[j].id => handler_table[i].desc = handler_table[j].desc
  <1>1. \/ \E k \in 1 .. Len(reg_table) : handler_table[i] = reg_table[k]
        \/ \E k \in 1 .. Len(sub_table) : handler_table[i] = sub_table[k]
    BY DEF Inv, TablesInv, HandlersKnown
  <1>2. \/ \E k \in 1 .. Len(reg_table) : handler_table[j] = reg_table[k]
        \/ \E k \in 1 .. Len(sub_table) : handler_table[j] = sub_table[k]
    BY DEF Inv, TablesInv, HandlersKnown
  <1>3. handler_table[i].id = Hash[handler_table[i].desc]
    BY <1>1 DEF Inv, TablesInv, EntriesKeyed
  <1>4. ASSUME handler_table[i].id = handler_table[j].id
        PROVE  handler_table[i].desc = handler_table[j].desc
    <2>1. CASE \E k \in 1 .. Len(reg_table) : handler_table[i] = reg_table[k]
      <3>1. PICK k \in 1 .. Len(reg_table) : handler_table[i] = reg_table[k]
        BY <2>1
      <3>2. PICK l \in 1 .. Len(reg_table) : handler_table[j] = reg_table[l]
        BY <1>2, <1>4, <3>1 DEF Inv, TablesInv, EntriesUnique
      <3> QED
        BY <1>4, <3>1, <3>2 DEF Inv, TablesInv, EntriesUnique
    <2>2. CASE \E k \in 1 .. Len(sub_table) : handler_table[i] = sub_table[k]
      <3>1. PICK k \in 1 .. Len(sub_table) : handler_table[i] = sub_table[k]
        BY <2>2
      <3>2. PICK l \in 1 .. Len(sub_table) : handler_table[j] = sub_table[l]
        BY <1>2, <1>4, <3>1 DEF Inv, TablesInv, EntriesUnique
      <3> QED
        BY <1>4, <3>1, <3>2 DEF Inv, TablesInv, EntriesUnique
    <2> QED
      BY <1>1, <2>1, <2>2
  <1> QED
    BY <1>3, <1>4

\* Every command handler is the one its command is routed to, and the handler
\* table never overflows (ipc.c, _ipc_actor_register_handler_static).
THEOREM HandlersAreRouted == Spec => []HandlersRouted
  <1>1. ASSUME Inv
        PROVE  HandlersRouted
    <2>1. ASSUME NEW a \in Actor, NEW d \in Desc \ Events, Handles(a, d)
          PROVE  Route(d, a)
      <3>1. PICK i \in 1 .. Len(handler_table) :
              handler_table[i].actor = a /\ handler_table[i].desc = d
        BY <1>1, <2>1, HandlesEntry
      <3>2. PICK k \in 1 .. Len(reg_table) : handler_table[i] = reg_table[k]
        BY <1>1, <3>1 DEF Inv, TablesInv, HandlersKnown, EntriesKeyed
      <3>3. reg_table[k].actor = a /\ reg_table[k].id = Hash[d]
        BY <1>1, <3>1, <3>2 DEF Inv, TablesInv, EntriesKeyed
      <3>4. ASSUME NEW j \in 1 .. k - 1
            PROVE  reg_table[j].id # Hash[d]
        <4>1. j \in 1 .. Len(reg_table) /\ j # k
          BY <1>1, <3>2 DEF Inv, TypeOK
        <4> QED
          BY <1>1, <3>2, <3>3, <4>1 DEF Inv, TablesInv, EntriesUnique
      <3> QED
        BY <3>2, <3>3, <3>4 DEF Route
    <2> QED
      BY <1>1, <2>1 DEF HandlersRouted, Inv, TablesInv, HandlersKnown
  <1> QED
    BY RoutingInvariant, <1>1, PTL

\* Comparing hashed ids picks the handler of the message's own type, for every
\* hash function, colliding or not (ipc_dispatch_actor_handlers).
THEOREM DispatchIsByType == Spec => []DispatchMatches
  <1>1. ASSUME Inv
        PROVE  DispatchMatches
    <2>1. ASSUME NEW a \in Actor, NEW d \in Range(mailbox[a]), Handles(a, d),
                 NEW i \in 1 .. Len(handler_table), Binding(a, d, i)
          PROVE  handler_table[i].desc = d
      <3>1. d \in Desc
        <4>1. mailbox[a] \in Seq(Desc)
          BY <1>1 DEF Inv, TypeOK
        <4> QED
          BY <4>1 DEF Range
      <3>2. PICK j \in 1 .. Len(handler_table) :
              handler_table[j].actor = a /\ handler_table[j].desc = d
        BY <1>1, <2>1, <3>1, HandlesEntry
      <3> QED
        BY <1>1, <2>1, <3>2, OneNamePerId DEF Binding
    <2> QED
      BY <2>1 DEF DispatchMatches
  <1> QED
    BY RoutingInvariant, <1>1, PTL

\* ipc_publish reports 0 exactly when every actor that handles the event has
\* received it, once, however deliveries, sends and dispatches interleave.
THEOREM PublishIsHonest == Spec => []PublishHonest
  <1>1. ASSUME Inv
        PROVE  PublishHonest
    <2> SUFFICES ASSUME NEW t \in Thread
                 PROVE  LET p == pub[t]
                            subscribers == {a \in Actor : Handles(a, p.desc)}
                        IN  /\ \A a \in Actor : p.got[a] <= 1
                            /\ (~p.active /\ p.desc # NoDesc /\ subscribers # {}) =>
                                 (p.rc = "ok" <=> \A a \in subscribers : p.got[a] = 1)
                            /\ (p.met # {} /\ "DROPPED" \notin p.met) => p.rc \in p.met
      BY DEF PublishHonest
    <2> DEFINE p == pub[t]
               subscribers == {a \in Actor : Handles(a, p.desc)}
    <2>1. CASE p = NoPublication
      BY <2>1 DEF NoPublication
    <2>2. CASE Faithful(p)
      <3>1. \A a \in Actor : p.got[a] <= 1
        BY <2>2 DEF Faithful
      <3>2. p.met # {} => p.rc \in p.met
        BY <2>2 DEF Faithful
      <3>3. p.desc \in Desc /\ p.desc \in Events
        BY <2>2, DescAssumption DEF Faithful
      <3> HIDE DEF p
      <3>4. ASSUME ~p.active, subscribers # {}
            PROVE  p.rc = "ok" <=> \A a \in subscribers : p.got[a] = 1
        <4>1. \A i \in 1 .. Len(sub_table) : Subscribed(p, i) => i \in 1 .. p.pos
          <5>1. p.pos \in 0 .. Len(sub_table) /\ Len(sub_table) \in Nat
            BY <1>1, <2>2 DEF Faithful, Inv, TypeOK
          <5> QED
            BY <2>2, <3>4, <5>1 DEF Faithful
        <4>2. ASSUME NEW a \in subscribers
              PROVE  \E i \in 1 .. Len(sub_table) :
                       Subscribed(p, i) /\ sub_table[i].actor = a /\ sub_table[i].desc = p.desc
          <5>1. PICK k \in 1 .. Len(handler_table) :
                  handler_table[k].actor = a /\ handler_table[k].desc = p.desc
            BY <1>1, <3>3, HandlesEntry
          <5>2. PICK i \in 1 .. Len(sub_table) : handler_table[k] = sub_table[i]
            BY <1>1, <3>3, <5>1 DEF Inv, TablesInv, HandlersKnown, EntriesKeyed
          <5> QED
            BY <1>1, <5>1, <5>2 DEF Inv, TablesInv, EntriesKeyed, Subscribed
        <4>3. ASSUME NEW i \in 1 .. Len(sub_table), Subscribed(p, i)
              PROVE  sub_table[i].actor \in subscribers
          <5>1. PICK j \in 1 .. Len(sub_table) :
                  Subscribed(p, j) /\ sub_table[j].desc = p.desc
            BY <3>4, <4>2
          <5>2. sub_table[i].desc = p.desc
            BY <1>1, <4>3, <5>1 DEF Inv, TablesInv, EntriesUnique, Subscribed
          <5>3. PICK k \in 1 .. Len(handler_table) : handler_table[k] = sub_table[i]
            BY <1>1 DEF Inv, TablesInv, HandlersKnown
          <5>4. sub_table[i].actor \in Actor
            <6>1. sub_table[i] \in Entry
              BY <1>1 DEF Inv, TypeOK
            <6> QED
              BY <6>1 DEF Entry
          <5> QED
            BY <1>1, <3>3, <5>2, <5>3, <5>4, HandlesEntry
        <4>4. CASE p.met = {}
          BY <2>2, <4>1, <4>2, <4>4 DEF Faithful
        <4>5. CASE p.met # {}
          <5>1. PICK i \in 1 .. p.pos : Subscribed(p, i) /\ p.got[sub_table[i].actor] = 0
            BY <2>2, <4>5 DEF Faithful
          <5>2. i \in 1 .. Len(sub_table)
            BY <1>1, <2>2 DEF Faithful, Inv, TypeOK
          <5>3. p.rc # "ok"
            BY <2>2, <4>5 DEF Faithful
          <5> QED
            BY <4>3, <5>1, <5>2, <5>3
        <4> QED
          BY <4>4, <4>5
      <3> QED
        BY <3>1, <3>2, <3>4 DEF p
    <2> QED
      BY <1>1, <2>1, <2>2 DEF Inv, PublicationsInv
  <1> QED
    BY RoutingInvariant, <1>1, PTL
=============================================================================
