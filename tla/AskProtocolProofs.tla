------------------------- MODULE AskProtocolProofs -------------------------
(***************************************************************************)
(* Further proofs about AskReply, on top of the invariant of               *)
(* AskReplyProofs: ids never run out, a failed ask stays silent, and, for  *)
(* the first round of next_ask_id, messages are correlated with their      *)
(* asks, replies are single and timeouts are not forgotten.                *)
(***************************************************************************)
EXTENDS AskReplyProofs, FiniteSetTheorems

-----------------------------------------------------------------------------
(* An id is always available *)

\* A non-empty set of naturals has a least element.
LEMMA LeastNatural == ASSUME NEW K \in SUBSET Nat, K # {}
                      PROVE  \E k \in K : \A j \in K : k <= j
<1>1. \E k \in K : \A j \in K : ~(j < k)
  <2>1. \A j, k \in Nat : (<<j, k>> \in OpToRel(<, Nat)) <=> j < k
    BY SMT DEF OpToRel
  <2>2. PICK k \in K : \A j \in K : ~(<<j, k>> \in OpToRel(<, Nat))
    BY NatLessThanWellFounded, WFMin, Zenon
  <2> QED
    BY <2>1, <2>2, Zenon
<1> QED
  BY <1>1

\* What adding does to a number modulo n.
LEMMA AddMod == ASSUME NEW n \in Nat \ {0}, NEW x \in 0 .. n - 1, NEW y \in 0 .. n - 1
                PROVE  (x + y) % n = IF x + y < n THEN x + y ELSE x + y - n
  OBVIOUS

\* The candidates of one call of alloc_ask_id are different.
LEMMA CandidatesDiffer ==
    ASSUME next_ask_id \in Id, NEW j \in 0 .. MaxInflight, NEW k \in 0 .. MaxInflight,
           Candidate(j) = Candidate(k)
    PROVE  j = k
<1>1. /\ IdSpace \in Nat \ {0} /\ next_ask_id \in 0 .. IdSpace - 1
      /\ j \in 0 .. IdSpace - 1 /\ k \in 0 .. IdSpace - 1
  BY SizeAssumption DEF Id
<1>2. /\ Candidate(j) = IF next_ask_id + j < IdSpace THEN next_ask_id + j
                        ELSE next_ask_id + j - IdSpace
      /\ Candidate(k) = IF next_ask_id + k < IdSpace THEN next_ask_id + k
                        ELSE next_ask_id + k - IdSpace
  BY <1>1, AddMod DEF Candidate
<1>3. ASSUME NEW n \in Nat, NEW x \in 0 .. n - 1, NEW y \in 0 .. n - 1, NEW z \in Nat,
             (IF z + x < n THEN z + x ELSE z + x - n) = (IF z + y < n THEN z + y ELSE z + y - n)
      PROVE  x = y
  BY <1>3
<1>4. (IF next_ask_id + j < IdSpace THEN next_ask_id + j ELSE next_ask_id + j - IdSpace)
        = (IF next_ask_id + k < IdSpace THEN next_ask_id + k ELSE next_ask_id + k - IdSpace)
  BY <1>2, Zenon
<1>5. next_ask_id \in Nat /\ IdSpace \in Nat
  BY <1>1
<1> QED
  BY <1>1, <1>3, <1>4, <1>5

\* A slot that holds an id, for the ids that are pending.
Holder(id) == CHOOSE i \in Slot : Holds(i, id)

LEMMA HolderHolds == ASSUME NEW id, IsPending(id)
                     PROVE  Holder(id) \in Slot /\ Holds(Holder(id), id)
  BY DEF Holder, IsPending

\* One slot is free, so fewer than MaxInflight different ids are pending.
LEMMA FewPending ==
    ASSUME TypeOK, NEW free \in Slot, ~ask_table[free].used,
           NEW S \in SUBSET (0 .. MaxInflight), \A j \in S : IsPending(Candidate(j))
    PROVE  IsFiniteSet(S) /\ Cardinality(S) < MaxInflight
<1> DEFINE T == Slot \ {free}
           f == [j \in S |-> Holder(Candidate(j))]
<1>1. IsFiniteSet(0 .. MaxInflight) /\ IsFiniteSet(Slot) /\ Cardinality(Slot) = MaxInflight
  BY FS_Interval, SizeAssumption DEF Slot
<1>2. IsFiniteSet(S) /\ Cardinality(S) \in Nat
  BY <1>1, FS_Subset, FS_CardinalityType
<1>3. IsFiniteSet(T) /\ Cardinality(T) = MaxInflight - 1
  BY <1>1, FS_RemoveElement
<1>4. f \in [S -> T]
  <2>1. ASSUME NEW j \in S PROVE Holder(Candidate(j)) \in T
    BY HolderHolds DEF Holds
  <2> QED
    BY <2>1
<1>5. ASSUME NEW j \in S, NEW k \in S, f[j] = f[k] PROVE j = k
  <2>1. Holds(f[j], Candidate(j)) /\ Holds(f[k], Candidate(k))
    BY HolderHolds
  <2>2. Candidate(j) = Candidate(k)
    BY <1>5, <2>1 DEF Holds
  <2> QED
    BY <2>2, CandidatesDiffer DEF TypeOK
<1>6. ~(Cardinality(T) < Cardinality(S))
  <2> SUFFICES ASSUME Cardinality(T) < Cardinality(S) PROVE FALSE
    OBVIOUS
  <2> HIDE DEF T, f
  <2>1. \E j, k \in S : j # k /\ f[j] = f[k]
    BY <1>2, <1>3, <1>4, FS_PigeonHole
  <2> QED
    BY <1>5, <2>1
<1> QED
  BY <1>2, <1>3, <1>6, SizeAssumption

\* Counting: next to 0 and the pending ids there is another candidate, and the
\* first such one is within the candidates that alloc_ask_id looks at.
LEMMA IdIsAvailable == TypeOK => IdAvailable
<1> SUFFICES ASSUME TypeOK, NEW free \in Slot, ~ask_table[free].used
             PROVE  \E k \in 0 .. MaxInflight : AllocId(k)
  BY DEF IdAvailable
<1> DEFINE Blocked(j) == Candidate(j) = 0 \/ IsPending(Candidate(j))
           K == {k \in 0 .. MaxInflight : ~Blocked(k)}
           P == {k \in 0 .. MaxInflight : Candidate(k) # 0 /\ IsPending(Candidate(k))}
<1>1. IsFiniteSet(P) /\ Cardinality(P) < MaxInflight /\ Cardinality(P) \in Nat
  BY FewPending, FS_CardinalityType
<1>2. K # {}
  <2> SUFFICES ASSUME K = {} PROVE FALSE
    OBVIOUS
  <2>1. \A k \in 0 .. MaxInflight : Candidate(k) = 0 \/ k \in P
    OBVIOUS
  <2>2. PICK z \in 0 .. MaxInflight : 0 .. MaxInflight \subseteq P \cup {z}
    <3>1. CASE \E z \in 0 .. MaxInflight : Candidate(z) = 0
      <4>1. PICK z \in 0 .. MaxInflight : Candidate(z) = 0
        BY <3>1
      <4>2. \A k \in 0 .. MaxInflight : Candidate(k) = 0 => k = z
        BY <4>1, CandidatesDiffer DEF TypeOK
      <4> QED
        BY <2>1, <4>2
    <3>2. CASE \A z \in 0 .. MaxInflight : Candidate(z) # 0
      BY <2>1, <3>2, SizeAssumption
    <3> QED
      BY <3>1, <3>2
  <2> HIDE DEF P, K
  <2>3. IsFiniteSet(P \cup {z}) /\ Cardinality(P \cup {z}) <= Cardinality(P) + 1
    <3>1. /\ IsFiniteSet(P \cup {z})
          /\ Cardinality(P \cup {z}) = IF z \in P THEN Cardinality(P) ELSE Cardinality(P) + 1
      BY <1>1, FS_AddElement
    <3> QED
      BY <1>1, <3>1
  <2>4. Cardinality(0 .. MaxInflight) = MaxInflight + 1
    BY FS_Interval, SizeAssumption
  <2>5. Cardinality(0 .. MaxInflight) <= Cardinality(P \cup {z})
    BY <2>2, <2>3, FS_Subset
  <2>6. Cardinality(P \cup {z}) \in Nat
    BY <2>3, FS_CardinalityType
  <2> QED
    BY <1>1, <2>3, <2>4, <2>5, <2>6, SizeAssumption
<1>3. PICK k \in K : \A j \in K : k <= j
  <2>1. K \in SUBSET Nat
    OBVIOUS
  <2> HIDE DEF K
  <2> QED
    BY <1>2, <2>1, LeastNatural
<1>4. \A j \in 0 .. k - 1 : Blocked(j)
  BY <1>3, SizeAssumption
<1>5. Counted(k) < MaxInflight
  <2> DEFINE S == {j \in 0 .. k - 1 : Candidate(j) # 0}
  <2>1. S \in SUBSET (0 .. MaxInflight) /\ \A j \in S : IsPending(Candidate(j))
    BY <1>4, SizeAssumption
  <2> HIDE DEF S
  <2>2. Cardinality(S) < MaxInflight
    BY <2>1, FewPending
  <2> QED
    BY <2>2 DEF S, Counted
<1> QED
  BY <1>4, <1>5 DEF AllocId

-----------------------------------------------------------------------------
(* Asks, and the calls of ipc_ask that make them *)

AskPc == {"ask_arm", "ask_send", "ask_undo"}

\* An ask that was not begun has no timer; one that was begun has an asker;
\* a slot agrees with what was noted of its ask.
Begun ==
    /\ \A s \in Serial : s > asked => timer[s] = "none"
    /\ \A s \in 1 .. asked : info[s].actor \in Actor
    /\ \A i \in Slot : ask_table[i].used =>
          /\ ask_table[i].ask_id = info[ask_table[i].ser].ask_id
          /\ ask_table[i].actor = info[ask_table[i].ser].actor

\* Thread t is inside ipc_ask: it made the ask, and while it is an actor no
\* callback of the ask has run, because it would have had to run it itself.
Calling(t) ==
    /\ call[t].ser \in 1 .. asked
    /\ info[call[t].ser].by = t
    /\ info[call[t].ser].ask_id = call[t].ask_id
    /\ t \in Actor => info[call[t].ser].actor = t /\ callbacks[call[t].ser] = 0
    /\ pc[t] = "ask_arm" => timer[call[t].ser] = "none"
Calls == \A t \in Thread : pc[t] \in AskPc => Calling(t)

\* An ask that failed is not in the table.
Errors == \A i \in Slot : ask_table[i].used => status[ask_table[i].ser] # "error"

CallInv == Inv /\ Begun /\ Calls /\ Errors /\ FailedAskIsSilent

\* A slot that is in use after the step held the same ask before it.
Shrinks == \A i \in Slot : ask_table'[i].used =>
              /\ ask_table[i].used
              /\ ask_table'[i].ask_id = ask_table[i].ask_id
              /\ ask_table'[i].ser = ask_table[i].ser
              /\ ask_table'[i].actor = ask_table[i].actor

LEMMA ClearingShrinks ==
    ASSUME \A i \in Slot : ask_table'[i] = Cleared \/ ask_table'[i] = ask_table[i]
    PROVE  Shrinks
<1>1. ~Cleared.used
  BY DEF Cleared
<1> QED
  BY <1>1 DEF Shrinks

\* What a step has to leave alone for the calls of ipc_ask in progress.
CallsUndisturbed ==
    \A t \in Thread : pc'[t] \in AskPc =>
       /\ pc[t] \in AskPc
       /\ call'[t] = call[t]
       /\ t \in Actor => callbacks'[call[t].ser] = callbacks[call[t].ser]
       /\ pc'[t] = "ask_arm" => pc[t] = "ask_arm" /\ timer'[call[t].ser] = timer[call[t].ser]

LEMMA CallsKept == ASSUME Calls, CallsUndisturbed, asked' = asked, info' = info
                   PROVE  Calls'
  BY DEF Calls, CallsUndisturbed, Calling

LEMMA BegunKept ==
    ASSUME Inv, Begun, Shrinks, asked' = asked, info' = info,
           \A s \in Serial : s > asked => timer'[s] = timer[s]
    PROVE  Begun'
<1>1. \A s \in Serial : s > asked' => timer'[s] = "none"
  BY DEF Begun
<1>2. \A i \in Slot : ask_table'[i].used =>
          /\ ask_table'[i].ask_id = info'[ask_table'[i].ser].ask_id
          /\ ask_table'[i].actor = info'[ask_table'[i].ser].actor
  BY DEF Begun, Shrinks
<1> QED
  BY <1>1, <1>2 DEF Begun

LEMMA ErrorsKept ==
    ASSUME Errors, Shrinks,
           \A i \in Slot : ask_table'[i].used /\ status'[ask_table[i].ser] = "error"
                             => status[ask_table[i].ser] = "error"
    PROVE  Errors'
  BY DEF Errors, Shrinks

\* Steps that make no ask, run no callback and return from no ask.
LEMMA QuietCallInv ==
    ASSUME CallInv, Inv', Shrinks, CallsUndisturbed,
           asked' = asked, info' = info, callbacks' = callbacks,
           \A s \in Serial : status'[s] = "error" => status[s] = "error",
           \A s \in Serial : s > asked => timer'[s] = timer[s]
    PROVE  CallInv'
<1>1. Begun' /\ Calls'
  BY BegunKept, CallsKept DEF CallInv
<1>2. Errors'
  <2>1. \A i \in Slot : ask_table[i].used => ask_table[i].ser \in Serial
    <3>1. asked \in Nat /\ asked <= MaxAsks
      BY SizeAssumption DEF CallInv, Inv, TypeOK
    <3> QED
      BY <3>1, SizeAssumption DEF CallInv, Inv, Safe, AskBookkeeping, Serial
  <2> QED
    BY <2>1, ErrorsKept DEF CallInv, Shrinks
<1>3. FailedAskIsSilent'
  BY DEF CallInv, FailedAskIsSilent
<1> QED
  BY <1>1, <1>2, <1>3 DEF CallInv

\* A pending ask has a number, and so has the ask of a call in progress.
LEMMA Numbers == ASSUME CallInv
                 PROVE  /\ asked \in Nat /\ 1 .. asked \subseteq Serial
                        /\ \A i \in Slot : ask_table[i].used => ask_table[i].ser \in Serial
                        /\ \A t \in Thread : pc[t] \in AskPc => call[t].ser \in Serial
<1>1. asked \in Nat /\ asked <= MaxAsks /\ MaxAsks \in Nat
  BY SizeAssumption DEF CallInv, Inv, TypeOK
<1>2. 1 .. asked \subseteq Serial
  BY <1>1 DEF Serial
<1>3. \A i \in Slot : ask_table[i].used => ask_table[i].ser \in 1 .. asked
  BY DEF CallInv, Inv, Safe, AskBookkeeping
<1>4. \A t \in Thread : pc[t] \in AskPc => call[t].ser \in 1 .. asked
  BY DEF CallInv, Calls, Calling
<1> QED
  BY <1>1, <1>2, <1>3, <1>4

\* Two threads inside ipc_ask make different asks.
LEMMA OwnAsk == ASSUME CallInv, NEW t \in Thread, NEW u \in Thread, t # u,
                       pc[t] \in AskPc, pc[u] \in AskPc
                PROVE  call[t].ser # call[u].ser
  BY DEF CallInv, Calls, Calling

\* A call that fails leaves its ask out of the table: the slot of the id it
\* withdraws is the slot of the ask, if there still is one.
LEMMA Withdrawn ==
    ASSUME CallInv, NEW t \in Thread, pc[t] \in AskPc,
           ask_table' = WithoutAsk(call[t].ask_id)
    PROVE  /\ Shrinks
           /\ \A i \in Slot : ask_table'[i].used => ask_table'[i].ser # call[t].ser
<1>1. \A i \in Slot : ask_table'[i] = IF Found(call[t].ask_id, i) THEN Cleared ELSE ask_table[i]
  BY DEF WithoutAsk
<1>2. Shrinks
  BY <1>1, ClearingShrinks
<1>3. ASSUME NEW i \in Slot, ask_table'[i].used, ask_table'[i].ser = call[t].ser
      PROVE  FALSE
  <2>1. ask_table[i].used /\ ask_table[i].ser = call[t].ser
    BY <1>2, <1>3 DEF Shrinks
  <2>2. ask_table[i].ask_id = call[t].ask_id
    BY <2>1 DEF CallInv, Begun, Calls, Calling
  <2>3. \A j \in Slot : Holds(j, call[t].ask_id) => j = i
    BY <2>1, <2>2 DEF CallInv, Inv, Safe, UniqueIds, Holds
  <2>4. Found(call[t].ask_id, i)
    BY <2>1, <2>2, <2>3 DEF Found, Holds, Slot
  <2> QED
    BY <1>1, <1>3, <2>4 DEF Cleared
<1> QED
  BY <1>2, <1>3

\* ipc_ask returns, with or without success.
LEMMA ReturnCallInv ==
    ASSUME CallInv, Inv', NEW t \in Thread, pc[t] \in AskPc,
           NEW r \in {"ok", "error"}, AskReturns(t, r), Shrinks,
           r = "error" =>
             \A i \in Slot : ask_table'[i].used => ask_table'[i].ser # call[t].ser,
           UNCHANGED <<timer, asked, info, callbacks>>
    PROVE  CallInv'
<1>1. /\ pc \in [Thread -> ThreadState] /\ call \in [Thread -> Call]
      /\ status \in [Serial -> Status] /\ call[t].ser \in Serial
  BY Numbers DEF CallInv, Inv, TypeOK
<1>2. /\ pc' = [pc EXCEPT ![t] = "user"] /\ call' = [call EXCEPT ![t] = NoCall]
      /\ status' = [status EXCEPT ![call[t].ser] = r]
  BY DEF AskReturns, Goto
<1>3. CallsUndisturbed
  BY <1>1, <1>2 DEF CallsUndisturbed, AskPc
<1>4. Begun' /\ Calls'
  BY <1>3, BegunKept, CallsKept DEF CallInv
<1>5. Errors'
  <2>1. ASSUME NEW i \in Slot, ask_table'[i].used PROVE status'[ask_table'[i].ser] # "error"
    <3>1. /\ ask_table[i].used /\ ask_table'[i].ser = ask_table[i].ser
          /\ ask_table[i].ser \in Serial
      BY <2>1, Numbers DEF Shrinks
    <3>2. status[ask_table[i].ser] # "error"
      BY <3>1 DEF CallInv, Errors
    <3> QED
      BY <1>1, <1>2, <2>1, <3>1, <3>2
  <2> QED
    BY <2>1 DEF Errors
<1>6. FailedAskIsSilent'
  <2>1. ASSUME NEW s \in Serial, status'[s] = "error", info[s].by = info[s].actor
        PROVE  callbacks[s] = 0
    <3>1. CASE s = call[t].ser
      <4>1. info[s].by = t /\ s \in 1 .. asked
        BY <3>1 DEF CallInv, Calls, Calling
      <4>2. t \in Actor
        BY <2>1, <4>1 DEF CallInv, Begun
      <4> QED
        BY <3>1, <4>2 DEF CallInv, Calls, Calling
    <3>2. CASE s # call[t].ser
      BY <1>1, <1>2, <2>1, <3>2 DEF CallInv, FailedAskIsSilent
    <3> QED
      BY <3>1, <3>2
  <2> QED
    BY <2>1 DEF FailedAskIsSilent
<1> QED
  BY <1>4, <1>5, <1>6 DEF CallInv

\* A thread inside ipc_ask or ipc_reply.
LEMMA CallStepCallInv == ASSUME CallInv, NEW t \in Thread, CallStep(t)
                         PROVE  CallInv'
<1>i. Inv'
  BY CallStepInv DEF CallInv
<1>t. /\ pc \in [Thread -> ThreadState] /\ call \in [Thread -> Call]
      /\ timer \in [Serial -> TimerState] /\ ask_table \in [Slot -> Pending]
  BY DEF CallInv, Inv, TypeOK
<1>s. ask_table' = ask_table => Shrinks
  BY DEF Shrinks
<1>1. CASE AskArm(t)
  <2>1. /\ pc[t] = "ask_arm" /\ pc' = [pc EXCEPT ![t] = "ask_send"] /\ call' = call
        /\ timer' = [timer EXCEPT ![call[t].ser] = "armed"]
        /\ UNCHANGED <<ask_table, asked, info, callbacks, status>>
    BY <1>1 DEF AskArm, Goto, table, history
  <2>2. call[t].ser \in 1 .. asked /\ pc[t] \in AskPc
    BY <2>1 DEF CallInv, Calls, Calling, AskPc
  <2>3. CallsUndisturbed
    <3>1. \A u \in Thread : u # t /\ pc[u] \in AskPc => timer'[call[u].ser] = timer[call[u].ser]
      BY <1>t, <2>1, <2>2, OwnAsk, Numbers
    <3> QED
      BY <1>t, <2>1, <2>2, <3>1 DEF CallsUndisturbed, AskPc
  <2>4. \A s \in Serial : s > asked => timer'[s] = timer[s]
    BY <1>t, <2>1, <2>2, Numbers
  <2> QED
    BY <1>i, <1>s, <2>1, <2>3, <2>4, QuietCallInv
<1>2. CASE AskArmFails(t)
  <2>1. /\ pc[t] = "ask_arm" /\ pc' = [pc EXCEPT ![t] = "ask_undo"]
        /\ UNCHANGED <<ask_table, call, timer, asked, info, callbacks, status>>
    BY <1>2 DEF AskArmFails, Goto, table, history
  <2>2. CallsUndisturbed
    BY <1>t, <2>1 DEF CallsUndisturbed, AskPc
  <2> QED
    BY <1>i, <1>s, <2>1, <2>2, QuietCallInv
<1>3. CASE AskSend(t)
  <2>1. pc[t] \in AskPc /\ ask_table' = ask_table /\ AskReturns(t, "ok")
        /\ UNCHANGED <<timer, asked, info, callbacks>>
    BY <1>3 DEF AskSend, AskPc, table
  <2> QED
    BY <1>i, <1>s, <2>1, ReturnCallInv
<1>4. CASE AskSendFails(t)
  <2>1. /\ pc[t] = "ask_send" /\ pc' = [pc EXCEPT ![t] = "ask_undo"]
        /\ UNCHANGED <<ask_table, call, timer, asked, info, callbacks, status>>
    BY <1>4 DEF AskSendFails, Goto, table, history
  <2>2. CallsUndisturbed
    BY <1>t, <2>1 DEF CallsUndisturbed, AskPc
  <2> QED
    BY <1>i, <1>s, <2>1, <2>2, QuietCallInv
<1>5. CASE AskUndo(t)
  <2>1. pc[t] \in AskPc /\ ask_table' = WithoutAsk(call[t].ask_id) /\ AskReturns(t, "error")
        /\ UNCHANGED <<timer, asked, info, callbacks>>
    BY <1>5 DEF AskUndo, AskPc
  <2> QED
    BY <1>i, <2>1, Withdrawn, ReturnCallInv
<1>6. CASE ReplySend(t) \/ ReplySendFails(t) \/ ReplyUndo(t)
  <2>1. /\ \E p \in {"user", "reply_undo"} : pc' = [pc EXCEPT ![t] = p]
        /\ \A u \in Thread : u # t => call'[u] = call[u]
        /\ UNCHANGED <<timer, asked, info, callbacks, status>>
    BY <1>6, <1>t DEF ReplySend, ReplySendFails, ReplyUndo, Goto, table, history
  <2>2. CallsUndisturbed
    BY <1>t, <2>1 DEF CallsUndisturbed, AskPc
  <2>3. Shrinks
    <3>1. ask_table' = ask_table \/ ask_table' = WithoutAsk(call[t].ask_id)
      BY <1>6 DEF ReplySend, ReplySendFails, ReplyUndo, table
    <3> QED
      BY <1>s, <3>1, ClearingShrinks DEF WithoutAsk
  <2> QED
    BY <1>i, <2>1, <2>2, <2>3, QuietCallInv
<1> QED
  BY <1>1, <1>2, <1>3, <1>4, <1>5, <1>6 DEF CallStep

\* A new ask is made by its thread, and nothing of it has happened yet.
LEMMA AskCallInv ==
    ASSUME CallInv, NEW t \in Thread, NEW a \in Actor, NEW b \in Actor,
           NEW d \in ReplyId, NEW timed \in TimedAsks, Ask(t, a, b, d, timed)
    PROVE  CallInv'
<1> DEFINE n == asked + 1
<1>i. Inv'
  <2>1. UserStep(t)
    BY DEF UserStep
  <2> QED
    BY <2>1, UserStepInv DEF CallInv
<1>t. /\ pc \in [Thread -> ThreadState] /\ call \in [Thread -> Call]
      /\ ask_table \in [Slot -> Pending] /\ info \in [Serial -> Info]
      /\ status \in [Serial -> Status] /\ asked \in Nat /\ n \in Serial
  BY SizeAssumption DEF CallInv, Inv, TypeOK, Ask, Serial
<1>1. PICK i \in Slot, k \in 0 .. MaxInflight :
        /\ ask_table' = [ask_table EXCEPT ![i] =
                           [used |-> TRUE, reply_sent |-> FALSE, timeout_queued |-> FALSE,
                            ask_id |-> Candidate(k), reply_id |-> d, actor |-> a,
                            ser |-> n]]
        /\ call' = [call EXCEPT ![t] = [to |-> b, ask_id |-> Candidate(k),
                                        reply_id |-> d, ser |-> n]]
        /\ info' = [info EXCEPT ![n] = [actor |-> a, ask_id |-> Candidate(k), by |-> t]]
  BY DEF Ask
<1>2. /\ pc[t] = "user" /\ (t \in Actor => a = t) /\ asked' = n
      /\ \E p \in {"ask_arm", "ask_send"} : pc' = [pc EXCEPT ![t] = p]
      /\ status' = [status EXCEPT ![n] = "calling"]
      /\ UNCHANGED <<timer, callbacks>>
  BY DEF Ask, Goto
<1>3. timer[n] = "none" /\ callbacks[n] = 0
  BY <1>t DEF CallInv, Begun, Inv, Safe, AskBookkeeping
<1>4. /\ info'[n].actor = a /\ info'[n].ask_id = Candidate(k) /\ info'[n].by = t
      /\ \A s \in Serial : s # n => info'[s] = info[s]
  BY <1>t, <1>1
<1>5. /\ ask_table'[i].ask_id = Candidate(k) /\ ask_table'[i].actor = a /\ ask_table'[i].ser = n
      /\ \A j \in Slot : j # i => ask_table'[j] = ask_table[j]
  BY <1>t, <1>1
<1>6. \A j \in Slot : j # i /\ ask_table'[j].used =>
         /\ ask_table[j].used /\ ask_table[j].ser \in Serial /\ ask_table[j].ser # n
  <2>1. \A j \in Slot : ask_table[j].used => ask_table[j].ser \in 1 .. asked
    BY DEF CallInv, Inv, Safe, AskBookkeeping
  <2> QED
    BY <1>t, <1>5, <2>1, Numbers
<1>7. Begun'
  <2>1. \A s \in Serial : s > asked' => timer'[s] = "none"
    BY <1>t, <1>2 DEF CallInv, Begun, Serial
  <2>2. \A s \in 1 .. asked' : info'[s].actor \in Actor
    <3>1. \A s \in 1 .. n : s = n \/ (s \in 1 .. asked /\ s # n /\ s \in Serial)
      BY <1>t, Numbers
    <3> QED
      BY <1>2, <1>4, <3>1 DEF CallInv, Begun
  <2>3. ASSUME NEW j \in Slot, ask_table'[j].used
        PROVE  /\ ask_table'[j].ask_id = info'[ask_table'[j].ser].ask_id
               /\ ask_table'[j].actor = info'[ask_table'[j].ser].actor
    <3>1. CASE j = i
      BY <1>4, <1>5, <3>1
    <3>2. CASE j # i
      BY <1>4, <1>5, <1>6, <2>3, <3>2 DEF CallInv, Begun
    <3> QED
      BY <3>1, <3>2
  <2> QED
    BY <2>1, <2>2, <2>3 DEF Begun
<1>8. Calls'
  <2>1. ASSUME NEW u \in Thread, pc'[u] \in AskPc PROVE Calling(u)'
    <3>1. CASE u = t
      <4>1. call'[t].ser = n /\ call'[t].ask_id = Candidate(k)
        BY <1>t, <1>1
      <4> QED
        BY <1>t, <1>2, <1>3, <1>4, <3>1, <4>1 DEF Calling
    <3>2. CASE u # t
      <4>1. pc'[u] = pc[u] /\ call'[u] = call[u] /\ Calling(u)
        BY <1>t, <1>1, <1>2, <2>1, <3>2 DEF CallInv, Calls
      <4>2. call[u].ser \in 1 .. asked /\ call[u].ser \in Serial /\ call[u].ser # n
        BY <1>t, <4>1, Numbers DEF Calling
      <4>3. info'[call[u].ser] = info[call[u].ser] /\ call[u].ser \in 1 .. asked'
        BY <1>t, <1>2, <1>4, <4>2
      <4> QED
        BY <1>2, <4>1, <4>3 DEF Calling
    <3> QED
      BY <3>1, <3>2
  <2> QED
    BY <2>1 DEF Calls
<1>9. Errors'
  <2>1. ASSUME NEW j \in Slot, ask_table'[j].used PROVE status'[ask_table'[j].ser] # "error"
    BY <1>t, <1>2, <1>5, <1>6, <2>1 DEF CallInv, Errors
  <2> QED
    BY <2>1 DEF Errors
<1>10. FailedAskIsSilent'
  <2>1. ASSUME NEW s \in Serial, status'[s] = "error", info'[s].by = info'[s].actor
        PROVE  callbacks'[s] = 0
    BY <1>t, <1>2, <1>4, <2>1 DEF CallInv, FailedAskIsSilent
  <2> QED
    BY <2>1 DEF FailedAskIsSilent
<1> QED
  BY <1>i, <1>7, <1>8, <1>9, <1>10 DEF CallInv

\* The other calls of application code do not touch calls of ipc_ask.
LEMMA UserStepCallInv == ASSUME CallInv, NEW t \in Thread, UserStep(t)
                         PROVE  CallInv'
<1>i. Inv'
  BY UserStepInv DEF CallInv
<1>t. /\ pc \in [Thread -> ThreadState] /\ call \in [Thread -> Call]
      /\ ask_table \in [Slot -> Pending] /\ status \in [Serial -> Status]
  BY DEF CallInv, Inv, TypeOK
<1>1. CASE \E a, b \in Actor, d \in ReplyId, timed \in TimedAsks : Ask(t, a, b, d, timed)
  BY <1>1, AskCallInv
<1>2. CASE \E s \in Serial : Cancel(t, s)
  <2>1. PICK i \in Slot : /\ ask_table' = [ask_table EXCEPT ![i] = Cleared]
                          /\ status' = [status EXCEPT ![ask_table[i].ser] = "cancelled"]
    BY <1>2 DEF Cancel
  <2>2. UNCHANGED <<pc, call, timer, asked, info, callbacks>>
    BY <1>2 DEF Cancel, threads
  <2>3. Shrinks
    BY <1>t, <2>1, ClearingShrinks
  <2>4. CallsUndisturbed
    BY <2>2 DEF CallsUndisturbed
  <2>5. \A s \in Serial : status'[s] = "error" => status[s] = "error"
    BY <1>t, <2>1
  <2> QED
    BY <1>i, <2>2, <2>3, <2>4, <2>5, QuietCallInv
<1>3. ASSUME NEW i \in Slot, NEW d \in ReplyId, Repliable(t, i, d), AcceptReply(t, i)
      PROVE  CallInv'
  <2>1. /\ ask_table' = [ask_table EXCEPT ![i].reply_sent = TRUE]
        /\ pc[t] = "user" /\ pc' = [pc EXCEPT ![t] = "reply_send"]
        /\ \A u \in Thread : u # t => call'[u] = call[u]
        /\ UNCHANGED <<timer, asked, info, callbacks, status>>
    BY <1>3, <1>t DEF AcceptReply, Repliable, Goto
  <2>2. Shrinks
    BY <1>t, <2>1 DEF Shrinks, Pending
  <2>3. CallsUndisturbed
    BY <1>t, <2>1 DEF CallsUndisturbed, AskPc
  <2> QED
    BY <1>i, <2>1, <2>2, <2>3, QuietCallInv
<1>4. CASE \E d \in ReplyId : Reply(t, d)
  BY <1>3, <1>4 DEF Reply
<1>5. CASE \E d \in ReplyId : ReplyTooLarge(t, d)
  <2>1. PICK i \in Slot : ask_table' = [ask_table EXCEPT ![i] = Cleared]
    BY <1>5 DEF ReplyTooLarge
  <2>2. UNCHANGED <<pc, call, timer, asked, info, callbacks, status>>
    BY <1>5 DEF ReplyTooLarge, threads
  <2>3. Shrinks
    BY <1>t, <2>1, ClearingShrinks
  <2>4. CallsUndisturbed
    BY <2>2 DEF CallsUndisturbed
  <2> QED
    BY <1>i, <2>2, <2>3, <2>4, QuietCallInv
<1>6. CASE ReplyError(t)
  BY <1>3, <1>6 DEF ReplyError
<1> QED
  BY <1>1, <1>2, <1>4, <1>5, <1>6 DEF UserStep

\* Only the asker's thread runs a callback, and only between messages it is
\* not inside ipc_ask.
LEMMA DispatchStepCallInv == ASSUME CallInv, NEW a \in Actor, DispatchStep(a)
                             PROVE  CallInv'
<1>i. Inv'
  BY DispatchStepInv DEF CallInv
<1>t. /\ pc \in [Thread -> ThreadState] /\ ask_table \in [Slot -> Pending]
      /\ callbacks \in [Serial -> Nat] /\ a \in Thread
  BY DEF CallInv, Inv, TypeOK, Thread
<1>1. CASE Dequeue(a) \/ DispatchHandler(a) \/ HandlerReturn(a)
  <2>1. /\ \E p \in {"dispatch", "user", "idle"} : pc' = [pc EXCEPT ![a] = p]
        /\ UNCHANGED <<ask_table, call, timer, asked, info, callbacks, status>>
    BY <1>1 DEF Dequeue, DispatchHandler, HandlerReturn, Goto, table, history
  <2>2. CallsUndisturbed
    BY <1>t, <2>1 DEF CallsUndisturbed, AskPc
  <2> QED
    BY <1>i, <2>1, <2>2, QuietCallInv DEF Shrinks
<1>2. CASE DispatchCallback(a)
  <2>1. PICK i \in Slot : /\ Completes(a, i)
                          /\ ask_table' = [ask_table EXCEPT ![i] = Cleared]
                          /\ callbacks' = [callbacks EXCEPT ![ask_table[i].ser] = @ + 1]
    BY <1>2 DEF DispatchCallback
  <2>2. /\ pc[a] = "dispatch" /\ pc' = [pc EXCEPT ![a] = "user"]
        /\ UNCHANGED <<call, timer, asked, info, status>>
    BY <1>2 DEF DispatchCallback, Goto
  <2>3. /\ ask_table[i].used /\ ask_table[i].ser \in Serial
        /\ info[ask_table[i].ser].actor = a
    BY <2>1, Numbers DEF CallInv, Begun, Completes, Found, Holds
  <2>4. \A s \in Serial : s # ask_table[i].ser => callbacks'[s] = callbacks[s]
    BY <1>t, <2>1
  <2>5. CallsUndisturbed
    <3>1. ASSUME NEW t \in Actor, pc'[t] \in AskPc, t \in Thread
          PROVE  callbacks'[call[t].ser] = callbacks[call[t].ser]
      <4>1. t # a /\ pc[t] \in AskPc
        BY <1>t, <2>2, <3>1 DEF AskPc
      <4>2. call[t].ser \in Serial /\ info[call[t].ser].actor = t
        BY <3>1, <4>1, Numbers DEF CallInv, Calls, Calling
      <4> QED
        BY <2>3, <2>4, <4>1, <4>2
    <3> QED
      BY <1>t, <2>2, <3>1 DEF CallsUndisturbed, AskPc
  <2>6. Shrinks
    BY <1>t, <2>1, ClearingShrinks
  <2>7. Begun' /\ Calls'
    BY <2>2, <2>5, <2>6, BegunKept, CallsKept DEF CallInv
  <2>8. Errors'
    BY <2>2, <2>6, ErrorsKept DEF CallInv
  <2>9. FailedAskIsSilent'
    <3>1. status[ask_table[i].ser] # "error"
      BY <2>3 DEF CallInv, Errors
    <3> QED
      BY <2>2, <2>4, <3>1 DEF CallInv, FailedAskIsSilent
  <2> QED
    BY <1>i, <2>7, <2>8, <2>9 DEF CallInv
<1> QED
  BY <1>1, <1>2 DEF DispatchStep

\* A timer runs only once it is armed, after which its ask is not being armed.
LEMMA TimerStepCallInv == ASSUME CallInv, NEW s \in Serial, TimerStep(s)
                          PROVE  CallInv'
<1>i. Inv'
  BY TimerStepInv DEF CallInv
<1>t. /\ ask_table \in [Slot -> Pending] /\ timer \in [Serial -> TimerState]
  BY DEF CallInv, Inv, TypeOK
<1>1. /\ timer[s] # "none"
      /\ \A r \in Serial : r # s => timer'[r] = timer[r]
      /\ UNCHANGED <<pc, call, asked, info, callbacks, status>>
  BY <1>t DEF TimerStep, TimerExpires, TimerLate, TimerSend, TimerSendFails, TimerUndo,
              threads, history
<1>2. ~(s > asked)
  BY <1>1 DEF CallInv, Begun
<1>3. CallsUndisturbed
  <2>1. \A t \in Thread : pc[t] = "ask_arm" =>
           call[t].ser # s /\ call[t].ser \in Serial
    BY <1>1, Numbers DEF CallInv, Calls, Calling, AskPc
  <2> QED
    BY <1>1, <2>1 DEF CallsUndisturbed
<1>4. Shrinks
  <2>1. ASSUME NEW i \in Slot
        PROVE  /\ ask_table'[i].used = ask_table[i].used
               /\ ask_table'[i].ask_id = ask_table[i].ask_id
               /\ ask_table'[i].ser = ask_table[i].ser
               /\ ask_table'[i].actor = ask_table[i].actor
    <3>1. \/ ask_table'[i] = ask_table[i]
          \/ \E f \in BOOLEAN : ask_table'[i] = [ask_table[i] EXCEPT !.reply_sent = f,
                                                                    !.timeout_queued = f]
      BY <1>t DEF TimerStep, TimerExpires, TimerLate, TimerSend, TimerSendFails, TimerUndo,
                  table
    <3>2. ask_table[i] \in Pending
      BY <1>t
    <3> QED
      BY <3>1, <3>2 DEF Pending
  <2> QED
    BY <2>1 DEF Shrinks
<1> QED
  BY <1>i, <1>1, <1>2, <1>3, <1>4, QuietCallInv

\* Every step preserves the invariant of the calls.
LEMMA NextCallInv == CallInv /\ [Next]_vars => CallInv'
<1> SUFFICES ASSUME CallInv, [Next]_vars PROVE CallInv'
  OBVIOUS
<1>i. Inv'
  BY NextInv DEF CallInv
<1>1. CASE \E t \in Thread : CallStep(t)
  BY <1>1, CallStepCallInv
<1>2. CASE \E t \in Thread : UserStep(t)
  BY <1>2, UserStepCallInv
<1>3. CASE \E a \in Actor : DispatchStep(a)
  BY <1>3, DispatchStepCallInv
<1>4. CASE \E s \in Serial : TimerStep(s)
  BY <1>4, TimerStepCallInv
<1>5. CASE \/ \E a \in Noisy : Traffic(a)
           \/ \E a \in Actor : Restart(a)
           \/ UNCHANGED vars
  <2>1. UNCHANGED <<ask_table, pc, call, timer, asked, info, callbacks, status>>
    BY <1>5 DEF Traffic, Restart, table, threads, history, vars
  <2>2. Shrinks /\ CallsUndisturbed
    BY <2>1 DEF Shrinks, CallsUndisturbed
  <2> QED
    BY <1>i, <2>1, <2>2, QuietCallInv
<1> QED
  BY <1>1, <1>2, <1>3, <1>4, <1>5 DEF Next

LEMMA InitCallInv == Init => CallInv
<1> SUFFICES ASSUME Init PROVE CallInv
  OBVIOUS
<1>1. Begun
  BY DEF Init, Begun, Cleared
<1>2. Calls
  BY DEF Init, Calls, AskPc
<1>3. Errors /\ FailedAskIsSilent
  BY DEF Init, Errors, FailedAskIsSilent, Cleared
<1> QED
  BY <1>1, <1>2, <1>3, InitInv DEF CallInv

-----------------------------------------------------------------------------
(* The first round of next_ask_id *)

\* Fewer asks than ids: next_ask_id does not come back to an id it had.
FirstRound == MaxAsks < IdSpace

\* In the first round ask s has id s, and whatever carries an id is about the
\* ask with that id.
Numbered == /\ next_ask_id = (asked + 1) % IdSpace
            /\ \A s \in 1 .. asked : info[s].ask_id = s
MailNumbered == \A a \in Actor : \A n \in 1 .. Len(mailbox[a]) :
                   mailbox[a][n].ask_id = mailbox[a][n].ser
ThreadsNumbered == \A t \in Thread : /\ cur[t] # NoMsg => cur[t].ask_id = cur[t].ser
                                     /\ call[t].ask_id = call[t].ser
Ids == Numbered /\ MailNumbered /\ ThreadsNumbered

\* An ask that is open to replies has had none, or was reopened.
Replies ==
    /\ \A s \in Serial : s > asked => accepted[s] = 0
    /\ \A i \in Slot : ask_table[i].used /\ ~ask_table[i].reply_sent =>
          accepted[ask_table[i].ser] = 0 \/ lost[ask_table[i].ser]

\* timeout_queued tells whether the ask's own timer has expired.
Timers ==
    \A i \in Slot : ask_table[i].used =>
       /\ timer[ask_table[i].ser] \in {"none", "armed"} => ~ask_table[i].timeout_queued
       /\ timer[ask_table[i].ser] \in {"sending", "undo", "done"} =>
             ask_table[i].timeout_queued \/ lost[ask_table[i].ser]

RoundInv == /\ CallInv /\ Ids /\ Replies /\ Timers
            /\ OneReplyUnlessReopened /\ TimeoutOnItsWay

\* What a queue holds after an append.
LEMMA Appended == ASSUME NEW S, NEW q \in Seq(S), NEW m
                  PROVE  /\ Len(Append(q, m)) = Len(q) + 1 /\ Len(q) \in Nat
                         /\ \A n \in 1 .. Len(q) : Append(q, m)[n] = q[n]
                         /\ Append(q, m)[Len(q) + 1] = m
  OBVIOUS

\* A mailbox holds what it held, and at most one message more.
Grown(a) == \A n \in 1 .. Len(mailbox[a]) :
               n \in 1 .. Len(mailbox'[a]) /\ mailbox'[a][n] = mailbox[a][n]

LEMMA Enqueued == ASSUME mailbox \in [Actor -> Seq(Message)], NEW b, NEW m, Enqueue(b, m)
                  PROVE  /\ \A a \in Actor : Grown(a)
                         /\ m.ask_id = m.ser => (MailNumbered => MailNumbered')
                         /\ b \in Actor => \E n \in 1 .. Len(mailbox'[b]) : mailbox'[b][n] = m
<1>1. CASE b \notin Actor
  <2>1. mailbox' = mailbox
    BY <1>1 DEF Enqueue
  <2> QED
    BY <1>1, <2>1 DEF Grown, MailNumbered
<1>2. CASE b \in Actor
  <2>1. /\ mailbox'[b] = Append(mailbox[b], m)
        /\ \A a \in Actor : a # b => mailbox'[a] = mailbox[a]
    BY <1>2 DEF Enqueue
  <2>2. /\ Len(mailbox'[b]) = Len(mailbox[b]) + 1 /\ Len(mailbox[b]) \in Nat
        /\ \A n \in 1 .. Len(mailbox[b]) : mailbox'[b][n] = mailbox[b][n]
        /\ mailbox'[b][Len(mailbox[b]) + 1] = m
    BY <1>2, <2>1, Appended
  <2>3. Grown(b)
    BY <2>2 DEF Grown
  <2>4. \A a \in Actor : Grown(a)
    BY <2>1, <2>3 DEF Grown
  <2>5. ASSUME m.ask_id = m.ser, MailNumbered PROVE MailNumbered'
    <3>1. \A n \in 1 .. Len(mailbox'[b]) : mailbox'[b][n].ask_id = mailbox'[b][n].ser
      <4>1. \A n \in 1 .. Len(mailbox'[b]) :
               n \in 1 .. Len(mailbox[b]) \/ n = Len(mailbox[b]) + 1
        BY <2>2
      <4> QED
        BY <1>2, <2>2, <2>5, <4>1 DEF MailNumbered
    <3> QED
      BY <2>1, <2>5, <3>1 DEF MailNumbered
  <2>6. Len(mailbox[b]) + 1 \in 1 .. Len(mailbox'[b])
    BY <2>2
  <2> QED
    BY <2>2, <2>4, <2>5, <2>6
<1> QED
  BY <1>1, <1>2

\* In the first round a slot is found by the number of its ask.
LEMMA SlotOf == ASSUME RoundInv, NEW i \in Slot, ask_table[i].used
                PROVE  /\ ask_table[i].ser \in 1 .. asked /\ ask_table[i].ser \in Serial
                       /\ ask_table[i].ask_id = ask_table[i].ser
                       /\ info[ask_table[i].ser].ask_id = ask_table[i].ser
                       /\ info[ask_table[i].ser].actor \in Actor
<1>1. ask_table[i].ser \in 1 .. asked /\ ask_table[i].ser \in Serial
  BY Numbers DEF RoundInv, CallInv, Inv, Safe, AskBookkeeping
<1> QED
  BY <1>1 DEF RoundInv, CallInv, Begun, Ids, Numbered

LEMMA TimerHitsOwn == ASSUME RoundInv, NEW s \in 1 .. asked, NEW i \in Slot
                      PROVE  TimerHits(s, i) <=> ask_table[i].used /\ ask_table[i].ser = s
<1>1. info[s].ask_id = s
  BY DEF RoundInv, Ids, Numbered
<1>2. ASSUME TimerHits(s, i) PROVE ask_table[i].used /\ ask_table[i].ser = s
  BY <1>1, <1>2, SlotOf DEF TimerHits, Found, Holds
<1>3. ASSUME ask_table[i].used, ask_table[i].ser = s PROVE TimerHits(s, i)
  <2>1. ask_table[i].ask_id = s /\ ask_table[i].actor = info[s].actor
    BY <1>3, SlotOf DEF RoundInv, CallInv, Begun
  <2>2. \A j \in Slot : Holds(j, s) => j = i
    BY <1>3, <2>1 DEF RoundInv, CallInv, Inv, Safe, UniqueIds, Holds
  <2>3. Found(s, i)
    BY <1>3, <2>1, <2>2 DEF Found, Holds, Slot
  <2> QED
    BY <1>1, <2>1, <2>3 DEF TimerHits
<1> QED
  BY <1>2, <1>3

\* Timeout messages stay on their way in mailboxes that only grow, while the
\* threads that dispatch go on dispatching.
LEMMA OnTheWay ==
    ASSUME NEW s, info' = info, info[s].actor \in Actor,
           Grown(info[s].actor),
           pc[info[s].actor] = "dispatch" =>
              pc'[info[s].actor] = "dispatch" /\ cur'[info[s].actor] = cur[info[s].actor],
           TimeoutAt(s)
    PROVE  TimeoutAt(s)'
<1>1. Timeout(s)' = Timeout(s)
  BY DEF Timeout
<1>2. PICK a : a = info[s].actor
  OBVIOUS
<1> HIDE DEF Timeout
<1>3. CASE \E n \in 1 .. Len(mailbox[a]) : mailbox[a][n] = Timeout(s)
  BY <1>1, <1>2, <1>3 DEF TimeoutAt, Grown
<1>4. CASE pc[a] = "dispatch" /\ cur[a] = Timeout(s)
  BY <1>1, <1>2, <1>4 DEF TimeoutAt
<1> QED
  BY <1>2, <1>3, <1>4 DEF TimeoutAt

\* The timeout message of ask s stays on its way, or is lost.
WayKept(s) == timer[s] = "done" /\ TimeoutAt(s) => TimeoutAt(s)' \/ lost'[s]

LEMMA TimerType == ASSUME RoundInv, NEW s \in Serial
                   PROVE  timer[s] \in {"none", "armed", "sending", "undo", "done"}
  BY DEF RoundInv, CallInv, Inv, TypeOK, TimerState

\* Steps that leave the timers, the replies and the slots of pending asks alone.
LEMMA QuietRound ==
    ASSUME RoundInv, UNCHANGED <<asked, info, timer, accepted>>,
           \A i \in Slot : ask_table'[i].used => ask_table'[i] = ask_table[i],
           \A s \in Serial : lost[s] => lost'[s],
           \A i \in Slot, s \in Serial :
              ask_table'[i].used /\ ask_table[i].ser = s => WayKept(s)
    PROVE  Replies' /\ Timers' /\ OneReplyUnlessReopened' /\ TimeoutOnItsWay'
<1>1. \A i \in Slot : ask_table'[i].used =>
         ask_table[i].used /\ ask_table'[i] = ask_table[i] /\ ask_table[i].ser \in Serial
  BY SlotOf
<1>2. Replies'
  BY <1>1 DEF RoundInv, Replies
<1>3. Timers'
  BY <1>1 DEF RoundInv, Timers
<1>4. OneReplyUnlessReopened'
  BY DEF RoundInv, OneReplyUnlessReopened
<1>5. ASSUME NEW i \in Slot, NEW s, s = ask_table'[i].ser,
             ask_table'[i].used, timer'[s] # "none"
      PROVE  timer'[s] \in {"armed", "sending", "undo"} \/ TimeoutAt(s)' \/ lost'[s]
  <2>1. ask_table[i].ser = s /\ ask_table[i].used /\ s \in Serial /\ timer'[s] = timer[s]
    BY <1>1, <1>5
  <2>2. timer[s] \in {"armed", "sending", "undo"} \/ TimeoutAt(s) \/ lost[s]
    BY <1>5, <2>1 DEF RoundInv, TimeoutOnItsWay
  <2> QED
    BY <1>5, <2>1, <2>2, TimerType DEF WayKept
<1>6. TimeoutOnItsWay'
  BY <1>5 DEF TimeoutOnItsWay
<1> QED
  BY <1>2, <1>3, <1>4, <1>6

\* What the invariant says of a slot and its ask s.
SlotGood(i, s) ==
    /\ ~ask_table[i].reply_sent => accepted[s] = 0 \/ lost[s]
    /\ timer[s] \in {"none", "armed"} => ~ask_table[i].timeout_queued
    /\ timer[s] \in {"sending", "undo", "done"} => ask_table[i].timeout_queued \/ lost[s]
    /\ timer[s] # "none" =>
          timer[s] \in {"armed", "sending", "undo"} \/ TimeoutAt(s) \/ lost[s]

\* Steps of the timer of ask s0, which touch no slot but its own.
LEMMA TimerRound ==
    ASSUME RoundInv, NEW s0 \in Serial, UNCHANGED <<asked, info, accepted>>,
           \A s \in Serial : s # s0 => timer'[s] = timer[s],
           \A i \in Slot : /\ ask_table'[i].used = ask_table[i].used
                           /\ ask_table'[i].ser = ask_table[i].ser
                           /\ ask_table[i].ser # s0 => ask_table'[i] = ask_table[i],
           \A s \in Serial : lost[s] => lost'[s],
           \A i \in Slot, s \in Serial :
              s # s0 /\ ask_table[i].used /\ ask_table[i].ser = s => WayKept(s),
           \A i \in Slot : ask_table[i].used /\ ask_table[i].ser = s0 => SlotGood(i, s0)'
    PROVE  Replies' /\ Timers' /\ OneReplyUnlessReopened' /\ TimeoutOnItsWay'
<1>1. ASSUME NEW i \in Slot, NEW s, s = ask_table'[i].ser, ask_table'[i].used
      PROVE  SlotGood(i, s)'
  <2>1. ask_table[i].used /\ ask_table[i].ser = s /\ s \in Serial
    BY <1>1, SlotOf
  <2>2. CASE s = s0
    BY <2>1, <2>2
  <2>3. CASE s # s0
    <3>1. SlotGood(i, s)
      BY <2>1 DEF RoundInv, Replies, Timers, TimeoutOnItsWay, SlotGood
    <3>2. ask_table'[i] = ask_table[i] /\ timer'[s] = timer[s] /\ WayKept(s)
          /\ (lost[s] => lost'[s])
      BY <2>1, <2>3
    <3> QED
      BY <2>1, <3>1, <3>2, TimerType DEF SlotGood, WayKept
  <2> QED
    BY <2>2, <2>3
<1>2. Replies'
  BY <1>1 DEF RoundInv, Replies, SlotGood
<1>3. Timers'
  BY <1>1 DEF Timers, SlotGood
<1>4. OneReplyUnlessReopened'
  BY DEF RoundInv, OneReplyUnlessReopened
<1>5. TimeoutOnItsWay'
  BY <1>1 DEF TimeoutOnItsWay, SlotGood
<1> QED
  BY <1>2, <1>3, <1>4, <1>5

\* A slot is left alone or cleared.
LEMMA ClearingKeeps ==
    ASSUME \A i \in Slot : ask_table'[i] = Cleared \/ ask_table'[i] = ask_table[i]
    PROVE  \A i \in Slot : ask_table'[i].used => ask_table'[i] = ask_table[i]
  BY DEF Cleared

\* Steps of thread t, which is not dispatching, that take nothing out of a mailbox.
LEMMA NoTimeoutTaken ==
    ASSUME RoundInv, NEW t \in Thread, pc[t] # "dispatch", info' = info,
           \A a \in Actor : Grown(a),
           \A u \in Thread : u # t => pc'[u] = pc[u] /\ cur'[u] = cur[u],
           \A i \in Slot : ask_table'[i].used => ask_table'[i] = ask_table[i]
    PROVE  \A i \in Slot, s \in Serial :
              ask_table'[i].used /\ ask_table[i].ser = s => WayKept(s)
<1> SUFFICES ASSUME NEW i \in Slot, NEW s \in Serial, ask_table'[i].used, ask_table[i].ser = s,
                    TimeoutAt(s)
             PROVE  TimeoutAt(s)'
  BY DEF WayKept
<1>1. info[s].actor \in Actor /\ info[s].actor \in Thread
  BY SlotOf DEF Thread
<1> QED
  BY <1>1, OnTheWay

\* Nothing happens to the mailboxes.
LEMMA SameMail == ASSUME mailbox' = mailbox
                  PROVE  (\A a \in Actor : Grown(a)) /\ (MailNumbered => MailNumbered')
  BY DEF Grown, MailNumbered

\* A thread inside ipc_ask or ipc_reply.
LEMMA CallStepRound == ASSUME RoundInv, NEW t \in Thread, CallStep(t)
                       PROVE  RoundInv'
<1>c. CallInv'
  BY CallStepCallInv DEF RoundInv
<1>t. /\ pc \in [Thread -> ThreadState] /\ call \in [Thread -> Call]
      /\ timer \in [Serial -> TimerState] /\ mailbox \in [Actor -> Seq(Message)]
      /\ lost \in [Serial -> BOOLEAN]
  BY DEF RoundInv, CallInv, Inv, TypeOK
<1>1. /\ UNCHANGED <<next_ask_id, asked, info, cur, accepted>> /\ pc[t] # "dispatch"
      /\ \E p : pc' = [pc EXCEPT ![t] = p]
      /\ call' = call \/ call' = [call EXCEPT ![t] = NoCall]
  BY DEF CallStep, AskArm, AskArmFails, AskSend, AskSendFails, AskUndo, ReplySend,
         ReplySendFails, ReplyUndo, AskReturns, Goto, table, history
<1>2. MailNumbered' /\ \A a \in Actor : Grown(a)
  <2>0. MailNumbered /\ call[t].ask_id = call[t].ser
    BY DEF RoundInv, Ids, ThreadsNumbered
  <2>1. CASE mailbox' = mailbox
    BY <2>0, <2>1, SameMail
  <2>2. CASE AskSend(t)
    <3>1. Request(call[t]).ask_id = Request(call[t]).ser
      BY <2>0 DEF Request
    <3> QED
      BY <1>t, <2>0, <2>2, <3>1, Enqueued DEF AskSend
  <2>3. CASE ReplySend(t)
    <3>1. Answer(call[t]).ask_id = Answer(call[t]).ser
      BY <2>0 DEF Answer
    <3> QED
      BY <1>t, <2>0, <2>3, <3>1, Enqueued DEF ReplySend
  <2> QED
    BY <2>1, <2>2, <2>3 DEF CallStep, AskArm, AskArmFails, AskSendFails, AskUndo,
         ReplySendFails, ReplyUndo
<1>3. ThreadsNumbered'
  <2>1. NoCall.ask_id = NoCall.ser
    BY DEF NoCall
  <2> QED
    BY <1>t, <1>1, <2>1 DEF RoundInv, Ids, ThreadsNumbered
<1>4. Ids'
  BY <1>1, <1>2, <1>3 DEF RoundInv, Ids, Numbered
<1>5. \A i \in Slot : ask_table'[i].used => ask_table'[i] = ask_table[i]
  <2>1. ask_table' = ask_table \/ ask_table' = WithoutAsk(call[t].ask_id)
    BY DEF CallStep, AskArm, AskArmFails, AskSend, AskSendFails, AskUndo, ReplySend,
           ReplySendFails, ReplyUndo, table
  <2> QED
    BY <2>1, ClearingKeeps DEF WithoutAsk
<1>6. \A i \in Slot, s \in Serial : ask_table'[i].used /\ ask_table[i].ser = s => WayKept(s)
  BY <1>t, <1>1, <1>2, <1>5, NoTimeoutTaken
<1>7. \A s \in Serial : lost[s] => lost'[s]
  BY <1>t DEF CallStep, AskArm, AskArmFails, AskSend, AskSendFails, AskUndo, ReplySend,
              ReplySendFails, ReplyUndo, history
<1>8. Replies' /\ Timers' /\ OneReplyUnlessReopened' /\ TimeoutOnItsWay'
  <2>1. CASE timer' = timer
    BY <1>1, <1>5, <1>6, <1>7, <2>1, QuietRound
  <2>2. CASE AskArm(t)
    <3>1. PICK s0 : s0 = call[t].ser
      OBVIOUS
    <3>2. /\ pc[t] = "ask_arm" /\ timer' = [timer EXCEPT ![s0] = "armed"]
          /\ UNCHANGED <<ask_table, lost>>
      BY <2>2, <3>1 DEF AskArm, table, history
    <3>3. s0 \in Serial /\ timer[s0] = "none" /\ timer'[s0] = "armed"
          /\ \A s \in Serial : s # s0 => timer'[s] = timer[s]
      BY <1>t, <3>1, <3>2, Numbers DEF RoundInv, CallInv, Calls, Calling, AskPc
    <3>4. ASSUME NEW i \in Slot, ask_table[i].used, ask_table[i].ser = s0
          PROVE  SlotGood(i, s0)'
      <4>1. /\ ~ask_table[i].reply_sent => accepted[s0] = 0 \/ lost[s0]
            /\ ~ask_table[i].timeout_queued
        BY <3>3, <3>4 DEF RoundInv, Replies, Timers
      <4> QED
        BY <1>1, <3>2, <3>3, <4>1 DEF SlotGood
    <3> QED
      BY <1>1, <1>6, <3>2, <3>3, <3>4, TimerRound
  <2> QED
    BY <2>1, <2>2 DEF CallStep, AskArmFails, AskSend, AskSendFails, AskUndo, ReplySend,
           ReplySendFails, ReplyUndo
<1> QED
  BY <1>c, <1>4, <1>8 DEF RoundInv

\* In the first round alloc_ask_id takes its first candidate.
LEMMA FirstCandidate ==
    ASSUME FirstRound, RoundInv, asked < MaxAsks, NEW k \in 0 .. MaxInflight, AllocId(k)
    PROVE  /\ k = 0 /\ Candidate(k) = asked + 1
           /\ Candidate(k + 1) = (asked + 2) % IdSpace
<1>1. /\ asked \in Nat /\ IdSpace \in Nat /\ asked + 1 < IdSpace /\ IdSpace > 0
      /\ next_ask_id = (asked + 1) % IdSpace
  BY SizeAssumption DEF RoundInv, CallInv, Inv, TypeOK, Ids, Numbered, FirstRound
<1>2. next_ask_id = asked + 1
  BY <1>1
<1>3. Candidate(0) = asked + 1 /\ Candidate(1) = (asked + 2) % IdSpace
  <2>1. Candidate(0) = (asked + 1) % IdSpace /\ Candidate(1) = (asked + 2) % IdSpace
    BY <1>1, <1>2 DEF Candidate
  <2> QED
    BY <1>1, <1>2, <2>1
<1>4. ~IsPending(asked + 1)
  <2>1. \A i \in Slot : ask_table[i].used => ask_table[i].ask_id \in 1 .. asked
    BY SlotOf
  <2> QED
    BY <1>1, <2>1 DEF IsPending, Holds
<1>5. k = 0
  <2>1. ASSUME k # 0 PROVE FALSE
    <3>1. Candidate(0) = 0 \/ IsPending(Candidate(0))
      BY <2>1, SizeAssumption DEF AllocId
    <3> QED
      BY <1>1, <1>3, <1>4, <3>1
  <2> QED
    BY <2>1
<1> QED
  BY <1>3, <1>5

\* A new ask has the id of its number, and neither a reply nor a timer.
LEMMA AskRound ==
    ASSUME FirstRound, RoundInv, NEW t \in Thread, NEW a \in Actor, NEW b \in Actor,
           NEW d \in ReplyId, NEW timed \in TimedAsks, Ask(t, a, b, d, timed)
    PROVE  RoundInv'
<1> DEFINE n == asked + 1
<1>c. CallInv'
  BY AskCallInv DEF RoundInv
<1>t. /\ pc \in [Thread -> ThreadState] /\ call \in [Thread -> Call]
      /\ ask_table \in [Slot -> Pending] /\ info \in [Serial -> Info]
      /\ asked \in Nat /\ n \in Serial
  BY SizeAssumption DEF RoundInv, CallInv, Inv, TypeOK, Ask, Serial
<1>1. PICK i \in Slot, k \in 0 .. MaxInflight :
        /\ AllocId(k)
        /\ ask_table' = [ask_table EXCEPT ![i] =
                           [used |-> TRUE, reply_sent |-> FALSE, timeout_queued |-> FALSE,
                            ask_id |-> Candidate(k), reply_id |-> d, actor |-> a,
                            ser |-> n]]
        /\ next_ask_id' = Candidate(k + 1)
        /\ call' = [call EXCEPT ![t] = [to |-> b, ask_id |-> Candidate(k),
                                        reply_id |-> d, ser |-> n]]
        /\ info' = [info EXCEPT ![n] = [actor |-> a, ask_id |-> Candidate(k), by |-> t]]
  BY DEF Ask
<1>2. /\ pc[t] = "user" /\ asked < MaxAsks /\ asked' = n
      /\ \E p : pc' = [pc EXCEPT ![t] = p]
      /\ UNCHANGED <<mailbox, cur, timer, accepted, lost>>
  BY DEF Ask, Goto
<1>3. Candidate(k) = n /\ next_ask_id' = (n + 1) % IdSpace
  BY <1>1, <1>2, <1>t, FirstCandidate
<1>4. timer[n] = "none" /\ accepted[n] = 0
  BY <1>t DEF RoundInv, CallInv, Begun, Replies
<1>5. /\ info'[n].ask_id = n /\ \A s \in Serial : s # n => info'[s] = info[s]
  BY <1>t, <1>1, <1>3
<1>6. Ids'
  <2>1. Numbered'
    <3>1. \A s \in 1 .. n : s = n \/ (s \in 1 .. asked /\ s # n /\ s \in Serial)
      BY <1>t, Numbers DEF RoundInv
    <3>2. \A s \in 1 .. asked' : info'[s].ask_id = s
      BY <1>2, <1>5, <3>1 DEF RoundInv, Ids, Numbered
    <3> QED
      BY <1>2, <1>3, <3>2 DEF Numbered
  <2>2. ThreadsNumbered'
    BY <1>t, <1>1, <1>2, <1>3 DEF RoundInv, Ids, ThreadsNumbered
  <2>3. MailNumbered'
    BY <1>2, SameMail DEF RoundInv, Ids
  <2> QED
    BY <2>1, <2>2, <2>3 DEF Ids
<1>7. ASSUME NEW j \in Slot, NEW s, s = ask_table'[j].ser, ask_table'[j].used
      PROVE  SlotGood(j, s)'
  <2>1. CASE j = i
    BY <1>t, <1>1, <1>2, <1>4, <1>7, <2>1 DEF SlotGood
  <2>2. CASE j # i
    <3>1. ask_table'[j] = ask_table[j]
      BY <1>t, <1>1, <2>2
    <3>2. /\ ask_table[j].used /\ s = ask_table[j].ser
          /\ s \in 1 .. asked /\ s \in Serial /\ s # n /\ info[s].actor \in Actor
      BY <1>t, <1>7, <3>1, SlotOf
    <3>3. SlotGood(j, s)
      BY <3>2 DEF RoundInv, Replies, Timers, TimeoutOnItsWay, SlotGood
    <3>4. info'[s] = info[s]
      BY <1>5, <3>2
    <3>5. TimeoutAt(s) => TimeoutAt(s)'
      <4>1. \A c \in Actor : pc[c] = "dispatch" => pc'[c] = "dispatch"
        BY <1>t, <1>2 DEF Thread
      <4> QED
        BY <1>2, <3>2, <3>4, <4>1 DEF TimeoutAt, Timeout
    <3> QED
      BY <1>2, <3>1, <3>3, <3>5 DEF SlotGood
  <2> QED
    BY <2>1, <2>2
<1>8. Replies'
  <2>1. \A s \in Serial : s > asked' => accepted'[s] = 0
    BY <1>t, <1>2 DEF RoundInv, Replies, Serial
  <2> QED
    BY <1>7, <2>1 DEF Replies, SlotGood
<1>9. Timers' /\ TimeoutOnItsWay'
  BY <1>7 DEF Timers, TimeoutOnItsWay, SlotGood
<1>10. OneReplyUnlessReopened'
  BY <1>2 DEF RoundInv, OneReplyUnlessReopened
<1> QED
  BY <1>c, <1>6, <1>8, <1>9, <1>10 DEF RoundInv

\* Accepting a reply closes the ask to replies.
LEMMA AcceptReplyRound ==
    ASSUME RoundInv, NEW t \in Thread, NEW i \in Slot, NEW d \in ReplyId,
           Repliable(t, i, d), AcceptReply(t, i), CallInv'
    PROVE  RoundInv'
<1>t. /\ pc \in [Thread -> ThreadState] /\ call \in [Thread -> Call]
      /\ ask_table \in [Slot -> Pending] /\ accepted \in [Serial -> Nat]
  BY DEF RoundInv, CallInv, Inv, TypeOK
<1>1. PICK s0 : s0 = cur[t].ser
  OBVIOUS
<1>2. /\ ask_table[i].used /\ ask_table[i].ser = s0 /\ ~ask_table[i].reply_sent
      /\ cur[t].ask_id = s0 /\ s0 \in Serial /\ s0 \in 1 .. asked
  BY <1>1, SlotOf DEF RoundInv, Ids, ThreadsNumbered, Repliable, Found, Holds
<1>3. /\ ask_table' = [ask_table EXCEPT ![i].reply_sent = TRUE]
      /\ call' = [call EXCEPT ![t] = [to |-> ask_table[i].actor, ask_id |-> s0,
                                      reply_id |-> ask_table[i].reply_id, ser |-> s0]]
      /\ accepted' = [accepted EXCEPT ![s0] = @ + 1]
      /\ pc[t] = "user" /\ pc' = [pc EXCEPT ![t] = "reply_send"]
      /\ UNCHANGED <<next_ask_id, mailbox, cur, timer, asked, info, lost>>
  BY <1>1, <1>2 DEF AcceptReply, Repliable, Goto
<1>4. Ids'
  <2>1. ThreadsNumbered'
    BY <1>t, <1>3 DEF RoundInv, Ids, ThreadsNumbered
  <2>2. MailNumbered'
    BY <1>3, SameMail DEF RoundInv, Ids
  <2> QED
    BY <1>3, <2>1, <2>2 DEF RoundInv, Ids, Numbered
<1>5. /\ accepted[s0] = 0 \/ lost[s0]
      /\ accepted'[s0] = accepted[s0] + 1 /\ accepted[s0] \in Nat
      /\ \A s \in Serial : s # s0 => accepted'[s] = accepted[s]
  BY <1>t, <1>2, <1>3 DEF RoundInv, Replies
<1>6. OneReplyUnlessReopened'
  BY <1>3, <1>5 DEF RoundInv, OneReplyUnlessReopened
<1>7. \A j \in Slot : /\ ask_table'[j].used = ask_table[j].used
                      /\ ask_table'[j].ser = ask_table[j].ser
                      /\ ask_table'[j].timeout_queued = ask_table[j].timeout_queued
                      /\ j = i => ask_table'[j].reply_sent
                      /\ j # i => ask_table'[j].reply_sent = ask_table[j].reply_sent
  BY <1>t, <1>3 DEF Pending
<1>8. ASSUME NEW j \in Slot, NEW s, s = ask_table'[j].ser, ask_table'[j].used
      PROVE  SlotGood(j, s)'
  <2>1. /\ ask_table[j].used /\ s = ask_table[j].ser /\ s \in Serial
        /\ info[s].actor \in Actor
    BY <1>7, <1>8, SlotOf
  <2>2. SlotGood(j, s)
    BY <2>1 DEF RoundInv, Replies, Timers, TimeoutOnItsWay, SlotGood
  <2>3. TimeoutAt(s) => TimeoutAt(s)'
    <3>1. \A c \in Actor : pc[c] = "dispatch" => pc'[c] = "dispatch"
      BY <1>t, <1>3 DEF Thread
    <3> QED
      BY <1>3, <2>1, <3>1 DEF TimeoutAt, Timeout
  <2>4. s = s0 => j = i
    BY <1>2, <2>1 DEF RoundInv, CallInv, Inv, Safe, AskBookkeeping
  <2>5. ~ask_table'[j].reply_sent => accepted'[s] = 0 \/ lost'[s]
    BY <1>3, <1>5, <1>7, <2>1, <2>2, <2>4 DEF SlotGood
  <2> QED
    BY <1>3, <1>7, <2>2, <2>3, <2>5 DEF SlotGood
<1>9. Replies'
  <2>1. \A s \in Serial : s > asked' => accepted'[s] = 0
    BY <1>2, <1>3, <1>5 DEF RoundInv, Replies, CallInv, Inv, TypeOK
  <2> QED
    BY <1>8, <2>1 DEF Replies, SlotGood
<1>10. Timers' /\ TimeoutOnItsWay'
  BY <1>8 DEF Timers, TimeoutOnItsWay, SlotGood
<1> QED
  BY <1>4, <1>6, <1>9, <1>10 DEF RoundInv

\* Application code.
LEMMA UserStepRound == ASSUME FirstRound, RoundInv, NEW t \in Thread, UserStep(t)
                       PROVE  RoundInv'
<1>c. CallInv'
  BY UserStepCallInv DEF RoundInv
<1>t. ask_table \in [Slot -> Pending] /\ lost \in [Serial -> BOOLEAN]
  BY DEF RoundInv, CallInv, Inv, TypeOK
<1>1. CASE \E a, b \in Actor, d \in ReplyId, timed \in TimedAsks : Ask(t, a, b, d, timed)
  BY <1>1, AskRound
<1>2. CASE \/ \E s \in Serial : Cancel(t, s)
           \/ \E d \in ReplyId : ReplyTooLarge(t, d)
  <2>1. /\ \E i \in Slot : ask_table' = [ask_table EXCEPT ![i] = Cleared]
        /\ pc[t] = "user"
        /\ UNCHANGED <<next_ask_id, mailbox, pc, cur, call, timer, asked, info, accepted>>
    BY <1>2 DEF Cancel, ReplyTooLarge, Repliable, threads
  <2>2. \A s \in Serial : lost[s] => lost'[s]
    BY <1>2, <1>t DEF Cancel, ReplyTooLarge
  <2>3. \A i \in Slot : ask_table'[i].used => ask_table'[i] = ask_table[i]
    BY <1>t, <2>1, ClearingKeeps
  <2>4. (\A a \in Actor : Grown(a)) /\ MailNumbered'
    BY <2>1, SameMail DEF RoundInv, Ids
  <2>5. Replies' /\ Timers' /\ OneReplyUnlessReopened' /\ TimeoutOnItsWay'
    BY <2>1, <2>2, <2>3, <2>4, NoTimeoutTaken, QuietRound
  <2>6. Ids'
    BY <2>1, <2>4 DEF RoundInv, Ids, Numbered, ThreadsNumbered
  <2> QED
    BY <1>c, <2>5, <2>6 DEF RoundInv
<1>3. CASE \/ \E d \in ReplyId : Reply(t, d)
           \/ ReplyError(t)
  BY <1>c, <1>3, AcceptReplyRound DEF Reply, ReplyError
<1> QED
  BY <1>1, <1>2, <1>3 DEF UserStep

\* Messages are taken in order, and keep their numbers.
LEMMA Dequeued ==
    ASSUME RoundInv, NEW a \in Actor, Dequeue(a)
    PROVE  /\ \A n \in 1 .. Len(mailbox[a]) :
                 \/ cur'[a] = mailbox[a][n]
                 \/ \E k \in 1 .. Len(mailbox'[a]) : mailbox'[a][k] = mailbox[a][n]
           /\ MailNumbered'
           /\ cur'[a].ask_id = cur'[a].ser
           /\ \A b \in Actor : b # a => mailbox'[b] = mailbox[b]
           /\ \A u \in Thread : u # a => cur'[u] = cur[u]
<1>1. /\ mailbox \in [Actor -> Seq(Message)] /\ a \in Thread
      /\ cur \in [Thread -> Message \cup {NoMsg}]
  BY DEF RoundInv, CallInv, Inv, TypeOK, Thread
<1>2. PICK q \in Seq(Message) : q = mailbox[a] /\ q # << >>
  BY <1>1 DEF Dequeue
<1>3. /\ mailbox'[a] = Tail(q) /\ cur'[a] = Head(q)
      /\ \A b \in Actor : b # a => mailbox'[b] = mailbox[b]
      /\ \A u \in Thread : u # a => cur'[u] = cur[u]
  BY <1>1, <1>2 DEF Dequeue
<1>4. /\ Head(q) = q[1] /\ Len(q) \in Nat /\ Len(q) > 0 /\ Len(Tail(q)) = Len(q) - 1
      /\ \A k \in 1 .. Len(q) - 1 : Tail(q)[k] = q[k + 1]
  BY <1>2
<1>5. \A n \in 1 .. Len(q) : q[n].ask_id = q[n].ser
  BY <1>2 DEF RoundInv, Ids, MailNumbered
<1>6. \A k \in 1 .. Len(Tail(q)) : Tail(q)[k].ask_id = Tail(q)[k].ser
  BY <1>4, <1>5
<1>7. MailNumbered'
  BY <1>3, <1>6 DEF RoundInv, Ids, MailNumbered
<1>8. ASSUME NEW n \in 1 .. Len(q)
      PROVE  q[n] = Head(q) \/ \E k \in 1 .. Len(Tail(q)) : Tail(q)[k] = q[n]
  <2>1. CASE n = 1
    BY <1>4, <2>1
  <2>2. CASE n # 1
    <3>1. n - 1 \in 1 .. Len(Tail(q)) /\ Tail(q)[n - 1] = q[n]
      BY <1>4, <2>2
    <3> QED
      BY <3>1
  <2> QED
    BY <2>1, <2>2
<1>9. cur'[a].ask_id = cur'[a].ser
  <2>1. 1 \in 1 .. Len(q)
    BY <1>4
  <2> QED
    BY <1>3, <1>4, <1>5, <2>1
<1> QED
  BY <1>2, <1>3, <1>7, <1>8, <1>9

\* The timeout message of a pending ask, when it is dispatched, completes the
\* ask: its slot is not in use any more.
LEMMA TimeoutCompletes ==
    ASSUME RoundInv, NEW a \in Actor, NEW i \in Slot, NEW s,
           ask_table[i].used, ask_table[i].ser = s, info[s].actor = a, cur[a] = Timeout(s),
           timer[s] \in {"sending", "undo", "done"}, ~lost[s]
    PROVE  Completes(a, i)
<1>1. s \in 1 .. asked /\ info[s].ask_id = s
  BY SlotOf
<1>2. TimerHits(s, i)
  BY <1>1, TimerHitsOwn
<1>3. ask_table[i].timeout_queued
  BY DEF RoundInv, Timers
<1>4. cur[a].id = "timeout" /\ cur[a].ask_id = s
  BY <1>1 DEF Timeout
<1> QED
  BY <1>1, <1>2, <1>3, <1>4 DEF Completes, TimerHits

\* The thread of an actor.
LEMMA DispatchStepRound == ASSUME RoundInv, NEW a \in Actor, DispatchStep(a)
                           PROVE  RoundInv'
<1>c. CallInv'
  BY DispatchStepCallInv DEF RoundInv
<1>t. /\ pc \in [Thread -> ThreadState] /\ ask_table \in [Slot -> Pending]
      /\ cur \in [Thread -> Message \cup {NoMsg}] /\ a \in Thread
  BY DEF RoundInv, CallInv, Inv, TypeOK, Thread
<1>1. /\ UNCHANGED <<next_ask_id, asked, info, timer, accepted, lost, call>>
      /\ \E p : pc' = [pc EXCEPT ![a] = p]
  BY DEF DispatchStep, Dequeue, DispatchCallback, DispatchHandler, HandlerReturn, Goto,
         table, history
<1>2. \A i \in Slot : ask_table'[i].used => ask_table'[i] = ask_table[i]
  <2>1. ask_table' = ask_table \/ \E i \in Slot : ask_table' = [ask_table EXCEPT ![i] = Cleared]
    BY DEF DispatchStep, Dequeue, DispatchCallback, DispatchHandler, HandlerReturn, table
  <2> QED
    BY <1>t, <2>1, ClearingKeeps
<1>3. MailNumbered' /\ ThreadsNumbered'
  <2>1. CASE Dequeue(a)
    BY <1>1, <2>1, Dequeued DEF RoundInv, Ids, ThreadsNumbered
  <2>2. CASE DispatchCallback(a) \/ DispatchHandler(a) \/ HandlerReturn(a)
    <3>1. mailbox' = mailbox /\ (cur' = cur \/ cur' = [cur EXCEPT ![a] = NoMsg])
      BY <2>2 DEF DispatchCallback, DispatchHandler, HandlerReturn
    <3> QED
      BY <1>t, <1>1, <3>1, SameMail DEF RoundInv, Ids, ThreadsNumbered
  <2> QED
    BY <2>1, <2>2 DEF DispatchStep
<1>4. Ids'
  BY <1>1, <1>3 DEF RoundInv, Ids, Numbered
<1>5. ASSUME NEW i \in Slot, NEW s \in Serial, ask_table'[i].used, ask_table[i].ser = s
      PROVE  WayKept(s)
  <2>1. /\ ask_table[i].used /\ info[s].actor \in Actor /\ info[s].actor \in Thread
    BY <1>2, <1>5, SlotOf DEF Thread
  <2>2. CASE info[s].actor # a
    <3>1. PICK b \in Actor : b = info[s].actor /\ b # a
      BY <2>1, <2>2
    <3>2. pc'[b] = pc[b] /\ cur'[b] = cur[b] /\ mailbox'[b] = mailbox[b]
      <4>1. pc'[b] = pc[b]
        BY <1>t, <1>1, <3>1
      <4>2. CASE Dequeue(a)
        BY <2>1, <3>1, <4>1, <4>2, Dequeued
      <4>3. CASE DispatchCallback(a) \/ DispatchHandler(a) \/ HandlerReturn(a)
        BY <1>t, <2>1, <3>1, <4>1, <4>3 DEF DispatchCallback, DispatchHandler, HandlerReturn
      <4> QED
        BY <4>2, <4>3 DEF DispatchStep
    <3>3. Grown(b)
      BY <3>2 DEF Grown
    <3> QED
      BY <1>1, <2>1, <3>1, <3>2, <3>3, OnTheWay DEF WayKept
  <2>3. CASE info[s].actor = a /\ Dequeue(a)
    <3>1. pc[a] = "idle" /\ pc'[a] = "dispatch"
      BY <1>t, <2>3 DEF Dequeue, Goto
    <3>2. Timeout(s)' = Timeout(s) /\ info'[s].actor = a
      BY <1>1, <2>3 DEF Timeout
    <3>3. ASSUME TimeoutAt(s) PROVE TimeoutAt(s)'
      <4>1. PICK n \in 1 .. Len(mailbox[a]) : mailbox[a][n] = Timeout(s)
        BY <2>3, <3>1, <3>3 DEF TimeoutAt
      <4>2. cur'[a] = Timeout(s) \/ \E k \in 1 .. Len(mailbox'[a]) : mailbox'[a][k] = Timeout(s)
        BY <2>3, <4>1, Dequeued
      <4> QED
        BY <3>1, <3>2, <4>2 DEF TimeoutAt
    <3> QED
      BY <3>3 DEF WayKept
  <2>4. CASE info[s].actor = a /\ ~Dequeue(a)
    <3>1. mailbox' = mailbox
      BY <2>4 DEF DispatchStep, DispatchCallback, DispatchHandler, HandlerReturn
    <3>2. Timeout(s)' = Timeout(s) /\ info'[s].actor = a
      BY <1>1, <2>4 DEF Timeout
    <3>3. ASSUME pc[a] = "dispatch", cur[a] = Timeout(s), timer[s] = "done", ~lost[s]
          PROVE  FALSE
      <4>1. Completes(a, i)
        BY <1>5, <2>1, <2>4, <3>3, TimeoutCompletes
      <4>2. PICK j \in Slot : Completes(a, j) /\ ask_table' = [ask_table EXCEPT ![j] = Cleared]
        BY <2>4, <3>3, <4>1 DEF DispatchStep, DispatchCallback, DispatchHandler, HandlerReturn
      <4>3. i = j
        BY <4>1, <4>2 DEF Completes, Found, Holds, RoundInv, CallInv, Inv, Safe, UniqueIds
      <4> QED
        BY <1>t, <1>5, <4>2, <4>3 DEF Cleared
    <3>4. ASSUME timer[s] = "done", TimeoutAt(s), ~lost[s] PROVE TimeoutAt(s)'
      <4>1. \E n \in 1 .. Len(mailbox[a]) : mailbox[a][n] = Timeout(s)
        BY <2>4, <3>3, <3>4 DEF TimeoutAt
      <4> QED
        BY <3>1, <3>2, <4>1 DEF TimeoutAt
    <3> QED
      BY <1>1, <3>4 DEF WayKept
  <2> QED
    BY <2>2, <2>3, <2>4
<1>6. Replies' /\ Timers' /\ OneReplyUnlessReopened' /\ TimeoutOnItsWay'
  BY <1>1, <1>2, <1>5, QuietRound
<1> QED
  BY <1>c, <1>4, <1>6 DEF RoundInv

\* A timer step, whatever it does, leaves the messages on their way.
LEMMA TimerLeavesWay ==
    ASSUME RoundInv, NEW s0 \in Serial, UNCHANGED <<info, pc, cur>>,
           \A a \in Actor : Grown(a), NEW i \in Slot, NEW s \in Serial,
           ask_table[i].used, ask_table[i].ser = s
    PROVE  WayKept(s)
<1>1. info[s].actor \in Actor
  BY SlotOf
<1> QED
  BY <1>1, OnTheWay DEF WayKept

\* The timer of an ask sets and resets the flags of its own slot only.
LEMMA TimerStepRound == ASSUME RoundInv, NEW s0 \in Serial, TimerStep(s0)
                        PROVE  RoundInv'
<1>c. CallInv'
  BY TimerStepCallInv DEF RoundInv
<1>t. /\ ask_table \in [Slot -> Pending] /\ timer \in [Serial -> TimerState]
      /\ mailbox \in [Actor -> Seq(Message)] /\ lost \in [Serial -> BOOLEAN]
      /\ asked \in Nat
  BY SizeAssumption DEF RoundInv, CallInv, Inv, TypeOK
<1>1. /\ UNCHANGED <<next_ask_id, asked, info, pc, cur, call, accepted>>
      /\ \A s \in Serial : s # s0 => timer'[s] = timer[s]
      /\ timer[s0] # "none"
  BY <1>t DEF TimerStep, TimerExpires, TimerLate, TimerSend, TimerSendFails, TimerUndo,
              threads, history, table
<1>2. s0 \in 1 .. asked /\ info[s0].actor \in Actor /\ info[s0].ask_id = s0
  <2>1. s0 \in 1 .. asked
    BY <1>t, <1>1 DEF RoundInv, CallInv, Begun, Serial
  <2> QED
    BY <2>1 DEF RoundInv, CallInv, Begun, Ids, Numbered
<1>3. MailNumbered' /\ \A a \in Actor : Grown(a)
  <2>1. CASE mailbox' = mailbox
    BY <2>1, SameMail DEF RoundInv, Ids
  <2>2. CASE TimerSend(s0)
    <3>1. Timeout(s0).ask_id = Timeout(s0).ser
      BY <1>2 DEF Timeout
    <3> QED
      BY <1>t, <2>2, <3>1, Enqueued DEF RoundInv, Ids, TimerSend
  <2> QED
    BY <2>1, <2>2 DEF TimerStep, TimerExpires, TimerLate, TimerSendFails, TimerUndo
<1>4. Ids'
  BY <1>1, <1>3 DEF RoundInv, Ids, Numbered, ThreadsNumbered
<1>5. \A i \in Slot, s \in Serial :
         s # s0 /\ ask_table[i].used /\ ask_table[i].ser = s => WayKept(s)
  BY <1>1, <1>3, TimerLeavesWay
<1>6. \A s \in Serial : lost[s] => lost'[s]
  BY <1>t DEF TimerStep, TimerExpires, TimerLate, TimerSend, TimerSendFails, TimerUndo, history
<1>7. \A i \in Slot : TimerHits(s0, i) <=> ask_table[i].used /\ ask_table[i].ser = s0
  BY <1>2, TimerHitsOwn
<1>8. \A i \in Slot : ask_table[i].used /\ ask_table[i].ser = s0 =>
         /\ ~ask_table[i].reply_sent => accepted[s0] = 0 \/ lost[s0]
         /\ timer[s0] = "armed" => ~ask_table[i].timeout_queued
         /\ timer[s0] \in {"sending", "undo", "done"} => ask_table[i].timeout_queued \/ lost[s0]
  BY DEF RoundInv, Replies, Timers
<1>9. CASE ask_table' = ask_table
  <2>1. ASSUME NEW i \in Slot, ask_table[i].used, ask_table[i].ser = s0
        PROVE  SlotGood(i, s0)'
    <3>1. CASE TimerLate(s0)
      BY <1>7, <1>8, <2>1, <3>1 DEF TimerLate
    <3>2. CASE TimerSend(s0)
      <4>1. timer[s0] = "sending" /\ timer'[s0] = "done" /\ lost' = lost
            /\ Enqueue(info[s0].actor, Timeout(s0))
        BY <1>t, <3>2 DEF TimerSend, history
      <4>2. TimeoutAt(s0)'
        <5>1. PICK a \in Actor : a = info[s0].actor
          BY <1>2
        <5>2. \E n \in 1 .. Len(mailbox'[a]) : mailbox'[a][n] = Timeout(s0)
          BY <1>t, <4>1, <5>1, Enqueued
        <5>3. Timeout(s0)' = Timeout(s0) /\ info'[s0].actor = a
          BY <1>1, <5>1 DEF Timeout
        <5> QED
          BY <5>2, <5>3 DEF TimeoutAt
      <4> QED
        BY <1>1, <1>8, <1>9, <2>1, <4>1, <4>2 DEF SlotGood
    <3>3. CASE TimerSendFails(s0)
      <4>1. timer[s0] = "sending" /\ timer'[s0] = "undo" /\ lost' = lost
        BY <1>t, <3>3 DEF TimerSendFails, history
      <4> QED
        BY <1>1, <1>8, <1>9, <2>1, <4>1 DEF SlotGood
    <3>4. CASE TimerExpires(s0)
      <4>1. PICK j \in Slot : /\ TimerHits(s0, j) /\ ~ask_table[j].timeout_queued
                              /\ ask_table' = [ask_table EXCEPT ![j] =
                                   [ask_table[j] EXCEPT !.reply_sent = TRUE,
                                                        !.timeout_queued = TRUE]]
        BY <3>4 DEF TimerExpires
      <4>2. ask_table'[j].timeout_queued
        BY <1>t, <4>1 DEF Pending
      <4> QED
        BY <1>9, <4>1, <4>2
    <3>5. CASE TimerUndo(s0)
      <4>1. timer'[s0] = "done" /\ lost'[s0]
        BY <1>t, <3>5 DEF TimerUndo
      <4> QED
        BY <4>1 DEF SlotGood
    <3> QED
      BY <3>1, <3>2, <3>3, <3>4, <3>5 DEF TimerStep
  <2>2. Replies' /\ Timers' /\ OneReplyUnlessReopened' /\ TimeoutOnItsWay'
    BY <1>1, <1>5, <1>6, <1>9, <2>1, TimerRound
  <2> QED
    BY <1>c, <1>4, <2>2 DEF RoundInv
<1>10. CASE TimerExpires(s0)
  <2>1. PICK j \in Slot : /\ TimerHits(s0, j)
                          /\ ask_table' = [ask_table EXCEPT ![j] =
                               [ask_table[j] EXCEPT !.reply_sent = TRUE,
                                                    !.timeout_queued = TRUE]]
    BY <1>10 DEF TimerExpires
  <2>2. timer'[s0] = "sending" /\ lost' = lost
    BY <1>t, <1>10 DEF TimerExpires, history
  <2>3. /\ ask_table[j].used /\ ask_table[j].ser = s0 /\ ask_table[j] \in Pending
        /\ \A i \in Slot : i # j => ask_table'[i] = ask_table[i]
    BY <1>t, <1>7, <2>1
  <2>4. /\ ask_table'[j].used = ask_table[j].used /\ ask_table'[j].ser = ask_table[j].ser
        /\ ask_table'[j].reply_sent /\ ask_table'[j].timeout_queued
    BY <1>t, <2>1, <2>3 DEF Pending
  <2>5. ASSUME NEW i \in Slot, ask_table[i].used, ask_table[i].ser = s0
        PROVE  SlotGood(i, s0)'
    <3>1. i = j
      BY <2>3, <2>5 DEF RoundInv, CallInv, Inv, Safe, AskBookkeeping
    <3> QED
      BY <2>2, <2>4, <3>1 DEF SlotGood
  <2>6. \A i \in Slot : /\ ask_table'[i].used = ask_table[i].used
                        /\ ask_table'[i].ser = ask_table[i].ser
                        /\ ask_table[i].ser # s0 => ask_table'[i] = ask_table[i]
    BY <2>3, <2>4
  <2>7. Replies' /\ Timers' /\ OneReplyUnlessReopened' /\ TimeoutOnItsWay'
    BY <1>1, <1>5, <1>6, <2>5, <2>6, TimerRound
  <2> QED
    BY <1>c, <1>4, <2>7 DEF RoundInv
<1>11. CASE TimerUndo(s0)
  <2>1. timer'[s0] = "done" /\ lost'[s0]
    BY <1>t, <1>11 DEF TimerUndo
  <2>2. ASSUME NEW i \in Slot
        PROVE  /\ ask_table'[i].used = ask_table[i].used
               /\ ask_table'[i].ser = ask_table[i].ser
               /\ ask_table[i].ser # s0 => ask_table'[i] = ask_table[i]
    <3>1. ask_table'[i] = IF TimerHits(s0, i)
                          THEN [ask_table[i] EXCEPT !.reply_sent = FALSE, !.timeout_queued = FALSE]
                          ELSE ask_table[i]
      BY <1>11 DEF TimerUndo
    <3>2. ask_table[i] \in Pending
      BY <1>t
    <3> QED
      BY <1>7, <3>1, <3>2, FlagsReset
  <2>3. \A i \in Slot : SlotGood(i, s0)'
    BY <2>1 DEF SlotGood
  <2>4. Replies' /\ Timers' /\ OneReplyUnlessReopened' /\ TimeoutOnItsWay'
    BY <1>1, <1>5, <1>6, <2>2, <2>3, TimerRound
  <2> QED
    BY <1>c, <1>4, <2>4 DEF RoundInv
<1> QED
  BY <1>9, <1>10, <1>11 DEF TimerStep, TimerLate, TimerSend, TimerSendFails, table

\* Other messages, and restarts, which lose the timeouts they drop.
LEMMA EnvironmentRound == ASSUME RoundInv, CallInv', NEW a \in Actor, Traffic(a) \/ Restart(a)
                          PROVE  RoundInv'
<1>t. /\ mailbox \in [Actor -> Seq(Message)] /\ lost \in [Serial -> BOOLEAN]
  BY DEF RoundInv, CallInv, Inv, TypeOK
<1>1. UNCHANGED <<ask_table, next_ask_id, pc, cur, call, timer, asked, info, accepted>>
  BY DEF Traffic, Restart, table, threads, history
<1>2. MailNumbered'
  <2>1. CASE Traffic(a)
    <3>1. Plain.ask_id = Plain.ser
      BY DEF Plain
    <3> QED
      BY <1>t, <2>1, <3>1, Enqueued DEF Traffic, RoundInv, Ids
  <2>2. CASE Restart(a)
    <3>1. mailbox'[a] = << >> /\ \A b \in Actor : b # a => mailbox'[b] = mailbox[b]
      BY <1>t, <2>2 DEF Restart
    <3> QED
      BY <3>1 DEF RoundInv, Ids, MailNumbered
  <2> QED
    BY <2>1, <2>2
<1>3. \A s \in Serial : lost[s] => lost'[s]
  BY <1>t DEF Traffic, Restart, history
<1>4. ASSUME NEW i \in Slot, NEW s \in Serial, ask_table'[i].used, ask_table[i].ser = s
      PROVE  WayKept(s)
  <2>1. ask_table[i].used /\ info[s].actor \in Actor
    BY <1>1, <1>4, SlotOf
  <2>2. CASE Grown(info[s].actor)
    BY <1>1, <2>1, <2>2, OnTheWay DEF WayKept
  <2>3. CASE ~Grown(info[s].actor)
    <3>1. Restart(a)
      BY <1>t, <2>1, <2>3, Enqueued DEF Traffic
    <3>2. info[s].actor = a
      <4>1. \A b \in Actor : b # a => mailbox'[b] = mailbox[b]
        BY <1>t, <3>1 DEF Restart
      <4> QED
        BY <2>1, <2>3, <4>1 DEF Grown
    <3>3. Timeout(s)' = Timeout(s) /\ info'[s].actor = a
      BY <1>1, <3>2 DEF Timeout
    <3>4. ASSUME TimeoutAt(s) PROVE TimeoutAt(s)' \/ lost'[s]
      <4>1. CASE \E n \in 1 .. Len(mailbox[a]) : mailbox[a][n] = Timeout(s)
        <5>1. lost'[s]
          BY <3>1, <4>1 DEF Restart
        <5> QED
          BY <5>1
      <4>2. CASE pc[a] = "dispatch" /\ cur[a] = Timeout(s)
        BY <1>1, <3>3, <4>2 DEF TimeoutAt
      <4> QED
        BY <3>2, <3>4, <4>1, <4>2 DEF TimeoutAt
    <3> QED
      BY <3>4 DEF WayKept
  <2> QED
    BY <2>2, <2>3
<1>5. Replies' /\ Timers' /\ OneReplyUnlessReopened' /\ TimeoutOnItsWay'
  BY <1>1, <1>3, <1>4, QuietRound
<1>6. Ids'
  BY <1>1, <1>2 DEF RoundInv, Ids, Numbered, ThreadsNumbered
<1> QED
  BY <1>5, <1>6 DEF RoundInv

LEMMA InitRound == Init => RoundInv
<1> SUFFICES ASSUME Init PROVE RoundInv
  OBVIOUS
<1>1. CallInv
  BY InitCallInv
<1>2. Ids
  <2>1. Numbered
    BY SizeAssumption DEF Init, Numbered
  <2>2. MailNumbered /\ ThreadsNumbered
    BY DEF Init, MailNumbered, ThreadsNumbered, NoCall
  <2> QED
    BY <2>1, <2>2 DEF Ids
<1>3. Replies /\ Timers /\ OneReplyUnlessReopened
  BY DEF Init, Replies, Timers, OneReplyUnlessReopened, Cleared
<1>4. TimeoutOnItsWay
  BY DEF Init, TimeoutOnItsWay, Cleared
<1> QED
  BY <1>1, <1>2, <1>3, <1>4 DEF RoundInv

\* Every step of the first round preserves its invariant.
LEMMA NextRound == ASSUME FirstRound PROVE RoundInv /\ [Next]_vars => RoundInv'
<1> SUFFICES ASSUME RoundInv, [Next]_vars PROVE RoundInv'
  OBVIOUS
<1>c. CallInv'
  BY NextCallInv DEF RoundInv
<1>1. CASE \E t \in Thread : CallStep(t)
  BY <1>1, CallStepRound
<1>2. CASE \E t \in Thread : UserStep(t)
  BY <1>2, UserStepRound
<1>3. CASE \E a \in Actor : DispatchStep(a)
  BY <1>3, DispatchStepRound
<1>4. CASE \E s \in Serial : TimerStep(s)
  BY <1>4, TimerStepRound
<1>5. CASE \/ \E a \in Noisy : Traffic(a)
           \/ \E a \in Actor : Restart(a)
  BY <1>c, <1>5, EnvironmentRound, ActorAssumption
<1>6. CASE UNCHANGED vars
  <2>1. UNCHANGED <<ask_table, next_ask_id, mailbox, pc, cur, call, timer, asked, info,
                    accepted, lost>>
    BY <1>6 DEF vars
  <2>2. Ids'
    BY <2>1, SameMail DEF RoundInv, Ids, Numbered, ThreadsNumbered
  <2>3. \A s \in Serial : WayKept(s)
    BY <2>1 DEF WayKept, TimeoutAt, Timeout
  <2> QED
    BY <1>c, <2>1, <2>2, <2>3, QuietRound DEF RoundInv
<1> QED
  BY <1>1, <1>2, <1>3, <1>4, <1>5, <1>6 DEF Next

-----------------------------------------------------------------------------
(* The theorems *)

\* alloc_ask_id never returns its -ENOMEM: whenever ipc_ask has found a free
\* slot there is an id for it, through every wrap-around of next_ask_id.
THEOREM IdsNeverRunOut == Spec => []IdAvailable
  BY TypesAreCorrect, IdIsAvailable, PTL

\* The invariant about ipc_ask calls, in every state of every execution.
THEOREM CallInvariant == Spec => []CallInv
<1>1. Init => CallInv
  BY InitCallInv
<1>2. CallInv /\ [Next]_vars => CallInv'
  BY NextCallInv
<1> QED
  BY <1>1, <1>2, PTL DEF Spec

\* When an actor's own ipc_ask returns an error the callback has not run and
\* never will, even if the timeout expired, or a reply came, during the call.
THEOREM FailedAsksAreSilent == Spec => []FailedAskIsSilent
  BY CallInvariant, PTL DEF CallInv

\* The invariant of the first round of next_ask_id.
THEOREM RoundInvariant == ASSUME FirstRound PROVE Spec => []RoundInv
<1>1. Init => RoundInv
  BY InitRound
<1>2. RoundInv /\ [Next]_vars => RoundInv'
  BY NextRound
<1> QED
  BY <1>1, <1>2, PTL DEF Spec

\* Until next_ask_id has used up its ids no message, and no timer, is taken
\* for that of another ask, however late it comes.
THEOREM MessagesAreCorrelated == ASSUME FirstRound PROVE Spec => []CorrelatedIds
<1>1. RoundInv => CorrelatedIds
  <2> SUFFICES ASSUME RoundInv, NEW m \in InFlight, NEW i \in Slot, Holds(i, m.ask_id)
               PROVE  ask_table[i].ser = m.ser
    BY DEF CorrelatedIds
  <2>1. ask_table[i].ser = m.ask_id
    BY SlotOf DEF Holds
  <2>2. m.ask_id = m.ser
    <3>1. CASE \E a \in Actor : \E n \in 1 .. Len(mailbox[a]) : m = mailbox[a][n]
      BY <3>1 DEF RoundInv, Ids, MailNumbered
    <3>2. CASE \E t \in Thread : cur[t] # NoMsg /\ m = cur[t]
      BY <3>2 DEF RoundInv, Ids, ThreadsNumbered
    <3>3. CASE \E s \in Serial : timer[s] \in {"armed", "sending", "undo"} /\ m = Timeout(s)
      <4>1. PICK s \in Serial : timer[s] \in {"armed", "sending", "undo"} /\ m = Timeout(s)
        BY <3>3
      <4>2. s \in 1 .. asked
        BY <4>1, SizeAssumption DEF RoundInv, CallInv, Begun, Serial, Inv, TypeOK
      <4>3. info[s].ask_id = s
        BY <4>2 DEF RoundInv, Ids, Numbered
      <4> QED
        BY <4>1, <4>3 DEF Timeout
    <3> DEFINE A == UNION {{mailbox[a][n] : n \in 1 .. Len(mailbox[a])} : a \in Actor}
               B == {cur[t] : t \in {u \in Thread : cur[u] # NoMsg}}
               C == {Timeout(s) : s \in {u \in Serial : timer[u] \in {"armed", "sending", "undo"}}}
    <3>4. m \in A \/ m \in B \/ m \in C
      <4>1. InFlight = A \cup B \cup C
        BY DEF InFlight
      <4> HIDE DEF A, B, C
      <4> QED
        BY <4>1
    <3>5. CASE m \in A
      BY <3>1, <3>5, Zenon
    <3>6. CASE m \in B
      BY <3>2, <3>6, Zenon
    <3>7. CASE m \in C
      BY <3>3, <3>7, Zenon
    <3> QED
      BY <3>4, <3>5, <3>6, <3>7
  <2> QED
    BY <2>1, <2>2
<1> QED
  BY <1>1, RoundInvariant, PTL

\* In the first round a second reply is refused, unless the timeout that
\* found the mailbox full reopened the ask.
THEOREM RepliesAreSingle == ASSUME FirstRound PROVE Spec => []OneReplyUnlessReopened
<1>1. RoundInv => OneReplyUnlessReopened
  BY DEF RoundInv
<1> QED
  BY <1>1, RoundInvariant, PTL

\* In the first round the timeout of a pending ask is not forgotten: its
\* helper, its message, or the note that the message was dropped exists.
THEOREM TimeoutsAreNotForgotten == ASSUME FirstRound PROVE Spec => []TimeoutOnItsWay
<1>1. RoundInv => TimeoutOnItsWay
  BY DEF RoundInv
<1> QED
  BY <1>1, RoundInvariant, PTL
=============================================================================
