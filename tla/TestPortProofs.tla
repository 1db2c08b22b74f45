-------------------------- MODULE TestPortProofs --------------------------
(***************************************************************************)
(* Proofs about the deterministic test port, for every number of actors,   *)
(* every queue depth and every nesting of ipc_test_run_until_idle.         *)
(***************************************************************************)
EXTENDS TestPort, SequenceTheorems, TLAPS

-----------------------------------------------------------------------------
(* The inductive invariant *)

\* The ring of actor a, a conjunct of RingConsistent.
Consistent(a) ==
    started[a] =>
      /\ count[a] = Len(box[a])
      /\ tail[a] = (head[a] + count[a]) % QueueDepth
      /\ \A n \in 1 .. count[a] : queue[a][(head[a] + n - 1) % QueueDepth] = box[a][n]

RingInv == \A a \in Actor : Consistent(a)

\* Only a handler calls ipc_test_run_until_idle from inside it.
NestInv == \A k \in 1 .. Len(frames) - 1 : frames[k].actor # 0

\* The innermost loop, while it has made no progress in its round, has left
\* nothing behind: no handler has run that could have sent.
IdleInv == frames # <<>> /\ Top.actor = 0 /\ ~Top.made_progress =>
             \A a \in Actor : a < Top.cursor => ~Servable(a)

Inv == TypeOK /\ RingInv /\ CopyIntact /\ NestInv /\ IdleInv

-----------------------------------------------------------------------------
(* Slot arithmetic: a ring of n slots whose oldest message is at h *)

LEMMA ModSum == ASSUME NEW n \in Nat \ {0}, NEW h \in 0 .. n - 1, NEW k \in 0 .. n
                PROVE  /\ (h + k) % n = IF h + k < n THEN h + k ELSE h + k - n
                       /\ (h + k) % n \in 0 .. n - 1
  OBVIOUS

\* The slot behind k < n messages holds none of them.
LEMMA BehindIsFree == ASSUME NEW n \in Nat \ {0}, NEW h \in 0 .. n - 1, NEW k \in 0 .. n - 1,
                             NEW i \in 1 .. k
                      PROVE  (h + i - 1) % n # (h + k) % n
<1>1. i - 1 \in 0 .. n /\ k \in 0 .. n /\ h + (i - 1) = h + i - 1
  OBVIOUS
<1>2. (h + (i - 1)) % n = IF h + (i - 1) < n THEN h + (i - 1) ELSE h + (i - 1) - n
  BY <1>1, ModSum
<1>3. (h + k) % n = IF h + k < n THEN h + k ELSE h + k - n
  BY <1>1, ModSum
<1> QED BY <1>1, <1>2, <1>3

\* The k-th slot from the second one on is the next slot after the k-th.
LEMMA NextSlot == ASSUME NEW n \in Nat \ {0}, NEW h \in 0 .. n - 1, NEW k \in 0 .. n - 1
                  PROVE  /\ (((h + 1) % n) + k) % n = (h + (k + 1)) % n
                         /\ (((h + k) % n) + 1) % n = (h + (k + 1)) % n
<1>1. 1 \in 0 .. n /\ k \in 0 .. n /\ k + 1 \in 0 .. n
  OBVIOUS
<1>2. (h + 1) % n = (IF h + 1 < n THEN h + 1 ELSE h + 1 - n) /\ (h + 1) % n \in 0 .. n - 1
  BY <1>1, ModSum
<1>3. (h + k) % n = (IF h + k < n THEN h + k ELSE h + k - n) /\ (h + k) % n \in 0 .. n - 1
  BY <1>1, ModSum
<1>4. (h + (k + 1)) % n = IF h + (k + 1) < n THEN h + (k + 1) ELSE h + (k + 1) - n
  BY <1>1, ModSum
<1>5. (((h + 1) % n) + k) % n = IF ((h + 1) % n) + k < n THEN ((h + 1) % n) + k
                                ELSE ((h + 1) % n) + k - n
  BY <1>1, <1>2, ModSum
<1>6. (((h + k) % n) + 1) % n = IF ((h + k) % n) + 1 < n THEN ((h + k) % n) + 1
                                ELSE ((h + k) % n) + 1 - n
  BY <1>1, <1>3, ModSum
<1> QED BY <1>1, <1>2, <1>3, <1>4, <1>5, <1>6

-----------------------------------------------------------------------------
(* The rings *)

\* enqueue writes behind the messages of the ring.
LEMMA SendRing == ASSUME TypeOK, RingInv, NEW a \in Actor, Send(a)
                  PROVE  TypeOK' /\ RingInv'
<1>t. /\ QueueDepth \in Nat \ {0} /\ MaxSends \in Nat /\ sends \in Nat
      /\ queue \in [Actor -> [Index -> Msg \cup {NoMsg}]]
      /\ head[a] \in 0 .. QueueDepth - 1 /\ tail[a] \in Index
      /\ tail \in [Actor -> Index] /\ head \in [Actor -> Index]
      /\ count \in [Actor -> 0 .. QueueDepth] /\ box \in [Actor -> Seq(Msg)]
      /\ count[a] \in 0 .. QueueDepth - 1
      /\ started[a] /\ sends < MaxSends
      /\ queue' = [queue EXCEPT ![a][tail[a]] = sends + 1]
      /\ tail' = [tail EXCEPT ![a] = (@ + 1) % QueueDepth]
      /\ count' = [count EXCEPT ![a] = @ + 1]
      /\ box' = [box EXCEPT ![a] = Append(@, sends + 1)]
      /\ UNCHANGED <<lifecycle_state, started, head, receive_slot, frames, starts>>
      /\ sends' = sends + 1
  BY SizeAssumption DEF TypeOK, Send, Index
<1>1. sends + 1 \in Msg /\ sends + 1 \in 0 .. MaxSends
  BY <1>t DEF Msg
<1>2. /\ queue'[a] = [queue[a] EXCEPT ![tail[a]] = sends + 1] /\ queue'[a] \in [Index -> Msg \cup {NoMsg}]
      /\ \A b \in Actor \ {a} : queue'[b] = queue[b]
      /\ queue' \in [Actor -> [Index -> Msg \cup {NoMsg}]]
  BY <1>t, <1>1
<1>3. /\ tail'[a] = (tail[a] + 1) % QueueDepth /\ tail'[a] \in Index
      /\ \A b \in Actor \ {a} : tail'[b] = tail[b]
  BY <1>t DEF Index
<1>4. /\ count'[a] = count[a] + 1 /\ count'[a] \in 0 .. QueueDepth
      /\ \A b \in Actor \ {a} : count'[b] = count[b]
  BY <1>t
<1>5. /\ box'[a] = Append(box[a], sends + 1) /\ box'[a] \in Seq(Msg)
      /\ \A b \in Actor \ {a} : box'[b] = box[b]
  BY <1>t, <1>1
<1>6. TypeOK'
  <2>1. tail' \in [Actor -> Index] /\ count' \in [Actor -> 0 .. QueueDepth]
    BY <1>t, <1>3, <1>4
  <2>2. box' \in [Actor -> Seq(Msg)]
    BY <1>t, <1>5
  <2> QED BY <1>t, <1>1, <1>2, <2>1, <2>2 DEF TypeOK
<1>7. ASSUME NEW b \in Actor \ {a} PROVE Consistent(b)'
  BY <1>t, <1>2, <1>3, <1>4, <1>5 DEF RingInv, Consistent
<1>8. Consistent(a)'
  <2> DEFINE h == head[a]  c == count[a]
  <2>1. /\ c = Len(box[a]) /\ tail[a] = (h + c) % QueueDepth
        /\ \A n \in 1 .. c : queue[a][(h + n - 1) % QueueDepth] = box[a][n]
    BY <1>t DEF RingInv, Consistent
  <2>2. Len(box'[a]) = c + 1 /\ \A n \in 1 .. c + 1 :
            box'[a][n] = IF n = c + 1 THEN sends + 1 ELSE box[a][n]
    BY <1>t, <1>1, <1>5, <2>1
  <2>3. tail'[a] = (h + (c + 1)) % QueueDepth
    <3>1. (((h + c) % QueueDepth) + 1) % QueueDepth = (h + (c + 1)) % QueueDepth
      BY <1>t, NextSlot
    <3> QED BY <1>3, <2>1, <3>1
  <2>4. ASSUME NEW n \in 1 .. c + 1
        PROVE  queue'[a][(h + n - 1) % QueueDepth] = box'[a][n]
    <3>1. CASE n = c + 1
      <4>1. (h + n - 1) % QueueDepth = tail[a]
        <5>1. h + n - 1 = h + c
          BY <3>1, <1>t
        <5> QED BY <5>1, <2>1
      <4> QED BY <1>2, <1>t, <2>2, <3>1, <4>1
    <3>2. CASE n # c + 1
      <4>1. n \in 1 .. c
        BY <3>2, <1>t
      <4>2. (h + n - 1) % QueueDepth # tail[a]
        BY <4>1, <1>t, <2>1, BehindIsFree
      <4>3. (h + n - 1) % QueueDepth \in Index
        BY <4>1, <1>t DEF Index
      <4> QED BY <1>2, <1>t, <2>1, <2>2, <3>2, <4>1, <4>2, <4>3
    <3> QED BY <3>1, <3>2
  <2> QED BY <1>t, <1>4, <2>2, <2>3, <2>4 DEF Consistent
<1> QED BY <1>6, <1>7, <1>8 DEF RingInv

\* A start, and the end of a stop, leave empty rings.
LEMMA ResetRing == ASSUME TypeOK, NEW Up \in SUBSET Actor, Reset(Up)
                   PROVE  /\ RingInv'
                          /\ started' \in [Actor -> BOOLEAN]
                          /\ queue' \in [Actor -> [Index -> Msg \cup {NoMsg}]]
                          /\ head' \in [Actor -> Index] /\ tail' \in [Actor -> Index]
                          /\ count' \in [Actor -> 0 .. QueueDepth]
                          /\ receive_slot' \in [Actor -> Msg \cup {NoMsg}]
                          /\ box' \in [Actor -> Seq(Msg)]
<1>1. /\ started' = [a \in Actor |-> a \in Up]
      /\ queue' = [a \in Actor |-> EmptyRing]
      /\ head' = [a \in Actor |-> 0]
      /\ tail' = [a \in Actor |-> 0]
      /\ count' = [a \in Actor |-> 0]
      /\ receive_slot' = [a \in Actor |-> NoMsg]
      /\ \A a \in Actor : box'[a] = << >>
      /\ box' = [a \in Actor |-> << >>]
  BY DEF Reset, Forget
<1>2. QueueDepth \in Nat \ {0} /\ 0 \in Index /\ 0 \in 0 .. QueueDepth
  BY SizeAssumption DEF Index
<1>3. EmptyRing \in [Index -> Msg \cup {NoMsg}]
  BY DEF EmptyRing
<1>4. << >> \in Seq(Msg) /\ Len(<< >>) = 0 /\ (0 + 0) % QueueDepth = 0
  BY <1>2
<1>5. ASSUME NEW a \in Actor PROVE Consistent(a)'
  <2>1. head'[a] = 0 /\ tail'[a] = 0 /\ count'[a] = 0 /\ box'[a] = << >>
    BY <1>1
  <2> QED BY <2>1, <1>4 DEF Consistent
<1>6. box' \in [Actor -> Seq(Msg)]
  BY <1>1, <1>4
<1>7. queue' \in [Actor -> [Index -> Msg \cup {NoMsg}]]
  BY <1>1, <1>3
<1>8. /\ head' \in [Actor -> Index] /\ tail' \in [Actor -> Index]
      /\ count' \in [Actor -> 0 .. QueueDepth]
  BY <1>1, <1>2
<1> QED BY <1>1, <1>5, <1>6, <1>7, <1>8 DEF RingInv

\* A stop empties the mailboxes of the actors in S, which take no more.
LEMMA StopRing == ASSUME TypeOK, RingInv, NEW S \in SUBSET Actor, StopActor(S)
                  PROVE  /\ RingInv'
                         /\ started' \in [Actor -> BOOLEAN]
                         /\ count' \in [Actor -> 0 .. QueueDepth]
                         /\ box' \in [Actor -> Seq(Msg)]
                         /\ UNCHANGED <<queue, head, tail, receive_slot>>
<1>1. /\ started' = [a \in Actor |-> started[a] /\ a \notin S]
      /\ count' = [a \in Actor |-> IF a \in S THEN 0 ELSE count[a]]
      /\ box' = [a \in Actor |-> IF a \in S THEN << >> ELSE box[a]]
      /\ UNCHANGED <<queue, head, tail, receive_slot>>
  BY DEF StopActor, Forget
<1>2. count \in [Actor -> 0 .. QueueDepth] /\ 0 \in 0 .. QueueDepth /\ box \in [Actor -> Seq(Msg)]
  BY SizeAssumption DEF TypeOK
<1>3. ASSUME NEW a \in Actor PROVE Consistent(a)'
  <2>1. CASE a \in S
    BY <1>1, <2>1 DEF Consistent
  <2>2. CASE a \notin S
    <3>1. Consistent(a)
      BY DEF RingInv
    <3>2. started'[a] = started[a] /\ count'[a] = count[a] /\ box'[a] = box[a]
      BY <1>1, <2>2 DEF TypeOK
    <3> QED BY <1>1, <3>1, <3>2 DEF Consistent
  <2> QED BY <2>1, <2>2
<1>4. count' \in [Actor -> 0 .. QueueDepth]
  BY <1>1, <1>2
<1>5. box' \in [Actor -> Seq(Msg)]
  <2>1. << >> \in Seq(Msg)
    OBVIOUS
  <2> QED BY <1>1, <1>2, <2>1
<1>6. started' \in [Actor -> BOOLEAN]
  BY <1>1
<1> QED BY <1>1, <1>3, <1>4, <1>5, <1>6 DEF RingInv

LEMMA RestartRing == ASSUME TypeOK, RingInv, NEW a \in Actor, FailRestart(a)
                     PROVE  TypeOK' /\ RingInv'
<1>1. /\ head' = [head EXCEPT ![a] = 0]
      /\ tail' = [tail EXCEPT ![a] = 0]
      /\ count' = [count EXCEPT ![a] = 0]
      /\ box' = [b \in Actor |-> IF b \in {a} THEN << >> ELSE box[b]]
      /\ UNCHANGED <<lifecycle_state, started, queue, receive_slot, frames, starts, sends>>
  BY DEF FailRestart, Forget
<1>2. /\ count \in [Actor -> 0 .. QueueDepth] /\ 0 \in 0 .. QueueDepth /\ box \in [Actor -> Seq(Msg)]
      /\ head \in [Actor -> Index] /\ tail \in [Actor -> Index]
      /\ 0 \in Index /\ (0 + 0) % QueueDepth = 0
  BY SizeAssumption DEF TypeOK, Index
<1>3. ASSUME NEW b \in Actor PROVE Consistent(b)'
  <2>1. CASE b = a
    <3>1. head'[a] = 0 /\ tail'[a] = 0 /\ count'[a] = 0 /\ box'[a] = << >>
      BY <1>1, <1>2
    <3> QED BY <1>2, <2>1, <3>1 DEF Consistent
  <2>2. CASE b # a
    <3>1. Consistent(b)
      BY DEF RingInv
    <3>2. head'[b] = head[b] /\ tail'[b] = tail[b] /\ count'[b] = count[b] /\ box'[b] = box[b]
      BY <1>1, <1>2, <2>2
    <3> QED BY <1>1, <3>1, <3>2 DEF Consistent
  <2> QED BY <2>1, <2>2
<1>4. /\ count' \in [Actor -> 0 .. QueueDepth] /\ head' \in [Actor -> Index]
      /\ tail' \in [Actor -> Index]
  BY <1>1, <1>2
<1>5. box' \in [Actor -> Seq(Msg)]
  <2>1. << >> \in Seq(Msg)
    OBVIOUS
  <2> QED BY <1>1, <1>2, <2>1
<1> QED BY <1>1, <1>3, <1>4, <1>5 DEF RingInv, TypeOK

\* The message that is handed out is the oldest one, and the others stay.
LEMMA ServeRing == ASSUME TypeOK, RingInv, NEW a \in Actor, Serve(a)
                   PROVE  /\ RingInv'
                          /\ queue[a][head[a]] = Head(box[a]) /\ Head(box[a]) \in Msg
                          /\ head' \in [Actor -> Index] /\ count' \in [Actor -> 0 .. QueueDepth]
                          /\ box' \in [Actor -> Seq(Msg)]
<1>s. started[a] /\ count[a] # 0 /\ count[a] \in 0 .. QueueDepth /\ QueueDepth \in Nat \ {0}
  BY SizeAssumption DEF TypeOK, Serve, Servable
<1>t. /\ QueueDepth \in Nat \ {0}
      /\ head[a] \in 0 .. QueueDepth - 1 /\ head \in [Actor -> Index]
      /\ count \in [Actor -> 0 .. QueueDepth] /\ box \in [Actor -> Seq(Msg)]
      /\ started[a] /\ count[a] \in 1 .. QueueDepth
      /\ head' = [head EXCEPT ![a] = (@ + 1) % QueueDepth]
      /\ count' = [count EXCEPT ![a] = @ - 1]
      /\ box' = [box EXCEPT ![a] = Tail(@)]
      /\ UNCHANGED <<started, queue, tail>>
  BY <1>s DEF TypeOK, Serve, Index
<1> DEFINE h == head[a]  c == count[a]
<1>1. /\ c = Len(box[a]) /\ tail[a] = (h + c) % QueueDepth
      /\ \A n \in 1 .. c : queue[a][(h + n - 1) % QueueDepth] = box[a][n]
  BY <1>t DEF RingInv, Consistent
<1>2. box[a] # << >> /\ Head(box[a]) = box[a][1] /\ Head(box[a]) \in Msg
  BY <1>t, <1>1
<1>3. (h + 1 - 1) % QueueDepth = h /\ 1 \in 1 .. c
  <2>1. h + 1 - 1 = h + 0 /\ h + 0 = h /\ h < QueueDepth /\ 0 \in 0 .. QueueDepth
    BY <1>t
  <2>2. (h + 0) % QueueDepth = h
    BY <1>t, <2>1, ModSum
  <2> QED BY <1>t, <2>1, <2>2
<1>4. queue[a][h] = Head(box[a])
  BY <1>1, <1>2, <1>3
<1>5. /\ head'[a] = (h + 1) % QueueDepth /\ head'[a] \in 0 .. QueueDepth - 1
      /\ \A b \in Actor \ {a} : head'[b] = head[b]
  BY <1>t DEF Index
<1>6. count'[a] = c - 1 /\ \A b \in Actor \ {a} : count'[b] = count[b]
  BY <1>t
<1>7. /\ box'[a] = Tail(box[a]) /\ Tail(box[a]) \in Seq(Msg) /\ Len(Tail(box[a])) = c - 1
      /\ \A n \in 1 .. c - 1 : Tail(box[a])[n] = box[a][n + 1]
      /\ \A b \in Actor \ {a} : box'[b] = box[b]
  BY <1>t, <1>1, <1>2
<1>8. ASSUME NEW n \in 1 .. c PROVE (head'[a] + n - 1) % QueueDepth = (h + (n + 1) - 1) % QueueDepth
  <2>1. n - 1 \in 0 .. QueueDepth - 1 /\ h + ((n - 1) + 1) = h + (n + 1) - 1
    BY <1>t
  <2>2. (((h + 1) % QueueDepth) + (n - 1)) % QueueDepth = (h + ((n - 1) + 1)) % QueueDepth
    BY <2>1, <1>t, NextSlot
  <2>3. head'[a] + (n - 1) = head'[a] + n - 1
    BY <1>5, <1>t
  <2> QED BY <1>5, <2>1, <2>2, <2>3
<1>9. Consistent(a)'
  <2>1. tail'[a] = (head'[a] + count'[a]) % QueueDepth
    <3>1. (((h + 1) % QueueDepth) + (c - 1)) % QueueDepth = (h + ((c - 1) + 1)) % QueueDepth
      <4>1. c - 1 \in 0 .. QueueDepth - 1
        BY <1>t
      <4> QED BY <4>1, <1>t, NextSlot
    <3>2. h + ((c - 1) + 1) = h + c
      BY <1>t
    <3> QED BY <1>1, <1>5, <1>6, <1>t, <3>1, <3>2
  <2>2. ASSUME NEW n \in 1 .. c - 1
        PROVE  queue[a][(head'[a] + n - 1) % QueueDepth] = box'[a][n]
    <3>1. n \in 1 .. c /\ n + 1 \in 1 .. c
      BY <1>t
    <3> QED BY <3>1, <1>1, <1>7, <1>8
  <2> QED BY <1>6, <1>7, <1>t, <2>1, <2>2 DEF Consistent
<1>10. ASSUME NEW b \in Actor \ {a} PROVE Consistent(b)'
  BY <1>t, <1>5, <1>6, <1>7 DEF RingInv, Consistent
<1>11. box' \in [Actor -> Seq(Msg)]
  BY <1>t, <1>7
<1>12. head' \in [Actor -> Index] /\ count' \in [Actor -> 0 .. QueueDepth]
  <2>1. head'[a] \in Index /\ count'[a] \in 0 .. QueueDepth
    BY <1>5, <1>6, <1>t DEF Index
  <2> QED BY <1>t, <2>1
<1> QED BY <1>2, <1>4, <1>9, <1>10, <1>11, <1>12 DEF RingInv

-----------------------------------------------------------------------------
(* The activations of ipc_test_run_until_idle *)

\* A step that changes the innermost frame only, and neither mailboxes nor
\* copies.
LEMMA TopStep ==
  ASSUME Inv, frames # <<>>, NEW f \in Frame, SetTop(f), f.actor = 0,
         UNCHANGED <<lifecycle_state, started, rings, receive_slot, starts, sends, box>>,
         ~f.made_progress => \A a \in Actor : a < f.cursor => ~Servable(a)
  PROVE  Inv' /\ Len(frames') = Len(frames)
<1>1. /\ UNCHANGED <<lifecycle_state, started, queue, head, tail, count, receive_slot, starts, sends,
                     box>>
      /\ frames' = [frames EXCEPT ![Len(frames)] = f]
      /\ frames \in Seq(Frame) /\ Len(frames) <= MaxDepth /\ Len(frames) \in Nat \ {0}
  BY DEF rings, SetTop, Inv, TypeOK
<1>2. /\ frames' \in Seq(Frame) /\ Len(frames') = Len(frames)
      /\ frames'[Len(frames)] = f
      /\ \A k \in 1 .. Len(frames) - 1 : frames'[k] = frames[k]
  BY <1>1
<1>3. TypeOK'
  BY <1>1, <1>2 DEF Inv, TypeOK
<1>4. RingInv'
  BY <1>1 DEF Inv, RingInv, Consistent
<1>5. NestInv'
  BY <1>1, <1>2 DEF Inv, NestInv
<1>6. CopyIntact'
  <2>1. SUFFICES ASSUME NEW k \in 1 .. Len(frames), frames'[k].actor # 0, ~frames'[k].reentered
                 PROVE  receive_slot[frames'[k].actor] = frames'[k].msg
    BY <1>1, <1>2 DEF CopyIntact
  <2>2. k # Len(frames)
    BY <1>2, <2>1
  <2>3. k \in 1 .. Len(frames) - 1
    BY <1>1, <2>2
  <2>4. frames'[k] = frames[k]
    BY <1>2, <2>3
  <2> QED BY <2>1, <2>4 DEF Inv, CopyIntact
<1>7. IdleInv'
  BY <1>1, <1>2 DEF IdleInv, Top, Servable
<1> QED BY <1>2, <1>3, <1>4, <1>5, <1>6, <1>7 DEF Inv

\* A step of the application: the frames stay, and so do the copies, or no
\* handler runs.
LEMMA UserStep ==
  ASSUME Inv, TypeOK', RingInv', InUser, frames' = frames,
         frames = <<>> \/ UNCHANGED receive_slot
  PROVE  Inv' /\ Len(frames') = Len(frames)
<1>1. NestInv'
  BY DEF Inv, NestInv
<1>2. CopyIntact'
  <2>1. CASE frames = <<>>
    BY <2>1 DEF CopyIntact
  <2>2. CASE UNCHANGED receive_slot
    BY <2>2 DEF Inv, CopyIntact
  <2> QED BY <2>1, <2>2
<1>3. IdleInv'
  BY DEF IdleInv, InUser, Top
<1> QED BY <1>1, <1>2, <1>3 DEF Inv

LEMMA FrameTop == ASSUME TypeOK, frames # <<>>
                  PROVE  Top \in Frame /\ Len(frames) \in Nat \ {0} /\ frames \in Seq(Frame)
  BY DEF TypeOK, Top

LEMMA NewFrameType == NewFrame \in Frame
  BY SizeAssumption DEF NewFrame, Frame

\* ipc_test_run_until_idle is called.
LEMMA RunInv == ASSUME Inv, Run
                PROVE  Inv' /\ Len(frames') > Len(frames)
<1>1. /\ UNCHANGED <<lifecycle_state, started, queue, head, tail, count, receive_slot, starts, sends,
                     box>>
      /\ frames' = Append(frames, NewFrame)
      /\ frames \in Seq(Frame) /\ Len(frames) < MaxDepth /\ MaxDepth \in Nat /\ Len(frames) \in Nat
      /\ NewFrame \in Frame /\ InUser
  BY NewFrameType, SizeAssumption DEF rings, Run, Inv, TypeOK
<1>2. /\ frames' \in Seq(Frame) /\ Len(frames') = Len(frames) + 1
      /\ frames'[Len(frames) + 1] = NewFrame
      /\ \A k \in 1 .. Len(frames) : frames'[k] = frames[k]
  BY <1>1
<1>3. TypeOK'
  BY <1>1, <1>2 DEF Inv, TypeOK
<1>4. RingInv'
  BY <1>1 DEF Inv, RingInv, Consistent
<1>5. NestInv'
  <2>1. \A k \in 1 .. Len(frames) : frames[k].actor # 0
    BY <1>1 DEF Inv, NestInv, InUser, Top
  <2> QED BY <1>1, <1>2, <2>1 DEF NestInv
<1>6. NewFrame.actor = 0 /\ NewFrame.cursor = 1 /\ NewFrame.made_progress = FALSE
  BY DEF NewFrame
<1>7. CopyIntact'
  <2>1. SUFFICES ASSUME NEW k \in 1 .. Len(frames) + 1, frames'[k].actor # 0, ~frames'[k].reentered
                 PROVE  receive_slot[frames'[k].actor] = frames'[k].msg
    BY <1>1, <1>2 DEF CopyIntact
  <2>2. k # Len(frames) + 1
    BY <1>2, <1>6, <2>1
  <2>3. k \in 1 .. Len(frames) /\ frames'[k] = frames[k]
    BY <1>1, <1>2, <2>2
  <2> QED BY <2>1, <2>3 DEF Inv, CopyIntact
<1>8. IdleInv'
  <2>1. Top' = NewFrame
    BY <1>2 DEF Top
  <2>2. \A a \in Actor : ~(a < 1)
    BY SizeAssumption DEF Actor
  <2> QED BY <2>1, <2>2, <1>6 DEF IdleInv
<1> QED BY <1>1, <1>2, <1>3, <1>4, <1>5, <1>7, <1>8 DEF Inv

\* It returns after a round without progress: nothing is left.
LEMMA ReturnInv == ASSUME Inv, Return
                   PROVE  Inv' /\ \A a \in Actor : ~Servable(a)
<1>1. /\ UNCHANGED <<lifecycle_state, started, queue, head, tail, count, receive_slot, starts, sends,
                     box>>
      /\ frames' = SubSeq(frames, 1, Len(frames) - 1)
      /\ frames \in Seq(Frame) /\ Len(frames) <= MaxDepth /\ MaxDepth \in Nat
      /\ Len(frames) \in Nat \ {0} /\ frames # <<>>
      /\ Top.actor = 0 /\ Top.cursor = N + 1 /\ ~Top.made_progress
  BY SizeAssumption, FrameTop DEF rings, Return, LoopAt, Inv, TypeOK
<1>2. /\ frames' \in Seq(Frame) /\ Len(frames') = Len(frames) - 1
      /\ \A k \in 1 .. Len(frames) - 1 : frames'[k] = frames[k]
  <2> DEFINE n == Len(frames) - 1  t == SubSeq(frames, 1, n)
  <2>1. n \in Nat /\ 1 \in Int /\ n \in Int /\ \A i \in 1 .. n : frames[i] \in Frame
    BY <1>1
  <2>2. /\ t \in Seq(Frame) /\ Len(t) = (IF 1 <= n THEN n - 1 + 1 ELSE 0)
        /\ \A i \in 1 .. n - 1 + 1 : t[i] = frames[1 + i - 1]
    <3> HIDE DEF n
    <3> QED BY <2>1, SubSeqProperties
  <2>3. t = frames'
    BY <1>1
  <2> HIDE DEF t, n
  <2>4. Len(t) = n /\ \A i \in 1 .. n : t[i] = frames[i]
    BY <2>1, <2>2
  <2>5. n = Len(frames) - 1
    BY DEF n
  <2> QED BY <2>2, <2>3, <2>4, <2>5
<1>3. TypeOK'
  BY <1>1, <1>2 DEF Inv, TypeOK
<1>4. RingInv'
  BY <1>1 DEF Inv, RingInv, Consistent
<1>5. NestInv'
  BY <1>1, <1>2 DEF Inv, NestInv
<1>6. CopyIntact'
  BY <1>1, <1>2 DEF Inv, CopyIntact
<1>7. IdleInv'
  <2>1. SUFFICES ASSUME frames' # <<>> PROVE Top'.actor # 0
    BY DEF IdleInv
  <2>2. Len(frames') \in 1 .. Len(frames) - 1
    BY <1>1, <1>2, <2>1
  <2>3. Top' = frames[Len(frames')]
    BY <1>2, <2>2 DEF Top
  <2> QED BY <2>2, <2>3 DEF Inv, NestInv
<1>8. \A a \in Actor : ~Servable(a)
  <2>1. \A a \in Actor : a < N + 1
    BY SizeAssumption DEF Actor
  <2> QED BY <1>1, <2>1 DEF Inv, IdleInv
<1> QED BY <1>3, <1>4, <1>5, <1>6, <1>7, <1>8 DEF Inv

\* A handler is called with the copy of its oldest message; the copies of the
\* same actor further out are overwritten.
LEMMA ServeInv == ASSUME Inv, NEW a \in Actor, Serve(a)
                  PROVE  Inv' /\ Len(frames') = Len(frames)
<1> DEFINE n == Len(frames)
           top == [Top EXCEPT !.actor = a, !.msg = Head(box[a]), !.reentered = FALSE]
<1>1. /\ frames # <<>> /\ Top.actor = 0 /\ Top \in Frame
      /\ frames \in Seq(Frame) /\ n <= MaxDepth /\ n \in Nat \ {0}
      /\ receive_slot' = [receive_slot EXCEPT ![a] = queue[a][head[a]]]
      /\ frames' = [k \in 1 .. n |->
                      IF k = n THEN top
                      ELSE [frames[k] EXCEPT !.reentered = @ \/ frames[k].actor = a]]
      /\ UNCHANGED <<lifecycle_state, started, queue, tail, starts, sends>>
  BY FrameTop DEF Serve, LoopAt, Inv, TypeOK
<1>2. /\ RingInv'
      /\ queue[a][head[a]] = Head(box[a]) /\ Head(box[a]) \in Msg
      /\ head' \in [Actor -> Index] /\ count' \in [Actor -> 0 .. QueueDepth]
      /\ box' \in [Actor -> Seq(Msg)]
  BY ServeRing DEF Inv
<1>3. a # 0 /\ a \in 0 .. N
  BY SizeAssumption DEF Actor
<1>4. /\ top \in Frame /\ top.actor = a /\ top.msg = Head(box[a])
  BY <1>1, <1>2, <1>3 DEF Frame
<1> HIDE DEF top
<1>5. ASSUME NEW k \in 1 .. n - 1
      PROVE  /\ frames'[k] \in Frame /\ frames'[k].actor = frames[k].actor
             /\ frames'[k].msg = frames[k].msg
             /\ frames'[k].reentered = (frames[k].reentered \/ frames[k].actor = a)
  <2>1. frames[k] \in Frame /\ k \in 1 .. n /\ k # n
    BY <1>1
  <2>2. frames'[k] = [frames[k] EXCEPT !.reentered = @ \/ frames[k].actor = a]
    BY <1>1, <2>1
  <2> QED BY <2>1, <2>2 DEF Frame
<1>6. frames'[n] = top
  BY <1>1
<1>7. /\ frames' \in Seq(Frame) /\ Len(frames') = n
  <2>1. \A k \in 1 .. n : frames'[k] \in Frame
    <3>1. SUFFICES ASSUME NEW k \in 1 .. n PROVE frames'[k] \in Frame
      OBVIOUS
    <3>2. CASE k = n
      BY <3>2, <1>4, <1>6
    <3>3. CASE k # n
      <4>1. k \in 1 .. n - 1
        BY <3>3, <1>1
      <4> QED BY <4>1, <1>5
    <3> QED BY <3>2, <3>3
  <2>2. frames' \in [1 .. n -> Frame]
    BY <1>1, <2>1
  <2> QED BY <1>1, <2>2
<1>8. receive_slot' \in [Actor -> Msg \cup {NoMsg}] /\ receive_slot'[a] = Head(box[a])
      /\ \A b \in Actor \ {a} : receive_slot'[b] = receive_slot[b]
  BY <1>1, <1>2 DEF Inv, TypeOK
<1>9. TypeOK'
  BY <1>1, <1>2, <1>7, <1>8 DEF Inv, TypeOK
<1>10. NestInv'
  BY <1>5, <1>7 DEF Inv, NestInv
<1>11. CopyIntact'
  <2>1. SUFFICES ASSUME NEW k \in 1 .. n, frames'[k].actor # 0, ~frames'[k].reentered
                 PROVE  receive_slot'[frames'[k].actor] = frames'[k].msg
    BY <1>7 DEF CopyIntact
  <2>2. CASE k = n
    BY <2>2, <1>4, <1>6, <1>8
  <2>3. CASE k # n
    <3>1. k \in 1 .. n - 1
      BY <2>3, <1>1
    <3>2. frames[k].actor # 0 /\ ~frames[k].reentered /\ frames[k].actor # a
      BY <2>1, <3>1, <1>5
    <3>3. frames[k].actor \in Actor
      <4>1. frames[k] \in Frame
        BY <1>1, <3>1
      <4>2. frames[k].actor \in 0 .. N
        BY <4>1 DEF Frame
      <4> QED BY <4>2, <3>2, SizeAssumption DEF Actor
    <3>4. receive_slot[frames[k].actor] = frames[k].msg
      BY <3>1, <3>2, <1>1 DEF Inv, CopyIntact
    <3> QED BY <3>1, <3>2, <3>3, <3>4, <1>5, <1>8
  <2> QED BY <2>2, <2>3
<1>12. IdleInv'
  BY <1>3, <1>4, <1>6, <1>7 DEF IdleInv, Top
<1> QED BY <1>2, <1>7, <1>9, <1>10, <1>11, <1>12 DEF Inv

LEMMA SkipInv == ASSUME Inv, NEW a \in Actor, Skip(a)
                 PROVE  Inv' /\ Len(frames') = Len(frames)
<1> DEFINE f == [Top EXCEPT !.cursor = a + 1]
<1>1. /\ frames # <<>> /\ Top.actor = 0 /\ Top.cursor = a /\ Top \in Frame
      /\ ~Servable(a) /\ SetTop(f)
      /\ UNCHANGED <<lifecycle_state, started, rings, receive_slot, starts, sends, box>>
  BY FrameTop DEF Skip, LoopAt, Inv
<1>2. a \in Nat /\ a + 1 \in 1 .. N + 1
  BY SizeAssumption DEF Actor
<1>3. /\ f \in Frame /\ f.actor = 0 /\ f.cursor = a + 1
      /\ f.made_progress = Top.made_progress
  BY <1>1, <1>2 DEF Frame
<1>4. ~f.made_progress => \A b \in Actor : b < f.cursor => ~Servable(b)
  <2>1. \A b \in Actor : b < a + 1 => b = a \/ b < a
    BY SizeAssumption DEF Actor
  <2> QED BY <2>1, <1>1, <1>3 DEF Inv, IdleInv
<1> HIDE DEF f
<1> QED BY <1>1, <1>3, <1>4, TopStep

LEMMA HandlerReturnInv == ASSUME Inv, NEW a \in Actor, HandlerReturn(a)
                          PROVE  Inv' /\ Len(frames') = Len(frames)
<1> DEFINE f == [cursor |-> a + 1, made_progress |-> TRUE, actor |-> 0, msg |-> NoMsg,
                 reentered |-> FALSE]
<1>1. /\ frames # <<>> /\ SetTop(f)
      /\ UNCHANGED <<lifecycle_state, started, rings, receive_slot, starts, sends, box>>
  BY DEF HandlerReturn, InHandler
<1>2. a + 1 \in 1 .. N + 1 /\ 0 \in 0 .. N
  BY SizeAssumption DEF Actor
<1>3. f \in Frame /\ f.actor = 0 /\ f.made_progress
  BY <1>2 DEF Frame
<1> HIDE DEF f
<1> QED BY <1>1, <1>3, TopStep

LEMMA NextRoundInv == ASSUME Inv, NextRound
                      PROVE  Inv' /\ Len(frames') = Len(frames)
<1>1. /\ frames # <<>> /\ SetTop(NewFrame)
      /\ UNCHANGED <<lifecycle_state, started, rings, receive_slot, starts, sends, box>>
  BY DEF NextRound, LoopAt
<1>2. \A a \in Actor : ~(a < 1)
  BY SizeAssumption DEF Actor
<1>3. NewFrame.actor = 0 /\ NewFrame.cursor = 1
  BY DEF NewFrame
<1> QED BY <1>1, <1>2, <1>3, NewFrameType, TopStep

-----------------------------------------------------------------------------
(* The theorems *)

LEMMA InitInv == Init => Inv
<1> SUFFICES ASSUME Init PROVE Inv
  OBVIOUS
<1>1. /\ frames = <<>> /\ started = [a \in Actor |-> FALSE]
      /\ QueueDepth \in Nat \ {0} /\ 0 \in Index /\ 0 \in 0 .. QueueDepth
      /\ 0 \in 0 .. MaxSends /\ 0 \in 0 .. MaxStarts /\ MaxDepth \in Nat
  BY SizeAssumption DEF Init, Index
<1>2. TypeOK
  <2>1. queue \in [Actor -> [Index -> Msg \cup {NoMsg}]]
    BY DEF Init, EmptyRing
  <2>2. /\ head \in [Actor -> Index] /\ tail \in [Actor -> Index]
        /\ count \in [Actor -> 0 .. QueueDepth] /\ receive_slot \in [Actor -> Msg \cup {NoMsg}]
    BY <1>1 DEF Init
  <2>3. box \in [Actor -> Seq(Msg)] /\ frames \in Seq(Frame) /\ Len(frames) <= MaxDepth
    BY <1>1 DEF Init
  <2> QED BY <1>1, <2>1, <2>2, <2>3 DEF Init, TypeOK
<1>3. RingInv
  BY <1>1 DEF RingInv, Consistent
<1>4. CopyIntact /\ NestInv /\ IdleInv
  BY <1>1 DEF CopyIntact, NestInv, IdleInv
<1> QED BY <1>2, <1>3, <1>4 DEF Inv

\* What each step does to Inv and to the stack of activations.
LEMMA NextInv == ASSUME Inv, [Next]_vars
                 PROVE  Inv' /\ (Len(frames') < Len(frames) => \A a \in Actor : ~Servable(a))
<1>l. Len(frames) \in Nat
  BY DEF Inv, TypeOK
<1> DEFINE Goal == Inv' /\ (Len(frames') < Len(frames) => \A a \in Actor : ~Servable(a))
<1>e. ASSUME Inv', Len(frames') = Len(frames) PROVE Goal
  BY <1>e, <1>l
<1>1. ASSUME NEW Up \in SUBSET Actor, Reset(Up), InTest, UNCHANGED <<frames, sends>>,
             lifecycle_state' \in {"stopped", "running", "stopping"}, starts' \in 0 .. MaxStarts
      PROVE  Goal
  <2>1. TypeOK' /\ RingInv'
    BY <1>1, ResetRing DEF Inv, TypeOK
  <2> QED BY <1>1, <2>1, UserStep, <1>e DEF InTest, InUser
<1>2. CASE Start
  <2>1. starts' \in 0 .. MaxStarts
    BY <1>2, SizeAssumption DEF Start, Inv, TypeOK
  <2> QED BY <1>2, <2>1, <1>1 DEF Start
<1>3. CASE StartFails
  <2>1. starts' \in 0 .. MaxStarts
    BY <1>3, SizeAssumption DEF StartFails, Inv, TypeOK
  <2> QED BY <1>3, <2>1, <1>1 DEF StartFails
<1>4. CASE Stop
  <2>1. starts' \in 0 .. MaxStarts /\ lifecycle_state' \in {"stopped", "running", "stopping"}
    BY <1>4 DEF Stop, Inv, TypeOK
  <2> QED BY <1>4, <2>1, <1>1 DEF Stop
<1>5. ASSUME NEW a \in Actor, Send(a) PROVE Goal
  BY <1>5, SendRing, UserStep, <1>e DEF Send, Inv
<1>6. ASSUME NEW S \in SUBSET Actor, StopActor(S), InUser, UNCHANGED <<frames, starts, sends>>,
             lifecycle_state' \in {"stopped", "running", "stopping"}
      PROVE  Goal
  <2>1. TypeOK' /\ RingInv' /\ UNCHANGED receive_slot
    BY <1>6, StopRing DEF Inv, TypeOK
  <2> QED BY <1>6, <2>1, UserStep, <1>e
<1>7. ASSUME NEW a \in Actor, FailStop(a) PROVE Goal
  <2>1. InUser
    BY <1>7, SizeAssumption DEF FailStop, InHandler, InUser, Actor
  <2>2. {a} \in SUBSET Actor /\ lifecycle_state' \in {"stopped", "running", "stopping"}
    BY <1>7 DEF FailStop, Inv, TypeOK
  <2> QED BY <1>6, <1>7, <2>1, <2>2 DEF FailStop
<1>8. CASE StopAll
  BY <1>6, <1>8 DEF StopAll
<1>9. ASSUME NEW a \in Actor, FailRestart(a) PROVE Goal
  <2>1. InUser
    BY <1>9, SizeAssumption DEF FailRestart, InHandler, InUser, Actor
  <2>2. frames' = frames /\ UNCHANGED receive_slot
    BY <1>9 DEF FailRestart
  <2> QED BY <1>9, <2>1, <2>2, RestartRing, UserStep, <1>e DEF Inv
<1>10. CASE Run
  <2>1. Inv' /\ Len(frames') > Len(frames)
    BY <1>10, RunInv
  <2>2. Len(frames') \in Nat
    BY <2>1 DEF Inv, TypeOK
  <2> QED BY <1>l, <2>1, <2>2
<1>11. CASE LoopStep
  BY <1>11, <1>e, ServeInv, SkipInv, NextRoundInv, ReturnInv DEF LoopStep
<1>12. ASSUME NEW a \in Actor, HandlerReturn(a) PROVE Goal
  BY <1>12, HandlerReturnInv, <1>e
<1>13. CASE UNCHANGED vars
  BY <1>13, <1>l DEF vars, Inv, TypeOK, RingInv, Consistent, CopyIntact, NestInv, IdleInv, Top,
                     Servable
<1> QED BY <1>2, <1>3, <1>4, <1>5, <1>7, <1>8, <1>9, <1>10, <1>11, <1>12, <1>13 DEF Next

\* The rings, the copies and the stack of activations always fit together.
THEOREM TestPortInvariant == Spec => []Inv
<1>1. Inv /\ [Next]_vars => Inv'
  BY NextInv
<1> QED BY <1>1, InitInv, PTL DEF Spec

\* Of a started actor, the count slots from head on are its accepted messages,
\* oldest first, and the next one goes behind them: for every queue depth, through
\* wrap-around, restarts and stops that leave head and tail apart.
THEOREM RingIsConsistent == Spec => []RingConsistent
<1>1. Inv => RingConsistent
  BY DEF Inv, RingInv, Consistent, RingConsistent
<1> QED BY <1>1, TestPortInvariant, PTL

\* The message a handler works on stays as it is, unless the handler calls
\* ipc_test_run_until_idle and that serves the same actor.
THEOREM CopiesStayIntact == Spec => []CopyIntact
<1>1. Inv => CopyIntact
  BY DEF Inv
<1> QED BY <1>1, TestPortInvariant, PTL

\* Whenever ipc_test_run_until_idle returns, at whatever depth, no started actor
\* has a message left.
THEOREM ReturnIsIdle == Spec => ReturnsIdle
<1>1. Inv /\ [Next]_vars => [Len(frames') < Len(frames) => \A a \in Actor : ~Servable(a)]_vars
  BY NextInv
<1> QED BY <1>1, TestPortInvariant, PTL DEF Spec, ReturnsIdle
=============================================================================
