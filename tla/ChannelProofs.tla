--------------------------- MODULE ChannelProofs ---------------------------
(* Theorems about Channel, for every capacity, every number of senders and *)
(* every set of tasks.                                                     *)
EXTENDS Channel, SequenceTheorems, FunctionTheorems, FiniteSetTheorems, TLAPS

-----------------------------------------------------------------------------
(* Arithmetic of the ring.                                                 *)

\* An index inside the array is its own residue.
LEMMA ModSmall == ASSUME NEW n \in Nat \ {0}, NEW a \in 0 .. n - 1 PROVE a % n = a
  BY Z3

\* An index that ran over the end of the array once comes back by its length.
LEMMA ModWrap == ASSUME NEW n \in Nat \ {0}, NEW a \in n .. 2 * n - 1 PROVE a % n = a - n
  BY Z3

\* The distance of index i from index h, walking up and around an array of n.
Distance(i, h, n) == IF i >= h THEN i - h ELSE i - h + n

\* Where push writes: the index at distance l from the head, and no other.
LEMMA PushIndex ==
  ASSUME NEW n \in Nat \ {0}, NEW h \in 0 .. n - 1, NEW l \in 0 .. n - 1
  PROVE  /\ (h + l) % n \in 0 .. n - 1
         /\ \A i \in 0 .. n - 1 : Distance(i, h, n) = l <=> i = (h + l) % n
<1>1. CASE h + l < n
  <2>1. (h + l) % n = h + l  BY <1>1, ModSmall
  <2> QED  BY <1>1, <2>1 DEF Distance
<1>2. CASE h + l >= n
  <2>1. (h + l) % n = h + l - n  BY <1>2, ModWrap
  <2> QED  BY <1>2, <2>1 DEF Distance
<1> QED  BY <1>1, <1>2

\* What pop does to the window: the head leaves it, and every other index is
\* one step closer to the new head.
LEMMA PopIndex ==
  ASSUME NEW n \in Nat \ {0}, NEW h \in 0 .. n - 1
  PROVE  /\ (h + 1) % n \in 0 .. n - 1
         /\ \A i \in 0 .. n - 1 :
              Distance(i, (h + 1) % n, n) =
                IF i = h THEN n - 1 ELSE Distance(i, h, n) - 1
<1>1. CASE h + 1 < n
  <2>1. (h + 1) % n = h + 1  BY <1>1, ModSmall
  <2> QED  BY <1>1, <2>1 DEF Distance
<1>2. CASE h + 1 = n
  <2>1. (h + 1) % n = 0  BY <1>2, ModWrap
  <2> QED  BY <1>2, <2>1 DEF Distance
<1> QED  BY <1>1, <1>2

-----------------------------------------------------------------------------
(* The first layer: types and the shape of the ring.  They hold whoever    *)
(* shares a Sender or the Receiver.                                        *)

Sound == TypeOK /\ RingWindow

\* No value is an absent one.
LEMMA NoneIsNoMessage == \A m \in Messages : m # None
  BY ChannelAssumption

\* The values producers offer are messages.
LEMMA Offered ==
  ASSUME TypeOK, NEW p \in Producers
  PROVE  /\ MaySend(p) => Fresh(p) \in Messages /\ sends[p] + 1 \in 0 .. MaxSends
         /\ sends[p] > 0 => Held(p) \in Messages
  BY ChannelAssumption DEF TypeOK, MaySend, Fresh, Held, Messages

\* A push of a message keeps the ring sound and wakes nobody but consumers.
LEMMA PushSound ==
  ASSUME Sound, NEW m \in Messages, Push(m)
  PROVE  /\ slots' \in [0 .. N - 1 -> Messages \cup {None}]
         /\ head' \in 0 .. N - 1 /\ len' \in 0 .. N
         /\ rx_waker' \in Consumers \cup {None}
         /\ cons' \in [Consumers -> {"idle", "parked", "woken"}]
         /\ RingWindow'
<1> USE ChannelAssumption
<1>1. len \in 0 .. N - 1 /\ head \in 0 .. N - 1
  BY DEF Sound, TypeOK, Push
<1>2. /\ (head + len) % N \in 0 .. N - 1
      /\ \A i \in 0 .. N - 1 : Distance(i, head, N) = len <=> i = (head + len) % N
  BY <1>1, PushIndex
<1>3. \A i \in 0 .. N - 1 : slots[i] # None <=> Distance(i, head, N) < len
  BY DEF Sound, RingWindow, Distance
<1>4. slots' = [slots EXCEPT ![(head + len) % N] = m] /\ len' = len + 1 /\ head' = head
  BY DEF Push
<1>5. slots' \in [0 .. N - 1 -> Messages \cup {None}]
  BY <1>2, <1>4 DEF Sound, TypeOK
<1>6. RingWindow'
  <2> SUFFICES ASSUME NEW i \in 0 .. N - 1
               PROVE  slots'[i] # None <=> Distance(i, head, N) < len + 1
    BY <1>4 DEF RingWindow, Distance
  <2>0. Distance(i, head, N) \in Int
    BY <1>1 DEF Distance
  <2>1. CASE i = (head + len) % N
    <3>1. slots'[i] = m
      BY <2>1, <1>2, <1>4 DEF Sound, TypeOK
    <3> QED  BY <3>1, <2>1, <1>1, <1>2, NoneIsNoMessage
  <2>2. CASE i # (head + len) % N
    <3>1. slots'[i] = slots[i]
      BY <2>2, <1>4 DEF Sound, TypeOK
    <3> QED  BY <3>1, <2>2, <2>0, <1>1, <1>2, <1>3
  <2> QED  BY <2>1, <2>2
<1>7. /\ rx_waker' \in Consumers \cup {None}
      /\ cons' \in [Consumers -> {"idle", "parked", "woken"}]
  BY DEF Sound, TypeOK, Push, WakeRx, Woken
<1> QED  BY <1>1, <1>4, <1>5, <1>6, <1>7

\* A pop keeps the ring sound, receives a message and wakes only producers.
LEMMA PopSound ==
  ASSUME Sound, Pop
  PROVE  /\ slots' \in [0 .. N - 1 -> Messages \cup {None}]
         /\ head' \in 0 .. N - 1 /\ len' \in 0 .. N
         /\ tx_wakers' \in [Ids -> Producers \cup {None}]
         /\ prod' \in [Producers -> {"idle", "parked", "woken"}]
         /\ got' \in Seq(Messages)
         /\ RingWindow'
<1> USE ChannelAssumption
<1>1. len \in 1 .. N /\ head \in 0 .. N - 1
  BY DEF Sound, TypeOK, Pop
<1>2. /\ (head + 1) % N \in 0 .. N - 1
      /\ \A i \in 0 .. N - 1 :
           Distance(i, (head + 1) % N, N) =
             IF i = head THEN N - 1 ELSE Distance(i, head, N) - 1
  BY <1>1, PopIndex
<1>3. \A i \in 0 .. N - 1 : slots[i] # None <=> Distance(i, head, N) < len
  BY DEF Sound, RingWindow, Distance
<1>4. /\ slots' = [slots EXCEPT ![head] = None]
      /\ len' = len - 1 /\ head' = (head + 1) % N
      /\ got' = Append(got, slots[head])
  BY DEF Pop
<1>5. slots' \in [0 .. N - 1 -> Messages \cup {None}]
  BY <1>1, <1>4 DEF Sound, TypeOK
<1>6. got' \in Seq(Messages)
  <2>1. slots[head] # None
    BY <1>1, <1>3 DEF Distance
  <2>2. slots[head] \in Messages
    BY <1>1, <2>1 DEF Sound, TypeOK
  <2> QED  BY <1>4, <2>2 DEF Sound, TypeOK
<1>7. RingWindow'
  <2> SUFFICES ASSUME NEW i \in 0 .. N - 1
               PROVE  slots'[i] # None <=> Distance(i, (head + 1) % N, N) < len - 1
    BY <1>4 DEF RingWindow, Distance
  <2>0. Distance(i, head, N) \in Int
    BY <1>1 DEF Distance
  <2>1. CASE i = head
    <3>1. slots'[i] = None
      BY <2>1, <1>4 DEF Sound, TypeOK
    <3> QED  BY <3>1, <2>1, <1>1, <1>2
  <2>2. CASE i # head
    <3>1. slots'[i] = slots[i]
      BY <2>2, <1>4 DEF Sound, TypeOK
    <3> QED  BY <3>1, <2>2, <2>0, <1>1, <1>2, <1>3
  <2> QED  BY <2>1, <2>2
<1>8. /\ tx_wakers' \in [Ids -> Producers \cup {None}]
      /\ prod' \in [Producers -> {"idle", "parked", "woken"}]
  BY DEF Sound, TypeOK, Pop, WakeTx, Woken
<1> QED  BY <1>1, <1>2, <1>4, <1>5, <1>6, <1>7, <1>8

\* A poll of a send keeps the ring sound.
LEMMA AttemptSound ==
  ASSUME Sound, NEW p \in Producers, NEW m \in Messages, Attempt(p, m),
         Live(HandleOf[p]),
         UNCHANGED <<tx_ids, rx_alive, txId, got, ended>>,
         sends' \in [Producers -> 0 .. MaxSends]
  PROVE  Sound'
<1> USE ChannelAssumption
<1>1. CASE /\ ~rx_alive
           /\ handed' = handed \cup {m}
           /\ prod' = [prod EXCEPT ![p] = "idle"]
           /\ UNCHANGED <<ring, rx_waker, tx_wakers, cons>>
  BY <1>1 DEF Sound, TypeOK, RingWindow, ring
<1>2. CASE /\ rx_alive /\ Push(m)
           /\ prod' = [prod EXCEPT ![p] = "idle"]
           /\ UNCHANGED <<tx_wakers, handed>>
  <2>1. TypeOK'
    BY <1>2, PushSound DEF Sound, TypeOK
  <2> QED  BY <1>2, <2>1, PushSound DEF Sound
<1>3. CASE /\ rx_alive /\ len = N
           /\ tx_wakers' = [tx_wakers EXCEPT ![MyId(p)] = p]
           /\ prod' = [prod EXCEPT ![p] = "parked"]
           /\ UNCHANGED <<ring, rx_waker, cons, handed>>
  BY <1>3 DEF Sound, TypeOK, RingWindow, ring
<1> QED  BY <1>1, <1>2, <1>3 DEF Attempt

\* A poll of a recv keeps the ring sound.
LEMMA ReceiveSound ==
  ASSUME Sound, NEW c \in Consumers, Receive(c),
         UNCHANGED <<tx_ids, rx_alive, txId, sends, handed>>
  PROVE  Sound'
<1> USE ChannelAssumption
<1>1. CASE /\ Pop
           /\ cons' = [cons EXCEPT ![c] = "idle"]
           /\ UNCHANGED <<rx_waker, ended>>
  <2>1. TypeOK'
    BY <1>1, PopSound DEF Sound, TypeOK
  <2> QED  BY <1>1, <2>1, PopSound DEF Sound
<1>2. CASE len = 0 /\ UNCHANGED <<ring, tx_wakers, prod, got>>
  BY <1>2 DEF Receive, Sound, TypeOK, RingWindow, ring, Pop
<1> QED  BY <1>1, <1>2 DEF Receive

\* A send that is outstanding carries a message.
Outstanding == \A p \in Producers : prod[p] # "idle" => sends[p] > 0

\* What holds of every state, whoever shares a half of the channel.
Basis == Sound /\ FuturesBorrow /\ Outstanding

LEMMA InitBasis == Init => Basis
<1> USE ChannelAssumption
<1> SUFFICES ASSUME Init PROVE Basis
  OBVIOUS
<1>1. TypeOK
  <2>1. got \in Seq(Messages)
    BY DEF Init
  <2>2. slots \in [0 .. N - 1 -> Messages \cup {None}] /\ head \in 0 .. N - 1 /\ len \in 0 .. N
    BY DEF Init
  <2>3. sends \in [Producers -> 0 .. MaxSends]
    BY DEF Init
  <2>4. /\ tx_wakers \in [Ids -> Producers \cup {None}]
        /\ txId \in [Handles -> Ids \cup {None}]
        /\ prod \in [Producers -> {"idle", "parked", "woken"}]
        /\ cons \in [Consumers -> {"idle", "parked", "woken"}]
    BY DEF Init
  <2> QED  BY <2>1, <2>2, <2>3, <2>4 DEF Init, TypeOK
<1>2. RingWindow
  BY DEF Init, RingWindow
<1>3. FuturesBorrow /\ Outstanding
  BY DEF Init, FuturesBorrow, Outstanding
<1> QED  BY <1>1, <1>2, <1>3 DEF Basis, Sound

LEMMA NextSound == Basis /\ [Next]_vars => Sound'
<1> USE ChannelAssumption
<1> SUFFICES ASSUME Basis, [Next]_vars PROVE Sound'
  OBVIOUS
<1> USE DEF Basis
<1>1. ASSUME NEW h \in Handles, Split(h) PROVE Sound'
  <2>1. 0 \in Ids
    BY DEF Ids
  <2> QED  BY <1>1, <2>1 DEF Split, Sound, TypeOK, RingWindow, ring
<1>2. ASSUME NEW h \in Handles, DropSender(h) PROVE Sound'
  <2>1. txId[h] \in Ids
    BY <1>2 DEF DropSender, Live, Sound, TypeOK
  <2> QED
    BY <1>2, <2>1 DEF DropSender, WakeRx, Woken, Sound, TypeOK, RingWindow, ring, history
<1>3. ASSUME NEW h \in Handles, NEW g \in Handles, TryClone(h, g) PROVE Sound'
  BY <1>3 DEF TryClone, Sound, TypeOK, RingWindow, ring, history
<1>4. CASE DropReceiver
  BY <1>4 DEF DropReceiver, WakeTx, Woken, Sound, TypeOK, RingWindow, ring, history
<1>5. ASSUME NEW p \in Producers, SendFirst(p) PROVE Sound'
  <2>1. Fresh(p) \in Messages /\ sends' \in [Producers -> 0 .. MaxSends]
    BY <1>5, Offered DEF SendFirst, Sound, TypeOK
  <2> QED  BY <1>5, <2>1, AttemptSound DEF SendFirst, MaySend
<1>6. ASSUME NEW p \in Producers, SendAgain(p) PROVE Sound'
  <2>1. Held(p) \in Messages /\ Live(HandleOf[p])
    BY <1>6, Offered DEF SendAgain, Sound, Outstanding, FuturesBorrow
  <2>2. sends' \in [Producers -> 0 .. MaxSends]
    BY <1>6 DEF SendAgain, Sound, TypeOK
  <2> QED  BY <1>6, <2>1, <2>2, AttemptSound DEF SendAgain
<1>7. ASSUME NEW p \in Producers, TrySend(p) PROVE Sound'
  <2>1. Fresh(p) \in Messages /\ sends' \in [Producers -> 0 .. MaxSends]
    BY <1>7, Offered DEF TrySend, Sound, TypeOK
  <2>2. CASE Push(Fresh(p)) /\ handed' = handed
    <3>1. TypeOK'
      BY <1>7, <2>1, <2>2, PushSound DEF TrySend, Sound, TypeOK
    <3> QED  BY <2>1, <2>2, <3>1, PushSound DEF Sound
  <2>3. CASE handed' = handed \cup {Fresh(p)} /\ UNCHANGED <<ring, rx_waker, cons>>
    BY <1>7, <2>1, <2>3 DEF TrySend, Sound, TypeOK, RingWindow, ring
  <2> QED  BY <1>7, <2>2, <2>3 DEF TrySend
<1>8. ASSUME NEW p \in Producers, CancelSend(p) PROVE Sound'
  <2>1. Held(p) \in Messages
    BY <1>8, Offered DEF CancelSend, Sound, Outstanding
  <2> QED  BY <1>8, <2>1 DEF CancelSend, Sound, TypeOK, RingWindow, ring
<1>9. ASSUME NEW c \in Consumers, RecvFirst(c) PROVE Sound'
  BY <1>9, ReceiveSound DEF RecvFirst
<1>10. ASSUME NEW c \in Consumers, RecvAgain(c) PROVE Sound'
  BY <1>10, ReceiveSound DEF RecvAgain
<1>11. ASSUME NEW c \in Consumers, TryRecv(c) PROVE Sound'
  <2>1. TypeOK'
    BY <1>11, PopSound DEF TryRecv, Sound, TypeOK
  <2> QED  BY <1>11, <2>1, PopSound DEF TryRecv, Sound
<1>12. ASSUME NEW c \in Consumers, CancelRecv(c) PROVE Sound'
  BY <1>12 DEF CancelRecv, Sound, TypeOK, RingWindow, ring, history
<1>13. CASE SpuriousWake
  BY <1>13 DEF SpuriousWake, Sound, TypeOK, RingWindow, ring, history
<1>14. CASE UNCHANGED vars
  BY <1>14 DEF vars, Sound, TypeOK, RingWindow
<1> QED
  BY <1>1, <1>2, <1>3, <1>4, <1>5, <1>6, <1>7, <1>8, <1>9, <1>10, <1>11,
     <1>12, <1>13, <1>14 DEF Next

\* Wakes only ever turn "parked" into "woken".
LEMMA WakesPreserveIdle ==
  ASSUME TypeOK
  PROVE  /\ WakeRx => \A c \in Consumers : cons'[c] # "idle" <=> cons[c] # "idle"
         /\ WakeTx => \A p \in Producers : prod'[p] # "idle" <=> prod[p] # "idle"
  BY DEF TypeOK, WakeRx, WakeTx, Woken

LEMMA NextBorrow == Basis /\ [Next]_vars => FuturesBorrow' /\ Outstanding'
<1> USE ChannelAssumption
<1> SUFFICES ASSUME Basis, [Next]_vars PROVE FuturesBorrow' /\ Outstanding'
  OBVIOUS
<1> USE DEF Basis, FuturesBorrow, Outstanding
<1>0. /\ TypeOK
      /\ WakeRx => \A c \in Consumers : cons'[c] # "idle" <=> cons[c] # "idle"
      /\ WakeTx => \A p \in Producers : prod'[p] # "idle" <=> prod[p] # "idle"
  BY WakesPreserveIdle DEF Sound
<1>1. ASSUME NEW h \in Handles, Split(h) PROVE FuturesBorrow' /\ Outstanding'
  BY <1>0, <1>1 DEF Split, Live, LiveHandles, TypeOK, Ids
<1>2. ASSUME NEW h \in Handles, DropSender(h) PROVE FuturesBorrow' /\ Outstanding'
  BY <1>0, <1>2 DEF DropSender, Live, TypeOK, history
<1>3. ASSUME NEW h \in Handles, NEW g \in Handles, TryClone(h, g)
      PROVE  FuturesBorrow' /\ Outstanding'
  BY <1>0, <1>3 DEF TryClone, Live, TypeOK, history
<1>4. CASE DropReceiver
  BY <1>0, <1>4 DEF DropReceiver, Live, TypeOK, history
<1>5. ASSUME NEW p \in Producers, SendFirst(p) PROVE FuturesBorrow' /\ Outstanding'
  BY <1>0, <1>5 DEF SendFirst, MaySend, Attempt, Push, Live, TypeOK
<1>6. ASSUME NEW p \in Producers, SendAgain(p) PROVE FuturesBorrow' /\ Outstanding'
  BY <1>0, <1>6 DEF SendAgain, Attempt, Push, Live, TypeOK
<1>7. ASSUME NEW p \in Producers, TrySend(p) PROVE FuturesBorrow' /\ Outstanding'
  BY <1>0, <1>7 DEF TrySend, MaySend, Push, Live, TypeOK
<1>8. ASSUME NEW p \in Producers, CancelSend(p) PROVE FuturesBorrow' /\ Outstanding'
  BY <1>0, <1>8 DEF CancelSend, Live, TypeOK
<1>9. ASSUME NEW c \in Consumers, RecvFirst(c) \/ RecvAgain(c)
      PROVE  FuturesBorrow' /\ Outstanding'
  BY <1>0, <1>9 DEF RecvFirst, RecvAgain, Receive, Pop, Live, TypeOK
<1>10. ASSUME NEW c \in Consumers, TryRecv(c) PROVE FuturesBorrow' /\ Outstanding'
  BY <1>0, <1>10 DEF TryRecv, Pop, Live, TypeOK
<1>11. ASSUME NEW c \in Consumers, CancelRecv(c) PROVE FuturesBorrow' /\ Outstanding'
  BY <1>0, <1>11 DEF CancelRecv, Live, TypeOK, history
<1>12. CASE SpuriousWake
  BY <1>0, <1>12 DEF SpuriousWake, Live, TypeOK, history
<1>13. CASE UNCHANGED vars
  BY <1>13 DEF vars, Live
<1> QED
  BY <1>1, <1>2, <1>3, <1>4, <1>5, <1>6, <1>7, <1>8, <1>9, <1>10, <1>11,
     <1>12, <1>13 DEF Next

LEMMA BasisHolds == Spec => []Basis
<1>1. Basis /\ [Next]_vars => Basis'
  BY NextSound, NextBorrow DEF Basis
<1> QED  BY InitBasis, <1>1, PTL DEF Spec

\* Every variable has its type in every reachable state, whatever the sizes
\* of the channel and whoever shares its halves.
THEOREM TypeCorrect == Spec => []TypeOK
<1>1. Basis => TypeOK  BY DEF Basis, Sound
<1> QED  BY BasisHolds, <1>1, PTL

\* The occupied slots are always the len slots after head (push and pop of
\* channel.rs): nothing unreceived is overwritten, nothing absent is received.
THEOREM RingCorrect == Spec => []RingWindow
<1>1. Basis => RingWindow  BY DEF Basis, Sound
<1> QED  BY BasisHolds, <1>1, PTL

-----------------------------------------------------------------------------
(* The second layer: every live sender owns a waker slot of its own.       *)

LEMMA InitIds == Init => IdsAreOwned
  BY DEF Init, IdsAreOwned, LiveHandles, Live

LEMMA NextIds == Basis /\ IdsAreOwned /\ [Next]_vars => IdsAreOwned'
<1> USE ChannelAssumption
<1> SUFFICES ASSUME Basis, IdsAreOwned, [Next]_vars PROVE IdsAreOwned'
  OBVIOUS
<1> USE DEF IdsAreOwned, LiveHandles, Live
<1>0. /\ TypeOK
      /\ \A i \in Ids : i # None
  BY DEF Basis, Sound
<1>1. ASSUME NEW h \in Handles, Split(h) PROVE IdsAreOwned'
  <2>1. 0 \in Ids /\ txId' = [txId EXCEPT ![h] = 0] /\ tx_ids' = {0}
    BY <1>1 DEF Split, Ids
  <2>2. \A g \in Handles : txId'[g] # None <=> g = h
    BY <1>0, <1>1, <2>1 DEF Split, TypeOK
  <2> QED  BY <1>0, <2>1, <2>2 DEF TypeOK
<1>2. ASSUME NEW h \in Handles, DropSender(h) PROVE IdsAreOwned'
  <2>1. /\ txId[h] # None
        /\ txId' = [txId EXCEPT ![h] = None] /\ tx_ids' = tx_ids \ {txId[h]}
    BY <1>2 DEF DropSender
  <2>2. LiveHandles' = LiveHandles \ {h}
    BY <1>0, <2>1 DEF TypeOK
  <2>3. \A g \in LiveHandles' : txId'[g] = txId[g] /\ txId[g] # txId[h]
    BY <1>0, <2>1, <2>2 DEF TypeOK
  <2> QED  BY <1>0, <2>1, <2>2, <2>3 DEF TypeOK
<1>3. ASSUME NEW h \in Handles, NEW g \in Handles, TryClone(h, g) PROVE IdsAreOwned'
  <2>1. PICK i \in Ids : /\ IsLowestFree(i)
                         /\ tx_ids' = tx_ids \cup {i}
                         /\ txId' = [txId EXCEPT ![g] = i]
    BY <1>3 DEF TryClone
  <2>2. i \notin tx_ids /\ txId[g] = None
    BY <1>3, <2>1 DEF TryClone, IsLowestFree, FreeIds
  <2>3. LiveHandles' = LiveHandles \cup {g}
    BY <1>0, <2>1 DEF TypeOK
  <2>4. /\ txId'[g] = i
        /\ \A k \in LiveHandles : txId'[k] = txId[k] /\ txId[k] \in tx_ids
    BY <1>0, <2>1, <2>2 DEF TypeOK
  <2> QED  BY <1>0, <2>1, <2>2, <2>3, <2>4
<1>4. CASE UNCHANGED <<tx_ids, txId>>
  BY <1>4
<1> QED
  BY <1>1, <1>2, <1>3, <1>4
  DEF Next, vars, DropReceiver, SendFirst, SendAgain, TrySend, CancelSend,
      RecvFirst, RecvAgain, TryRecv, CancelRecv, SpuriousWake

LEMMA IdsHold == Spec => [](Basis /\ IdsAreOwned)
<1>1. Basis /\ IdsAreOwned /\ [Next]_vars => IdsAreOwned'
  BY NextIds
<1> QED  BY BasisHolds, InitIds, <1>1, PTL DEF Spec

\* The comment of channel.rs:11, for every order of clones and drops: a set bit
\* is a live Sender's, and no two live Senders have the same waker slot.
THEOREM IdsCorrect == Spec => []IdsAreOwned
  BY IdsHold, PTL

-----------------------------------------------------------------------------
(* The third layer: no lost wake-up.                                       *)

Waiting == SendWaitsOnlyWhileFull /\ RecvWaitsOnlyWhileEmpty /\ WakersRegistered

LEMMA InitWaiting == Init => Waiting
  BY DEF Init, Waiting, SendWaitsOnlyWhileFull, RecvWaitsOnlyWhileEmpty, WakersRegistered

\* Distinct producers that have a live Sender have distinct waker slots.
LEMMA DistinctSlots ==
  ASSUME OneTaskPerHalf, Basis, IdsAreOwned,
         NEW p \in Producers, NEW q \in Producers, p # q,
         Live(HandleOf[p]), Live(HandleOf[q])
  PROVE  MyId(p) \in Ids /\ MyId(q) \in Ids /\ MyId(p) # MyId(q)
  BY ChannelAssumption
  DEF OneTaskPerHalf, Basis, Sound, TypeOK, IdsAreOwned, LiveHandles, Live, MyId

\* Once the receiver's waker has been called, no consumer is parked.
LEMMA WakeRxEmpties ==
  ASSUME Basis, Waiting, WakeRx
  PROVE  \A c \in Consumers : cons'[c] # "parked"
  BY DEF Basis, Sound, TypeOK, Waiting, WakersRegistered, WakeRx, Woken

\* Once every sender's waker has been called, no producer is parked.
LEMMA WakeTxEmpties ==
  ASSUME Basis, Waiting, WakeTx
  PROVE  \A p \in Producers : prod'[p] # "parked"
<1> SUFFICES ASSUME NEW p \in Producers, prod[p] = "parked" PROVE prod'[p] # "parked"
  BY DEF WakeTx, Woken
<1>1. tx_wakers[MyId(p)] = p
  BY DEF Waiting, WakersRegistered
<1>2. MyId(p) \in Ids
  BY ChannelAssumption DEF Basis, FuturesBorrow, Live, MyId, Sound, TypeOK
<1> QED  BY <1>1, <1>2 DEF WakeTx, Woken

LEMMA AttemptWaiting ==
  ASSUME OneTaskPerHalf, Basis, IdsAreOwned, Waiting,
         NEW p \in Producers, NEW m, Attempt(p, m), Live(HandleOf[p]),
         UNCHANGED <<tx_ids, rx_alive, txId>>
  PROVE  Waiting'
<1> USE ChannelAssumption
<1>0. TypeOK  BY DEF Basis, Sound
<1> USE DEF Waiting, SendWaitsOnlyWhileFull, RecvWaitsOnlyWhileEmpty, WakersRegistered
<1>1. CASE /\ ~rx_alive
           /\ prod' = [prod EXCEPT ![p] = "idle"]
           /\ UNCHANGED <<ring, rx_waker, tx_wakers, cons>>
  BY <1>0, <1>1 DEF TypeOK, ring, MyId, TxAlive
<1>2. CASE /\ rx_alive /\ Push(m)
           /\ prod' = [prod EXCEPT ![p] = "idle"]
           /\ tx_wakers' = tx_wakers
  <2>1. \A q \in Producers : prod[q] # "parked" /\ prod'[q] # "parked"
    BY <1>0, <1>2 DEF TypeOK, Push
  <2>2. \A c \in Consumers : cons'[c] # "parked"
    BY <1>2, WakeRxEmpties DEF Push
  <2> QED  BY <2>1, <2>2
<1>3. CASE /\ rx_alive /\ len = N
           /\ tx_wakers' = [tx_wakers EXCEPT ![MyId(p)] = p]
           /\ prod' = [prod EXCEPT ![p] = "parked"]
           /\ UNCHANGED <<ring, rx_waker, cons>>
  <2>1. MyId(p) \in Ids /\ MyId(p)' = MyId(p)
    BY <1>0 DEF TypeOK, MyId, Live
  <2>2. \A q \in Producers : prod'[q] = "parked" => rx_alive' /\ len' = N
    BY <1>3 DEF ring
  <2>3. ASSUME NEW q \in Producers, prod'[q] = "parked" PROVE tx_wakers'[MyId(q)] = q
    <3>1. CASE q = p
      BY <1>0, <1>3, <2>1, <3>1 DEF TypeOK
    <3>2. CASE q # p
      <4>1. prod[q] = "parked"
        BY <1>0, <1>3, <2>3, <3>2 DEF TypeOK
      <4>2. Live(HandleOf[q])
        BY <4>1 DEF Basis, FuturesBorrow
      <4>3. MyId(q) \in Ids /\ MyId(q) # MyId(p)
        BY <3>2, <4>2, DistinctSlots
      <4> QED  BY <1>0, <1>3, <4>1, <4>3 DEF TypeOK
    <3> QED  BY <3>1, <3>2
  <2>4. \A q \in Producers : MyId(q)' = MyId(q)
    BY DEF MyId
  <2> QED  BY <1>3, <2>2, <2>3, <2>4 DEF ring, TxAlive
<1> QED  BY <1>1, <1>2, <1>3 DEF Attempt

LEMMA ReceiveWaiting ==
  ASSUME OneTaskPerHalf, Basis, Waiting,
         NEW c \in Consumers, Receive(c), UNCHANGED <<tx_ids, rx_alive, txId>>
  PROVE  Waiting'
<1> USE ChannelAssumption
<1>0. TypeOK  BY DEF Basis, Sound
<1> USE DEF Waiting, SendWaitsOnlyWhileFull, RecvWaitsOnlyWhileEmpty, WakersRegistered
<1>1. CASE Pop /\ cons' = [cons EXCEPT ![c] = "idle"]
  <2>1. \A p \in Producers : prod'[p] # "parked"
    BY <1>1, WakeTxEmpties DEF Pop
  <2>2. \A d \in Consumers : cons[d] # "parked" /\ cons'[d] # "parked"
    BY <1>0, <1>1 DEF TypeOK, Pop
  <2> QED  BY <2>1, <2>2
<1>2. CASE /\ len = 0 /\ ~TxAlive
           /\ cons' = [cons EXCEPT ![c] = "idle"]
           /\ UNCHANGED <<ring, rx_waker, tx_wakers, prod>>
  BY <1>0, <1>2 DEF TypeOK, ring, MyId, TxAlive
<1>3. CASE /\ len = 0 /\ TxAlive
           /\ rx_waker' = c
           /\ cons' = [cons EXCEPT ![c] = "parked"]
           /\ UNCHANGED <<ring, tx_wakers, prod>>
  <2>1. \A d \in Consumers : d = c
    BY DEF OneTaskPerHalf
  <2> QED  BY <1>3, <2>1 DEF ring, MyId, TxAlive
<1> QED  BY <1>1, <1>2, <1>3 DEF Receive

LEMMA NextWaiting ==
  ASSUME OneTaskPerHalf, Basis, IdsAreOwned, Waiting, [Next]_vars
  PROVE  Waiting'
<1> USE ChannelAssumption
<1>0. TypeOK /\ FuturesBorrow  BY DEF Basis, Sound
<1> USE DEF Waiting, SendWaitsOnlyWhileFull, RecvWaitsOnlyWhileEmpty, WakersRegistered
<1>1. ASSUME NEW h \in Handles, Split(h) PROVE Waiting'
  <2>1. \A p \in Producers : prod[p] = "idle"
    BY <1>0, <1>1 DEF Split, FuturesBorrow, LiveHandles
  <2>2. \A c \in Consumers : cons[c] = "idle"
    BY <1>0, <1>1 DEF Split, FuturesBorrow
  <2> QED  BY <1>1, <2>1, <2>2 DEF Split
<1>2. ASSUME NEW h \in Handles, DropSender(h) PROVE Waiting'
  <2>1. txId[h] \in Ids /\ txId[h] \in tx_ids
    BY <1>0, <1>2 DEF DropSender, Live, TypeOK, IdsAreOwned, LiveHandles
  <2>2. ASSUME NEW p \in Producers, prod'[p] = "parked"
        PROVE  rx_alive' /\ len' = N /\ tx_wakers'[MyId(p)'] = p
    <3>1. prod[p] = "parked" /\ HandleOf[p] # h
      BY <1>2, <2>2 DEF DropSender
    <3>2. Live(HandleOf[p]) /\ HandleOf[p] \in Handles
      BY <1>0, <3>1 DEF FuturesBorrow
    <3>3. MyId(p)' = MyId(p) /\ MyId(p) # txId[h] /\ MyId(p) \in Ids
      BY <1>0, <1>2, <3>1, <3>2
      DEF DropSender, TypeOK, MyId, Live, IdsAreOwned, LiveHandles
    <3> QED  BY <1>0, <1>2, <3>1, <3>3 DEF DropSender, TypeOK, ring
  <2>3. CASE tx_ids' = {}
    <3>1. WakeRx  BY <1>2, <2>3 DEF DropSender
    <3> QED  BY <2>2, <3>1, WakeRxEmpties
  <2>4. CASE tx_ids' # {}
    BY <1>2, <2>2, <2>4 DEF DropSender, TxAlive, ring
  <2> QED  BY <2>3, <2>4
<1>3. ASSUME NEW h \in Handles, NEW g \in Handles, TryClone(h, g) PROVE Waiting'
  <2>1. ASSUME NEW p \in Producers, prod[p] = "parked" PROVE MyId(p)' = MyId(p)
    <3>1. Live(HandleOf[p]) /\ HandleOf[p] \in Handles
      BY <1>0, <2>1 DEF FuturesBorrow
    <3> QED  BY <1>0, <1>3, <3>1 DEF TryClone, TypeOK, MyId, Live
  <2> QED  BY <1>3, <2>1 DEF TryClone, TxAlive, ring
<1>4. CASE DropReceiver
  <2>1. \A p \in Producers : prod'[p] # "parked"
    BY <1>4, WakeTxEmpties DEF DropReceiver
  <2>2. \A c \in Consumers : cons'[c] # "parked"
    BY <1>4 DEF DropReceiver
  <2> QED  BY <2>1, <2>2
<1>5. ASSUME NEW p \in Producers, SendFirst(p) PROVE Waiting'
  BY <1>5, AttemptWaiting DEF SendFirst, MaySend
<1>6. ASSUME NEW p \in Producers, SendAgain(p) PROVE Waiting'
  BY <1>0, <1>6, AttemptWaiting DEF SendAgain, FuturesBorrow
<1>7. ASSUME NEW p \in Producers, TrySend(p) PROVE Waiting'
  <2>1. CASE Push(Fresh(p))
    <3>1. \A q \in Producers : prod[q] # "parked" /\ prod'[q] # "parked"
      BY <1>0, <1>7, <2>1 DEF TrySend, TypeOK, Push
    <3>2. \A c \in Consumers : cons'[c] # "parked"
      BY <2>1, WakeRxEmpties DEF Push
    <3> QED  BY <3>1, <3>2
  <2>2. CASE UNCHANGED <<ring, rx_waker, cons>>
    BY <1>7, <2>2 DEF TrySend, ring, MyId, TxAlive
  <2> QED  BY <1>7, <2>1, <2>2 DEF TrySend
<1>8. ASSUME NEW p \in Producers, CancelSend(p) PROVE Waiting'
  BY <1>0, <1>8 DEF CancelSend, TypeOK, ring, MyId, TxAlive
<1>9. ASSUME NEW c \in Consumers, RecvFirst(c) \/ RecvAgain(c) PROVE Waiting'
  BY <1>9, ReceiveWaiting DEF RecvFirst, RecvAgain
<1>10. ASSUME NEW c \in Consumers, TryRecv(c) PROVE Waiting'
  <2>1. \A p \in Producers : prod'[p] # "parked"
    BY <1>10, WakeTxEmpties DEF TryRecv, Pop
  <2>2. \A d \in Consumers : cons'[d] # "parked"
    BY <1>0, <1>10 DEF TryRecv, Pop, TypeOK
  <2> QED  BY <2>1, <2>2
<1>11. ASSUME NEW c \in Consumers, CancelRecv(c) PROVE Waiting'
  BY <1>0, <1>11 DEF CancelRecv, TypeOK, ring, MyId, TxAlive
<1>12. CASE SpuriousWake
  BY <1>0, <1>12 DEF SpuriousWake, TypeOK, ring, MyId, TxAlive
<1>13. CASE UNCHANGED vars
  BY <1>13 DEF vars, MyId, TxAlive
<1> QED
  BY <1>1, <1>2, <1>3, <1>4, <1>5, <1>6, <1>7, <1>8, <1>9, <1>10, <1>11,
     <1>12, <1>13 DEF Next

\* No lost wake-up: with one task per half of the channel, a task nobody will
\* wake is one whose wait is not over (send waits while full, recv while empty,
\* channel.rs:114 and 157), and its waker is where the event that ends the
\* wait will find it.
THEOREM NoLostWakeup ==
  ASSUME OneTaskPerHalf
  PROVE  Spec => [](SendWaitsOnlyWhileFull /\ RecvWaitsOnlyWhileEmpty /\ WakersRegistered)
<1>1. Basis /\ IdsAreOwned /\ Waiting /\ [Next]_vars => Waiting'
  BY NextWaiting
<1>2. Spec => []Waiting
  BY IdsHold, InitWaiting, <1>1, PTL DEF Spec
<1> QED  BY <1>2, PTL DEF Waiting

-----------------------------------------------------------------------------
(* The ring implements the queue of Mpsc.                                  *)

\* The i-th value from the head is inside the array, at distance i - 1, and
\* stays where it is when the head moves on.
LEMMA PickIndex ==
  ASSUME NEW n \in Nat \ {0}, NEW h \in 0 .. n - 1, NEW i \in 1 .. n
  PROVE  /\ (h + i - 1) % n \in 0 .. n - 1
         /\ Distance((h + i - 1) % n, h, n) = i - 1
         /\ i < n => (((h + 1) % n) + i - 1) % n = (h + (i + 1) - 1) % n
<1>1. CASE h + i - 1 < n
  <2>1. (h + i - 1) % n = h + i - 1  BY <1>1, ModSmall
  <2>2. ((h + 1) % n) + i - 1 = h + i \/ (h + 1 = n /\ i = 1 /\ (h + 1) % n = 0)
    <3>1. CASE h + 1 < n
      <4>1. (h + 1) % n = h + 1  BY <3>1, ModSmall
      <4> QED  BY <4>1
    <3>2. CASE h + 1 = n
      <4>1. (h + 1) % n = 0  BY <3>2, ModWrap
      <4> QED  BY <4>1, <3>2, <1>1
    <3> QED  BY <3>1, <3>2
  <2>3. h + 1 = n /\ i = 1 => (h + i) % n = 0 /\ 0 % n = 0
    BY ModWrap, ModSmall
  <2> QED  BY <1>1, <2>1, <2>2, <2>3 DEF Distance
<1>2. CASE h + i - 1 >= n
  <2>1. (h + i - 1) % n = h + i - 1 - n  BY <1>2, ModWrap
  <2>2. ASSUME i < n PROVE (((h + 1) % n) + i - 1) % n = (h + i) % n
    <3>1. CASE h + 1 < n
      <4>1. (h + 1) % n = h + 1  BY <3>1, ModSmall
      <4> QED  BY <4>1
    <3>2. CASE h + 1 = n
      <4>1. (h + 1) % n = 0  BY <3>2, ModWrap
      <4>2. (i - 1) % n = i - 1  BY <2>2, ModSmall
      <4>3. (h + i) % n = h + i - n  BY <2>2, <3>2, ModWrap
      <4> QED  BY <4>1, <4>2, <4>3, <3>2
    <3> QED  BY <3>1, <3>2
  <2> QED  BY <1>2, <2>1, <2>2 DEF Distance
<1> QED  BY <1>1, <1>2

\* The buffered values are messages.
LEMMA BufferedType ==
  ASSUME Basis
  PROVE  Buffered \in Seq(Messages) /\ Len(Buffered) = len
<1> USE ChannelAssumption
<1>1. head \in 0 .. N - 1 /\ len \in 0 .. N
  BY DEF Basis, Sound, TypeOK
<1>2. ASSUME NEW i \in 1 .. len PROVE slots[(head + i - 1) % N] \in Messages
  <2> DEFINE k == (head + i - 1) % N
  <2>0. i \in 1 .. N
    BY <1>1
  <2>1. k \in 0 .. N - 1 /\ Distance(k, head, N) = i - 1
    BY <1>1, <2>0, PickIndex
  <2>2. slots[k] # None
    BY <1>1, <2>1 DEF Basis, Sound, RingWindow, Distance
  <2> QED  BY <2>1, <2>2 DEF Basis, Sound, TypeOK
<1> QED  BY <1>1, <1>2 DEF Buffered

\* A push appends to the buffered values.
LEMMA PushAppends ==
  ASSUME Basis, NEW m \in Messages, Push(m)
  PROVE  Buffered' = Append(Buffered, m)
<1> USE ChannelAssumption
<1>1. head \in 0 .. N - 1 /\ len \in 0 .. N - 1
  BY DEF Basis, Sound, TypeOK, Push
<1>2. slots' = [slots EXCEPT ![(head + len) % N] = m] /\ len' = len + 1 /\ head' = head
  BY DEF Push
<1>3. Buffered' = [i \in 1 .. len + 1 |-> slots'[(head + i - 1) % N]]
  BY <1>2 DEF Buffered
<1>4. ASSUME NEW i \in 1 .. len
      PROVE  slots'[(head + i - 1) % N] = slots[(head + i - 1) % N]
  <2>1. /\ (head + i - 1) % N \in 0 .. N - 1
        /\ Distance((head + i - 1) % N, head, N) = i - 1
    <3>1. i \in 1 .. N  BY <1>1
    <3> QED  BY <1>1, <3>1, PickIndex
  <2>2. (head + i - 1) % N # (head + len) % N
    <3>1. i - 1 # len  BY <1>1
    <3> QED  BY <1>1, <2>1, <3>1, PushIndex
  <2> QED  BY <1>2, <2>1, <2>2 DEF Basis, Sound, TypeOK
<1>5. slots'[(head + (len + 1) - 1) % N] = m
  <2>1. (head + len) % N \in 0 .. N - 1 /\ head + (len + 1) - 1 = head + len
    BY <1>1, PushIndex
  <2> QED  BY <1>2, <2>1 DEF Basis, Sound, TypeOK
<1>6. Append(Buffered, m) =
        [i \in 1 .. len + 1 |-> IF i = len + 1 THEN m ELSE slots[(head + i - 1) % N]]
  BY <1>1, BufferedType DEF Buffered
<1>7. ASSUME NEW i \in 1 .. len + 1
      PROVE  slots'[(head + i - 1) % N] =
               IF i = len + 1 THEN m ELSE slots[(head + i - 1) % N]
  <2>1. CASE i = len + 1  BY <2>1, <1>5
  <2>2. CASE i # len + 1
    <3>1. i \in 1 .. len  BY <1>1, <2>2
    <3> QED  BY <3>1, <2>2, <1>4
  <2> QED  BY <2>1, <2>2
<1> QED  BY <1>3, <1>6, <1>7

\* A pop receives the oldest of the buffered values and leaves the others.
LEMMA PopDelivers ==
  ASSUME Basis, Pop
  PROVE  Buffered # <<>> /\ got' = Append(got, Head(Buffered)) /\ Buffered' = Tail(Buffered)
<1> USE ChannelAssumption
<1>1. head \in 0 .. N - 1 /\ len \in 1 .. N
  BY DEF Basis, Sound, TypeOK, Pop
<1>2. /\ slots' = [slots EXCEPT ![head] = None]
      /\ len' = len - 1 /\ head' = (head + 1) % N
      /\ got' = Append(got, slots[head])
  BY DEF Pop
<1>3. Buffered \in Seq(Messages) /\ Len(Buffered) = len
  BY BufferedType
<1>4. Buffered # <<>>
  BY <1>1, <1>3
<1>5. Head(Buffered) = slots[head]
  <2>1. Head(Buffered) = Buffered[1]
    BY <1>3, <1>4
  <2>2. Buffered[1] = slots[(head + 1 - 1) % N]
    BY <1>1 DEF Buffered
  <2>3. head + 1 - 1 = head /\ head % N = head
    BY <1>1, ModSmall
  <2> QED  BY <2>1, <2>2, <2>3
<1>6. Buffered' = [i \in 1 .. len - 1 |-> slots'[(((head + 1) % N) + i - 1) % N]]
  BY <1>2 DEF Buffered
<1>7. Tail(Buffered) = [i \in 1 .. len - 1 |-> slots[(head + (i + 1) - 1) % N]]
  <2>1. /\ Tail(Buffered) \in Seq(Messages) /\ Len(Tail(Buffered)) = len - 1
        /\ \A i \in 1 .. len - 1 : Tail(Buffered)[i] = Buffered[i + 1]
    BY <1>3, <1>4, HeadTailProperties
  <2>2. \A i \in 1 .. len - 1 : Buffered[i + 1] = slots[(head + (i + 1) - 1) % N]
    BY <1>1 DEF Buffered
  <2>3. Tail(Buffered) \in [1 .. len - 1 -> Messages]
    BY <2>1, LenProperties
  <2> QED  BY <2>1, <2>2, <2>3
<1>8. ASSUME NEW i \in 1 .. len - 1
      PROVE  slots'[(((head + 1) % N) + i - 1) % N] = slots[(head + (i + 1) - 1) % N]
  <2> DEFINE k == (head + (i + 1) - 1) % N
  <2>1. (((head + 1) % N) + i - 1) % N = k
    BY <1>1, PickIndex
  <2>2. k \in 0 .. N - 1 /\ Distance(k, head, N) = i
    <3>1. i + 1 \in 1 .. N /\ N \in Nat \ {0}  BY <1>1
    <3>2. k \in 0 .. N - 1 /\ Distance(k, head, N) = (i + 1) - 1
      BY <1>1, <3>1, PickIndex
    <3> QED  BY <3>2
  <2>3. k # head
    BY <1>1, <2>2 DEF Distance
  <2> QED  BY <1>2, <2>1, <2>2, <2>3 DEF Basis, Sound, TypeOK
<1> QED  BY <1>2, <1>4, <1>5, <1>6, <1>7, <1>8

\* While a sender id is free, fewer than S senders are live.
LEMMA RoomForASender ==
  ASSUME Basis, IdsAreOwned, FreeIds # {}
  PROVE  Cardinality(LiveHandles) < S
<1> DEFINE f == [h \in LiveHandles |-> txId[h]]
<1>1. S \in Nat /\ IsFiniteSet(Ids) /\ Cardinality(Ids) = S
  <2>1. S \in Nat /\ 0 \in Int /\ S - 1 \in Int /\ ~(0 > S - 1) /\ (S - 1) - 0 + 1 = S
    BY ChannelAssumption
  <2> QED  BY <2>1, FS_Interval DEF Ids
<1>2. f \in Injection(LiveHandles, Ids)
  <2>1. \A h \in LiveHandles : txId[h] \in Ids
    BY DEF Basis, Sound, TypeOK, LiveHandles, Live
  <2>2. f \in [LiveHandles -> Ids]
    BY <2>1
  <2>3. \A h, g \in LiveHandles : f[h] = f[g] => h = g
    BY DEF IdsAreOwned
  <2> QED  BY <2>2, <2>3, Fun_IsInj
<1>3. f \notin Surjection(LiveHandles, Ids)
  <2>1. PICK i \in Ids : i \notin tx_ids
    BY DEF FreeIds
  <2>2. \A h \in LiveHandles : f[h] # i
    BY <2>1 DEF IdsAreOwned
  <2> QED  BY <2>1, <2>2 DEF Surjection
<1>4. IsFiniteSet(LiveHandles) /\ Cardinality(LiveHandles) <= S /\ Cardinality(LiveHandles) # S
  <2>1. /\ IsFiniteSet(LiveHandles) /\ Cardinality(LiveHandles) <= Cardinality(Ids)
        /\ Cardinality(LiveHandles) = Cardinality(Ids) <=> f \in Surjection(LiveHandles, Ids)
    BY <1>1, <1>2, FS_Injection
  <2> QED  BY <1>1, <1>3, <2>1
<1>5. Cardinality(LiveHandles) \in Nat
  BY <1>4, FS_CardinalityType
<1> QED  BY <1>1, <1>4, <1>5

\* The facts of a state that its steps are mapped with.
Ready == Basis /\ IdsAreOwned

LEMMA InitRefines == Init => Abstract!Init
  BY DEF Init, Abstract!Init, Buffered, LiveHandles, Live

LEMMA SameBuffer == UNCHANGED ring => Buffered' = Buffered
  BY DEF ring, Buffered

LEMMA AliveIffHandles == Ready => (TxAlive <=> LiveHandles # {})
  BY DEF Ready, IdsAreOwned, TxAlive

LEMMA PushRefines ==
  ASSUME Ready, rx_alive, LiveHandles # {}, NEW m \in Messages, Push(m),
         UNCHANGED <<rx_alive, txId, got, ended>>
  PROVE  Abstract!Accept(m)
<1>1. Buffered' = Append(Buffered, m)
  BY PushAppends DEF Ready
<1>2. Len(Buffered) = len /\ len < N
  BY BufferedType DEF Ready, Push
<1>3. LiveHandles' = LiveHandles
  BY DEF LiveHandles, Live
<1> QED  BY <1>1, <1>2, <1>3 DEF Abstract!Accept

LEMMA PopRefines ==
  ASSUME Ready, rx_alive, Pop, UNCHANGED <<rx_alive, txId, ended>>
  PROVE  Abstract!Deliver
<1>1. Buffered # <<>> /\ got' = Append(got, Head(Buffered)) /\ Buffered' = Tail(Buffered)
  BY PopDelivers DEF Ready
<1>2. LiveHandles' = LiveHandles
  BY DEF LiveHandles, Live
<1> QED  BY <1>1, <1>2 DEF Abstract!Deliver

LEMMA AttemptRefines ==
  ASSUME Ready, NEW p \in Producers, NEW m \in Messages, Attempt(p, m), Live(HandleOf[p]),
         UNCHANGED <<tx_ids, rx_alive, txId, got, ended>>
  PROVE  [Abstract!Next]_(Abstract!vars)
<1>1. LiveHandles # {} /\ LiveHandles' = LiveHandles
  BY ChannelAssumption DEF LiveHandles, Live
<1>2. CASE rx_alive /\ Push(m)
  <2>1. Abstract!Accept(m)  BY <1>1, <1>2, PushRefines
  <2> QED  BY <2>1 DEF Abstract!Next
<1>3. CASE UNCHANGED ring
  BY <1>1, <1>3, SameBuffer DEF Abstract!vars
<1> QED  BY <1>2, <1>3 DEF Attempt

LEMMA ReceiveRefines ==
  ASSUME Ready, NEW c \in Consumers, Receive(c), rx_alive,
         UNCHANGED <<tx_ids, rx_alive, txId, sends, handed>>
  PROVE  [Abstract!Next]_(Abstract!vars)
<1>1. LiveHandles' = LiveHandles
  BY DEF LiveHandles, Live
<1>2. CASE Pop /\ UNCHANGED ended
  BY <1>2, PopRefines DEF Abstract!Next
<1>3. CASE len = 0 /\ ~TxAlive /\ ended' = TRUE /\ UNCHANGED <<ring, got>>
  <2>1. Buffered = <<>> /\ LiveHandles = {}
    BY <1>3, BufferedType, AliveIffHandles DEF Ready
  <2>2. Abstract!End
    BY <1>1, <1>3, <2>1, SameBuffer DEF Abstract!End
  <2> QED  BY <2>2 DEF Abstract!Next
<1>4. CASE UNCHANGED <<ring, got, ended>>
  BY <1>1, <1>4, SameBuffer DEF Abstract!vars
<1> QED  BY <1>2, <1>3, <1>4 DEF Receive

\* Each step of the channel is a step of the queue, or leaves it alone.
LEMMA StepRefines ==
  ASSUME Ready, [Next]_vars
  PROVE  [Abstract!Next]_(Abstract!vars)
<1> USE ChannelAssumption
<1>0. TypeOK /\ FuturesBorrow /\ Outstanding  BY DEF Ready, Basis, Sound
<1>1. ASSUME NEW h \in Handles, Split(h) PROVE [Abstract!Next]_(Abstract!vars)
  <2>1. LiveHandles' = {h}
    <3>1. 0 # None  BY DEF Ids
    <3> QED  BY <1>0, <1>1, <3>1 DEF Split, TypeOK, LiveHandles, Live
  <2>2. Abstract!Open(h)
    BY <1>1, <2>1, SameBuffer DEF Split, Abstract!Open
  <2> QED  BY <2>2 DEF Abstract!Next
<1>2. ASSUME NEW h \in Handles, DropSender(h) PROVE [Abstract!Next]_(Abstract!vars)
  <2>1. h \in LiveHandles /\ LiveHandles' = LiveHandles \ {h}
    BY <1>0, <1>2 DEF DropSender, TypeOK, LiveHandles, Live
  <2>2. Abstract!CloseSender(h)
    BY <1>2, <2>1, SameBuffer DEF DropSender, history, Abstract!CloseSender
  <2> QED  BY <2>2 DEF Abstract!Next
<1>3. ASSUME NEW h \in Handles, NEW g \in Handles, TryClone(h, g)
      PROVE  [Abstract!Next]_(Abstract!vars)
  <2>1. PICK i \in Ids : IsLowestFree(i) /\ txId' = [txId EXCEPT ![g] = i]
    BY <1>3 DEF TryClone
  <2>2. g \notin LiveHandles /\ LiveHandles # {} /\ LiveHandles' = LiveHandles \cup {g}
    BY <1>0, <1>3, <2>1 DEF TryClone, TypeOK, LiveHandles, Live
  <2>3. Abstract!Cardinality(LiveHandles) < S
    <3>1. Cardinality(LiveHandles) < S
      BY <2>1, RoomForASender DEF Ready, IsLowestFree
    <3>2. Abstract!Cardinality(LiveHandles) = Cardinality(LiveHandles)
      BY DEF Abstract!Cardinality, Cardinality
    <3> QED  BY <3>1, <3>2
  <2>4. Abstract!Clone(g)
    BY <1>3, <2>2, <2>3, SameBuffer DEF TryClone, history, Abstract!Clone
  <2> QED  BY <2>4 DEF Abstract!Next
<1>4. CASE DropReceiver
  <2>1. LiveHandles' = LiveHandles
    BY <1>4 DEF DropReceiver, LiveHandles, Live
  <2>2. Abstract!CloseReceiver
    BY <1>4, <2>1, SameBuffer DEF DropReceiver, history, Abstract!CloseReceiver
  <2> QED  BY <2>2 DEF Abstract!Next
<1>5. ASSUME NEW p \in Producers, SendFirst(p) PROVE [Abstract!Next]_(Abstract!vars)
  <2>1. Fresh(p) \in Messages
    BY <1>0, <1>5, Offered DEF SendFirst
  <2> QED  BY <1>5, <2>1, AttemptRefines DEF SendFirst, MaySend
<1>6. ASSUME NEW p \in Producers, SendAgain(p) PROVE [Abstract!Next]_(Abstract!vars)
  <2>1. Held(p) \in Messages /\ Live(HandleOf[p])
    BY <1>0, <1>6, Offered DEF SendAgain, Outstanding, FuturesBorrow
  <2> QED  BY <1>6, <2>1, AttemptRefines DEF SendAgain
<1>7. ASSUME NEW p \in Producers, TrySend(p) PROVE [Abstract!Next]_(Abstract!vars)
  <2>1. Fresh(p) \in Messages /\ LiveHandles # {} /\ LiveHandles' = LiveHandles
    BY <1>0, <1>7, Offered DEF TrySend, MaySend, LiveHandles, Live
  <2>2. CASE rx_alive /\ Push(Fresh(p))
    <3>1. Abstract!Accept(Fresh(p))
      BY <1>7, <2>1, <2>2, PushRefines DEF TrySend
    <3> QED  BY <2>1, <3>1 DEF Abstract!Next
  <2>3. CASE UNCHANGED ring
    BY <1>7, <2>1, <2>3, SameBuffer DEF TrySend, Abstract!vars
  <2> QED  BY <1>7, <2>2, <2>3 DEF TrySend
<1>8. ASSUME NEW c \in Consumers, RecvFirst(c) PROVE [Abstract!Next]_(Abstract!vars)
  BY <1>8, ReceiveRefines DEF RecvFirst
<1>9. ASSUME NEW c \in Consumers, RecvAgain(c) PROVE [Abstract!Next]_(Abstract!vars)
  BY <1>0, <1>9, ReceiveRefines DEF RecvAgain, FuturesBorrow
<1>10. ASSUME NEW c \in Consumers, TryRecv(c) PROVE [Abstract!Next]_(Abstract!vars)
  BY <1>10, PopRefines DEF TryRecv, Abstract!Next
<1>11. CASE UNCHANGED <<ring, rx_alive, txId, got, ended>>
  <2>1. LiveHandles' = LiveHandles
    BY <1>11 DEF LiveHandles, Live
  <2> QED  BY <1>11, <2>1, SameBuffer DEF Abstract!vars
<1> QED
  BY <1>1, <1>2, <1>3, <1>4, <1>5, <1>6, <1>7, <1>8, <1>9, <1>10, <1>11
  DEF Next, CancelSend, CancelRecv, SpuriousWake, vars, ring, history

\* The ring, its wakers and its sender ids implement the bounded queue of Mpsc:
\* first in first out, no value without room, None only at the very end.
THEOREM ChannelImplementsMpsc == Spec => Refinement
<1>1. Ready /\ [Next]_vars => [Abstract!Next]_(Abstract!vars)
  BY StepRefines
<1>2. Spec => []Ready
  BY IdsHold, PTL DEF Ready
<1>3. Spec => Abstract!Spec
  BY InitRefines, <1>1, <1>2, PTL DEF Spec, Abstract!Spec
<1> QED  BY <1>3 DEF Refinement
=============================================================================
