----------------------------- MODULE StubProofs -----------------------------
(* Theorems about ExchangeStub, for every set of tasks, every cast of      *)
(* callers and every capacity of the channel of depths.                    *)
EXTENDS ExchangeStub, SequenceTheorems, TLAPS

-----------------------------------------------------------------------------
(* Sequences of depths.                                                    *)

Increasing(s) == \A i, j \in 1 .. Len(s) : i < j => s[i] < s[j]

\* All of s were made before all of t.
Before(s, t) == \A i \in 1 .. Len(s), j \in 1 .. Len(t) : s[i] < t[j]

LEMMA BelowTop == ASSUME NEW m \in Nat, NEW i \in 1 .. m + 1, i # m + 1 PROVE i \in 1 .. m
  OBVIOUS

LEMMA AppendIncreasing ==
  ASSUME NEW n \in Nat, NEW s \in Seq(1 .. n), NEW x \in Nat,
         Increasing(s), \A i \in 1 .. Len(s) : s[i] < x
  PROVE  Increasing(Append(s, x))
<1>1. s \in Seq(Nat)
  BY SeqMonotonic
<1>2. PICK u : u = Append(s, x)
  OBVIOUS
<1>3. PICK k \in Nat : k = Len(s)
  BY LenProperties
<1>4. Len(u) = k + 1 /\ (\A i \in 1 .. k : u[i] = s[i]) /\ u[k + 1] = x
  BY <1>1, <1>2, <1>3, AppendProperties
<1>5. ASSUME NEW i \in 1 .. k + 1, NEW j \in 1 .. k + 1, i < j
      PROVE  u[i] < u[j]
  <2>1. i \in 1 .. k
    BY <1>5, <1>3
  <2>2. CASE j = k + 1
    BY <2>1, <2>2, <1>3, <1>4
  <2>3. CASE j # k + 1
    <3>1. j \in 1 .. k
      BY <2>3, <1>3
    <3> QED  BY <2>1, <3>1, <1>3, <1>4, <1>5 DEF Increasing
  <2> QED  BY <2>2, <2>3
<1> QED  BY <1>2, <1>4, <1>5 DEF Increasing

LEMMA AppendBefore ==
  ASSUME NEW n \in Nat, NEW s \in Seq(1 .. n), NEW t \in Seq(1 .. n), NEW x \in Nat,
         Before(s, t)
  PROVE  /\ (\A i \in 1 .. Len(s) : s[i] < x) => Before(s, Append(t, x))
         /\ (\A j \in 1 .. Len(t) : x < t[j]) => Before(Append(s, x), t)
<1>1. s \in Seq(Nat) /\ t \in Seq(Nat)
  BY SeqMonotonic
<1>2. PICK k \in Nat : k = Len(s)
  BY LenProperties
<1>3. PICK m \in Nat : m = Len(t)
  BY LenProperties
<1>4. ASSUME \A i \in 1 .. Len(s) : s[i] < x
      PROVE  Before(s, Append(t, x))
  <2>1. PICK u : u = Append(t, x)
    OBVIOUS
  <2>2. Len(u) = m + 1 /\ (\A j \in 1 .. m : u[j] = t[j]) /\ u[m + 1] = x
    BY <1>1, <1>2, <1>3, <2>1, AppendProperties
  <2>3. ASSUME NEW i \in 1 .. k, NEW j \in 1 .. m + 1 PROVE s[i] < u[j]
    <3>1. CASE j = m + 1
      BY <3>1, <2>2, <1>2, <1>3, <1>4
    <3>2. CASE j # m + 1
      <4>1. j \in 1 .. m
        BY <3>2, BelowTop
      <4> QED  BY <4>1, <2>2, <1>2, <1>3 DEF Before
    <3> QED  BY <3>1, <3>2
  <2> QED  BY <2>1, <2>2, <2>3, <1>2, <1>3 DEF Before
<1>5. ASSUME \A j \in 1 .. Len(t) : x < t[j]
      PROVE  Before(Append(s, x), t)
  <2>1. PICK u : u = Append(s, x)
    OBVIOUS
  <2>2. Len(u) = k + 1 /\ (\A i \in 1 .. k : u[i] = s[i]) /\ u[k + 1] = x
    BY <1>1, <1>2, <1>3, <2>1, AppendProperties
  <2>3. ASSUME NEW i \in 1 .. k + 1, NEW j \in 1 .. m PROVE u[i] < t[j]
    <3>1. CASE i = k + 1
      BY <3>1, <2>2, <1>2, <1>3, <1>5
    <3>2. CASE i # k + 1
      <4>1. i \in 1 .. k
        BY <3>2, BelowTop
      <4> QED  BY <4>1, <2>2, <1>2, <1>3 DEF Before
    <3> QED  BY <3>1, <3>2
  <2> QED  BY <2>1, <2>2, <2>3, <1>2, <1>3 DEF Before
<1> QED  BY <1>4, <1>5

\* What is left when the oldest is taken out, and what is taken out.
LEMMA TakeOldest ==
  ASSUME NEW n \in Nat, NEW s \in Seq(1 .. n), s # <<>>, Increasing(s)
  PROVE  /\ Head(s) \in 1 .. n /\ Tail(s) \in Seq(1 .. n)
         /\ Len(Tail(s)) = Len(s) - 1
         /\ Increasing(Tail(s))
         /\ \A j \in 1 .. Len(Tail(s)) : Head(s) < Tail(s)[j]
         /\ \A r \in Seq(1 .. n) : Before(r, s) =>
              Before(r, Tail(s)) /\ \A i \in 1 .. Len(r) : r[i] < Head(s)
<1>1. PICK u, h : u = Tail(s) /\ h = Head(s)
  OBVIOUS
<1>2. PICK k \in Nat : k = Len(s)
  BY LenProperties
<1>3. k # 0 /\ h = s[1]
  BY <1>1, <1>2, EmptySeq
<1>4. /\ h \in 1 .. n /\ u \in Seq(1 .. n) /\ Len(u) = k - 1
      /\ \A i \in 1 .. Len(u) : u[i] = s[i + 1]
  BY <1>1, <1>2, HeadTailProperties
<1>5. Increasing(u) /\ \A j \in 1 .. Len(u) : h < u[j]
  BY <1>2, <1>3, <1>4 DEF Increasing
<1>6. ASSUME NEW r \in Seq(1 .. n), Before(r, s)
      PROVE  Before(r, u) /\ \A i \in 1 .. Len(r) : r[i] < h
  BY <1>2, <1>3, <1>4, <1>6 DEF Before
<1> QED  BY <1>1, <1>2, <1>4, <1>5, <1>6

-----------------------------------------------------------------------------
(* The inductive invariant.  WireInOrder does not say why the depth that a *)
(* task waits to send is newer than all that were sent, nor why no other   *)
(* depth can overtake it: the task holds the lock from the moment it takes *)
(* the depth out of the channel until its send ends.                       *)

SenderHolds == \A t \in Tasks : hand[t] # 0 => Calling(t, "supply") /\ Holds(t)

HandBetween(t) ==
  hand[t] # 0 => /\ \A i \in 1 .. Len(wire) : wire[i] < hand[t]
                 /\ \A j \in 1 .. Len(depth_channel) : hand[t] < depth_channel[j]

\* The depths sent, the one in hand and those in the channel have increasing
\* numbers, in this order.
Ordered ==
  /\ Increasing(wire) /\ Increasing(depth_channel) /\ Before(wire, depth_channel)
  /\ \A t \in Tasks : HandBetween(t)

Supplied == TypeOK /\ SenderHolds /\ FailedSuppliesLeaveNothing /\ Ordered

LEMMA InitSupplied == Init => Supplied
<1> USE StubAssumption
<1> SUFFICES ASSUME Init PROVE Supplied
  OBVIOUS
<1>1. \A S : <<>> \in Seq(S) /\ Len(<<>>) = 0
  BY EmptySeq
<1>2. TypeOK
  <2>1. script \in [Tasks -> Seq(Calls)] /\ senders \in BOOLEAN
    BY DEF Init
  <2>2. lock \in Seq(Tasks) /\ depth_channel \in Seq(1 .. made) /\ wire \in Seq(1 .. made)
    BY <1>1 DEF Init
  <2>3. Len(depth_channel) <= QUEUE
    BY <1>1 DEF Init
  <2>4. hand \in [Tasks -> 0 .. made] /\ made \in Nat /\ lone \in 0 .. made
    BY DEF Init
  <2>5. depth_sink \in {"none", "open", "closed"} /\ http_shutdown \in 0 .. 1
    BY DEF Init
  <2>6. told \in BOOLEAN
    BY DEF Init
  <2> QED  BY <2>1, <2>2, <2>3, <2>4, <2>5, <2>6 DEF TypeOK
<1>3. SenderHolds
  BY DEF Init, SenderHolds
<1>4. FailedSuppliesLeaveNothing
  BY <1>1 DEF Init, FailedSuppliesLeaveNothing
<1>5. Ordered
  BY <1>1 DEF Init, Ordered, Increasing, Before, HandBetween
<1> QED  BY <1>2, <1>3, <1>4, <1>5 DEF Supplied

LEMMA SameOrder ==
  ASSUME Ordered, UNCHANGED <<wire, depth_channel, hand>>
  PROVE  Ordered'
BY DEF Ordered, Increasing, Before, HandBetween

\* A method that returns leaves the lock to the next task, and a task with a
\* depth in hand is not another one.
LEMMA ReturnKeeps ==
  ASSUME TypeOK, SenderHolds, NEW t \in Tasks, Holds(t), script[t] # <<>>,
         Return(t), hand'[t] = 0, \A u \in Tasks : u # t => hand'[u] = hand[u]
  PROVE  /\ script' \in [Tasks -> Seq(Calls)] /\ lock' \in Seq(Tasks)
         /\ SenderHolds'
<1>1. Tail(script[t]) \in Seq(Calls) /\ Tail(lock) \in Seq(Tasks)
  <2>1. script[t] \in Seq(Calls) /\ lock \in Seq(Tasks) /\ lock # <<>>
    BY DEF TypeOK, Holds
  <2> QED  BY <2>1, HeadTailProperties
<1>2. script' \in [Tasks -> Seq(Calls)] /\ lock' \in Seq(Tasks)
  BY <1>1 DEF Return, TypeOK
<1>3. \A u \in Tasks : hand'[u] = 0
  BY DEF SenderHolds, Holds
<1> QED  BY <1>2, <1>3 DEF SenderHolds

\* What a step leaves alone that neither takes nor gives a depth.
LEMMA NoDepthMoves ==
  ASSUME Supplied, NEW t \in Tasks,
         UNCHANGED <<depth_channel, hand, made, lone, wire>>,
         \/ Holds(t) /\ script[t] # <<>> /\ Return(t) /\ ~Calling(t, "supply")
         \/ lock' = lock /\ script' = [script EXCEPT ![t] = Tail(@)]
            /\ script[t] # <<>> /\ ~Calling(t, "supply")
         \/ lock' = Append(lock, t) /\ script' = script,
         depth_sink' \in {"none", "open", "closed"}, http_shutdown' \in 0 .. 1,
         senders' \in BOOLEAN, told' \in BOOLEAN
  PROVE  Supplied'
<1>1. TypeOK /\ SenderHolds /\ FailedSuppliesLeaveNothing /\ Ordered
  BY DEF Supplied
<1>2. Ordered' /\ FailedSuppliesLeaveNothing'
  BY <1>1, SameOrder DEF FailedSuppliesLeaveNothing
<1>3. script' \in [Tasks -> Seq(Calls)] /\ lock' \in Seq(Tasks) /\ SenderHolds'
  <2>1. hand[t] # 0 => Calling(t, "supply")
    BY <1>1 DEF SenderHolds
  <2>2. CASE Holds(t) /\ script[t] # <<>> /\ Return(t) /\ ~Calling(t, "supply")
    BY <1>1, <2>1, <2>2, ReturnKeeps
  <2>3. CASE lock' = lock /\ script' = [script EXCEPT ![t] = Tail(@)]
             /\ script[t] # <<>> /\ ~Calling(t, "supply")
    <3>1. Tail(script[t]) \in Seq(Calls)
      <4>1. script[t] \in Seq(Calls)
        BY <1>1 DEF TypeOK
      <4> QED  BY <4>1, <2>3, HeadTailProperties
    <3>2. script' \in [Tasks -> Seq(Calls)] /\ lock' \in Seq(Tasks)
      BY <1>1, <2>3, <3>1 DEF TypeOK
    <3>3. ASSUME NEW u \in Tasks, hand'[u] # 0
          PROVE  Calling(u, "supply")' /\ Holds(u)'
      <4>1. hand[u] # 0 /\ Calling(u, "supply") /\ Holds(u) /\ u # t
        BY <1>1, <2>1, <2>3, <3>3 DEF SenderHolds
      <4>2. script'[u] = script[u]
        BY <1>1, <2>3, <4>1 DEF TypeOK
      <4> QED  BY <2>3, <4>1, <4>2 DEF Calling, Holds
    <3> QED  BY <3>2, <3>3 DEF SenderHolds
  <2>4. CASE lock' = Append(lock, t) /\ script' = script
    <3>1. lock' \in Seq(Tasks) /\ (lock # <<>> => lock' # <<>> /\ Head(lock') = Head(lock))
      <4>1. lock \in Seq(Tasks)
        BY <1>1 DEF TypeOK
      <4>2. \A q \in Seq(Tasks) : q # <<>> => Head(q) = q[1] /\ Len(q) >= 1
        OBVIOUS
      <4> QED  BY <4>1, <4>2, <2>4, AppendProperties
    <3> QED  BY <1>1, <2>4, <3>1 DEF SenderHolds, Calling, Holds, TypeOK
  <2> QED  BY <2>2, <2>3, <2>4
<1>4. TypeOK'
  BY <1>1, <1>3 DEF TypeOK
<1> QED  BY <1>2, <1>3, <1>4 DEF Supplied

LEMMA OtherCallsSupplied ==
  ASSUME Supplied, NEW t \in Tasks,
         Ask(t) \/ RunWebsocket(t) \/ RunHttpServer(t) \/ Tell(t) \/ DropShutdown(t)
  PROVE  Supplied'
<1>1. TypeOK
  BY DEF Supplied
<1>2. CASE Ask(t)
  BY <1>1, <1>2, NoDepthMoves DEF Ask, TypeOK
<1>3. CASE RunWebsocket(t)
  BY <1>1, <1>3, NoDepthMoves DEF RunWebsocket, Calling, TypeOK
<1>4. CASE RunHttpServer(t)
  BY <1>1, <1>4, NoDepthMoves DEF RunHttpServer, Calling, TypeOK
<1>5. CASE Tell(t)
  <2>1. /\ lock' = lock /\ script' = [script EXCEPT ![t] = Tail(@)]
        /\ script[t] # <<>> /\ ~Calling(t, "supply")
    BY <1>5 DEF Tell, Calling
  <2>2. /\ UNCHANGED <<depth_channel, hand, made, lone, wire, depth_sink, senders>>
        /\ http_shutdown' \in 0 .. 1 /\ told' \in BOOLEAN
    BY <1>5 DEF Tell
  <2>3. depth_sink' \in {"none", "open", "closed"} /\ senders' \in BOOLEAN
    BY <1>1, <2>2 DEF TypeOK
  <2> QED  BY <2>1, <2>2, <2>3, NoDepthMoves
<1>6. CASE DropShutdown(t)
  BY <1>1, <1>6, NoDepthMoves DEF DropShutdown, Calling, TypeOK
<1> QED  BY <1>2, <1>3, <1>4, <1>5, <1>6

-----------------------------------------------------------------------------
(* The calls that move depths.                                             *)

\* A new depth does not change what the older ones are.
LEMMA OneMoreMade ==
  ASSUME TypeOK, made' = made + 1
  PROVE  /\ depth_channel \in Seq(1 .. made') /\ wire \in Seq(1 .. made')
         /\ hand \in [Tasks -> 0 .. made'] /\ lone \in 0 .. made' /\ lone + 1 \in 0 .. made'
         /\ made' \in Nat /\ made' \in 1 .. made'
         /\ \A i \in 1 .. Len(depth_channel) : depth_channel[i] < made'
         /\ \A i \in 1 .. Len(wire) : wire[i] < made'
<1>1. made \in Nat /\ 1 .. made \subseteq 1 .. made'
  BY DEF TypeOK
<1>2. depth_channel \in Seq(1 .. made') /\ wire \in Seq(1 .. made')
  BY <1>1, SeqMonotonic DEF TypeOK
<1>3. \A s \in Seq(1 .. made) : \A i \in 1 .. Len(s) : s[i] \in 1 .. made
  BY ElementOfSeq
<1> QED  BY <1>1, <1>2, <1>3 DEF TypeOK

\* The depth that is made goes behind all others.
LEMMA NewestInOrder ==
  ASSUME Supplied, made' = made + 1,
         NEW depths, depths = Append(depth_channel, made + 1)
  PROVE  /\ depths \in Seq(1 .. made') /\ depths # <<>>
         /\ Len(depths) = Len(depth_channel) + 1
         /\ Increasing(depths) /\ Before(wire, depths)
<1>1. TypeOK /\ Increasing(depth_channel) /\ Before(wire, depth_channel)
  BY DEF Supplied, Ordered
<1>2. PICK n : n = made'
  OBVIOUS
<1>3. /\ n \in Nat /\ n \in 1 .. n /\ depths = Append(depth_channel, n)
      /\ depth_channel \in Seq(1 .. n) /\ wire \in Seq(1 .. n)
      /\ \A i \in 1 .. Len(depth_channel) : depth_channel[i] < n
      /\ \A i \in 1 .. Len(wire) : wire[i] < n
  BY <1>1, <1>2, OneMoreMade
<1>4. depths \in Seq(1 .. n) /\ depths # <<>> /\ Len(depths) = Len(depth_channel) + 1
  BY <1>3, AppendProperties
<1>5. Increasing(depths)
  BY <1>1, <1>3, AppendIncreasing
<1>6. Before(wire, depths)
  BY <1>1, <1>3, AppendBefore
<1> QED  BY <1>2, <1>4, <1>5, <1>6

LEMMA SupplyDepthsSupplied ==
  ASSUME Supplied, NEW t \in Tasks, SupplyDepths(t)
  PROVE  Supplied'
<1>1. TypeOK /\ SenderHolds /\ FailedSuppliesLeaveNothing /\ Ordered
  BY DEF Supplied
<1>2. /\ Calling(t, "supply") /\ Holds(t) /\ hand[t] = 0 /\ script[t] # <<>>
      /\ made' = made + 1
      /\ UNCHANGED <<depth_sink, http_shutdown, senders, lone, told, wire>>
  BY DEF SupplyDepths, Calling
<1>3. \A u \in Tasks : hand[u] = 0
  BY <1>1, <1>2 DEF SenderHolds, Holds
<1>4. CASE ~Room /\ Return(t) /\ UNCHANGED <<depth_channel, hand>>
  <2>1. script' \in [Tasks -> Seq(Calls)] /\ lock' \in Seq(Tasks) /\ SenderHolds'
    BY <1>1, <1>2, <1>4, ReturnKeeps
  <2>2. TypeOK'
    BY <1>1, <1>2, <1>4, <2>1, OneMoreMade DEF TypeOK
  <2>3. Ordered' /\ FailedSuppliesLeaveNothing'
    BY <1>1, <1>2, <1>4, SameOrder DEF FailedSuppliesLeaveNothing
  <2> QED  BY <2>1, <2>2, <2>3 DEF Supplied
<1>5. CASE Room /\ Fanout(t, Append(depth_channel, made + 1))
  <2>1. PICK depths : depths = Append(depth_channel, made + 1)
    OBVIOUS
  <2>2. PICK n, x : n = made' /\ x = Head(depths)
    OBVIOUS
  <2>3. /\ n \in Nat /\ depths \in Seq(1 .. n) /\ depths # <<>>
        /\ Len(depths) = Len(depth_channel) + 1
        /\ Increasing(depths) /\ Before(wire, depths)
        /\ depth_channel \in Seq(1 .. n) /\ wire \in Seq(1 .. n)
        /\ hand \in [Tasks -> 0 .. n] /\ lone \in 0 .. n
    BY <1>1, <1>2, <2>1, <2>2, NewestInOrder, OneMoreMade
  <2>4. /\ x \in 1 .. n /\ depth_channel' = Tail(depths)
        /\ depth_channel' \in Seq(1 .. n)
        /\ Len(depth_channel') = Len(depths) - 1
        /\ Increasing(depth_channel') /\ Before(wire, depth_channel')
        /\ \A j \in 1 .. Len(depth_channel') : x < depth_channel'[j]
        /\ \A i \in 1 .. Len(wire) : wire[i] < x
    BY <1>5, <2>1, <2>2, <2>3, TakeOldest DEF Fanout
  <2>5. Len(depth_channel') = Len(depth_channel)
    <3>1. PICK k \in Nat : k = Len(depth_channel)
      BY <2>3, LenProperties
    <3>2. Len(depth_channel') = (k + 1) - 1
      BY <2>3, <2>4, <3>1
    <3> QED  BY <3>1, <3>2
  <2>6. FailedSuppliesLeaveNothing'
    BY <1>1, <1>2, <2>5 DEF FailedSuppliesLeaveNothing
  <2>7. /\ script' \in [Tasks -> Seq(Calls)] /\ lock' \in Seq(Tasks)
        /\ hand' \in [Tasks -> 0 .. n] /\ SenderHolds'
        /\ \A u \in Tasks : hand'[u] \in {0, x}
    <3>1. CASE hand' = hand /\ Return(t)
      BY <1>1, <1>2, <1>3, <2>3, <3>1, ReturnKeeps
    <3>2. CASE hand' = [hand EXCEPT ![t] = x] /\ UNCHANGED <<lock, script>>
      <4>1. hand' \in [Tasks -> 0 .. n] /\ \A u \in Tasks : hand'[u] = IF u = t THEN x ELSE 0
        BY <1>3, <2>3, <2>4, <3>2
      <4>2. SenderHolds'
        BY <1>2, <3>2, <4>1 DEF SenderHolds, Calling, Holds
      <4> QED  BY <1>1, <3>2, <4>1, <4>2 DEF TypeOK
    <3> QED  BY <1>5, <2>1, <2>2, <3>1, <3>2 DEF Fanout
  <2>8. TypeOK'
    BY <1>1, <1>2, <2>2, <2>3, <2>4, <2>5, <2>7 DEF TypeOK
  <2>9. Ordered'
    BY <1>1, <1>2, <2>4, <2>7 DEF Ordered, HandBetween, Increasing, Before
  <2> QED  BY <2>6, <2>7, <2>8, <2>9 DEF Supplied
<1> QED  BY <1>4, <1>5 DEF SupplyDepths

LEMMA SentSupplied ==
  ASSUME Supplied, NEW t \in Tasks, Sent(t)
  PROVE  Supplied'
<1>1. TypeOK /\ SenderHolds /\ FailedSuppliesLeaveNothing /\ Ordered
  BY DEF Supplied
<1>2. /\ hand[t] # 0 /\ Calling(t, "supply") /\ Holds(t) /\ script[t] # <<>>
      /\ hand' = [hand EXCEPT ![t] = 0] /\ Return(t)
      /\ UNCHANGED <<depth_channel, http_shutdown, senders, made, lone, told>>
  BY <1>1 DEF Sent, SenderHolds, Calling
<1>3. hand' \in [Tasks -> 0 .. made] /\ \A u \in Tasks : hand'[u] = 0
  BY <1>1, <1>2 DEF SenderHolds, Holds, TypeOK
<1>4. script' \in [Tasks -> Seq(Calls)] /\ lock' \in Seq(Tasks) /\ SenderHolds'
  BY <1>1, <1>2, <1>3, ReturnKeeps DEF SenderHolds, Holds
<1>5. PICK x, n : x = hand[t] /\ n = made
  OBVIOUS
<1>6. /\ x \in 1 .. n /\ n \in Nat /\ wire \in Seq(1 .. n) /\ depth_channel \in Seq(1 .. n)
      /\ Increasing(wire) /\ Increasing(depth_channel) /\ Before(wire, depth_channel)
      /\ \A i \in 1 .. Len(wire) : wire[i] < x
      /\ \A j \in 1 .. Len(depth_channel) : x < depth_channel[j]
  BY <1>1, <1>2, <1>5 DEF TypeOK, Ordered, HandBetween
<1>7. PICK w : w = wire'
  OBVIOUS
<1>8. w \in Seq(1 .. n) /\ Increasing(w) /\ Before(w, depth_channel)
  <2>1. CASE w = wire
    BY <1>6, <2>1
  <2>2. CASE w = Append(wire, x)
    BY <1>6, <2>2, AppendIncreasing, AppendBefore, AppendProperties
  <2> QED  BY <1>5, <1>7, <2>1, <2>2 DEF Sent
<1>9. TypeOK'
  BY <1>1, <1>2, <1>3, <1>4, <1>5, <1>7, <1>8 DEF Sent, TypeOK
<1>10. Ordered' /\ FailedSuppliesLeaveNothing'
  BY <1>1, <1>2, <1>3, <1>6, <1>7, <1>8 DEF Ordered, HandBetween, FailedSuppliesLeaveNothing,
     Increasing, Before
<1> QED  BY <1>4, <1>9, <1>10 DEF Supplied

LEMMA SupplyDepthInternalWsSupplied ==
  ASSUME Supplied, NEW t \in Tasks, SupplyDepthInternalWs(t)
  PROVE  Supplied'
<1>1. TypeOK /\ SenderHolds /\ FailedSuppliesLeaveNothing /\ Ordered
  BY DEF Supplied
<1>2. /\ Calling(t, "queue") /\ Holds(t) /\ script[t] # <<>> /\ made' = made + 1 /\ Return(t)
      /\ UNCHANGED <<hand, depth_sink, http_shutdown, senders, told, wire>>
  BY DEF SupplyDepthInternalWs, Calling
<1>3. \A u \in Tasks : hand[u] = 0
  BY <1>1, <1>2 DEF SenderHolds, Holds, Calling
<1>4. script' \in [Tasks -> Seq(Calls)] /\ lock' \in Seq(Tasks) /\ SenderHolds'
  BY <1>1, <1>2, <1>3, ReturnKeeps
<1>5. CASE ~Room /\ UNCHANGED <<depth_channel, lone>>
  <2>1. TypeOK'
    BY <1>1, <1>2, <1>4, <1>5, OneMoreMade DEF TypeOK
  <2>2. Ordered' /\ FailedSuppliesLeaveNothing'
    BY <1>1, <1>2, <1>5, SameOrder DEF FailedSuppliesLeaveNothing
  <2> QED  BY <1>4, <2>1, <2>2 DEF Supplied
<1>6. CASE Room /\ depth_channel' = Append(depth_channel, made + 1) /\ lone' = lone + 1
  <2>1. /\ depth_channel' \in Seq(1 .. made') /\ Len(depth_channel') = Len(depth_channel) + 1
        /\ Increasing(depth_channel') /\ Before(wire, depth_channel')
    BY <1>2, <1>6, NewestInOrder
  <2>2. Len(depth_channel') <= QUEUE
    <3>1. Len(depth_channel) \in Nat /\ QUEUE \in Nat
      BY <1>1, StubAssumption, LenProperties DEF TypeOK
    <3> QED  BY <1>6, <2>1, <3>1 DEF Room
  <2>3. TypeOK'
    BY <1>1, <1>2, <1>4, <1>6, <2>1, <2>2, OneMoreMade DEF TypeOK
  <2>4. FailedSuppliesLeaveNothing'
    BY <1>1, <1>6, <2>1 DEF FailedSuppliesLeaveNothing
  <2>5. Ordered'
    BY <1>1, <1>2, <1>3, <2>1 DEF Ordered, HandBetween, Increasing, Before
  <2> QED  BY <1>4, <2>3, <2>4, <2>5 DEF Supplied
<1> QED  BY <1>5, <1>6 DEF SupplyDepthInternalWs

LEMMA ForceDisconnectWsSupplied ==
  ASSUME Supplied, NEW t \in Tasks, ForceDisconnectWs(t)
  PROVE  Supplied'
<1>1. TypeOK /\ SenderHolds /\ FailedSuppliesLeaveNothing /\ Ordered
  BY DEF Supplied
<1>2. CASE depth_sink # "none" /\ depth_sink' = "closed" /\ Return(t)
  BY <1>1, <1>2, NoDepthMoves DEF ForceDisconnectWs, Calling, TypeOK
<1>3. CASE depth_sink' = depth_sink /\ lock' = Tail(lock)
           /\ script' = [script EXCEPT ![t] = <<>>]
  <2>1. UNCHANGED <<depth_channel, hand, http_shutdown, senders, made, lone, told, wire>>
    BY DEF ForceDisconnectWs
  <2>2. \A u \in Tasks : hand'[u] = 0
    BY <1>1, <2>1 DEF ForceDisconnectWs, SenderHolds, Holds, Calling
  <2>3. script' \in [Tasks -> Seq(Calls)] /\ lock' \in Seq(Tasks)
    <3>1. lock \in Seq(Tasks) /\ lock # <<>>
      BY <1>1 DEF ForceDisconnectWs, Holds, TypeOK
    <3>2. lock' \in Seq(Tasks)
      BY <3>1, <1>3, HeadTailProperties
    <3>3. <<>> \in Seq(Calls)
      BY EmptySeq
    <3> QED  BY <1>1, <1>3, <3>2, <3>3 DEF TypeOK
  <2>4. TypeOK'
    BY <1>1, <1>3, <2>1, <2>3 DEF TypeOK
  <2>5. Ordered' /\ FailedSuppliesLeaveNothing'
    BY <1>1, <2>1, SameOrder DEF FailedSuppliesLeaveNothing
  <2> QED  BY <2>2, <2>4, <2>5 DEF Supplied, SenderHolds
<1> QED  BY <1>2, <1>3 DEF ForceDisconnectWs

LEMMA NextSupplied == Supplied /\ [Next]_vars => Supplied'
<1> SUFFICES ASSUME Supplied, [Next]_vars PROVE Supplied'
  OBVIOUS
<1>1. CASE UNCHANGED vars
  <2>1. TypeOK' /\ FailedSuppliesLeaveNothing'
    BY <1>1 DEF Supplied, vars, TypeOK, FailedSuppliesLeaveNothing
  <2>2. SenderHolds'
    BY <1>1 DEF Supplied, vars, SenderHolds, Calling, Holds
  <2>3. Ordered'
    BY <1>1, SameOrder DEF Supplied, vars
  <2> QED  BY <2>1, <2>2, <2>3 DEF Supplied
<1>2. ASSUME NEW t \in Tasks, Step(t) \/ RunWebsocket(t) PROVE Supplied'
  BY <1>2, OtherCallsSupplied, SupplyDepthsSupplied, SentSupplied,
     SupplyDepthInternalWsSupplied, ForceDisconnectWsSupplied DEF Step
<1> QED  BY <1>1, <1>2 DEF Next

LEMMA SuppliedHolds == Spec => []Supplied
BY InitSupplied, NextSupplied, PTL DEF Spec

-----------------------------------------------------------------------------

\* Every variable of the stub keeps its type.
THEOREM StubTypeCorrect == Spec => []TypeOK
<1>1. Supplied => TypeOK
  BY DEF Supplied
<1> QED  BY <1>1, SuppliedHolds, PTL

\* supply_depths takes out of the channel what it put in, whether there is no
\* client, a client that reads or one that was lost: only what
\* supply_depth_internal_ws queued stays (exchange-stubs/src/lib.rs).
THEOREM SuppliesLeaveNothing == Spec => []FailedSuppliesLeaveNothing
<1>1. Supplied => FailedSuppliesLeaveNothing
  BY DEF Supplied
<1> QED  BY <1>1, SuppliedHolds, PTL

\* The client gets the depths in the order in which they were made, none twice,
\* however many tasks supply them, as each keeps the lock until its depth is
\* sent.
THEOREM DepthsArriveInOrder == Spec => []WireInOrder
<1>1. Supplied => WireInOrder
  BY LenProperties DEF Supplied, Ordered, Increasing, WireInOrder, TypeOK
<1> QED  BY <1>1, SuppliedHolds, PTL
=============================================================================
