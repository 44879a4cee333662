---------------------------- MODULE QuoterProofs ----------------------------
(* Theorems about QuoterServer, for every set of clients and every size of *)
(* the ring, of the queues and of what a client asks for.                  *)
EXTENDS QuoterServer, SequenceTheorems, TLAPS

-----------------------------------------------------------------------------
(* The inductive invariant.  NoGap does not say why a quote that the       *)
(* forwarder is about to queue continues what is queued, nor that a client *)
(* that is cut off has really fallen a ring behind: the position of the    *)
(* forwarder does.                                                         *)

\* Where the forwarder of c stands between the subscription and the ring.
Position(c) ==
  /\ start[c] <= next[c] /\ next[c] <= sent + 1
  /\ forwarder[c] = "sending" => start[c] < next[c]
  /\ client[c] = "none" => forwarder[c] = "none" /\ next[c] = start[c]
  /\ client[c] = "open" => Len(got[c]) < NUM
  /\ client[c] = "open" /\ forwarder[c] = "done" => Lagged(c)
  /\ client[c] = "ended" => forwarder[c] = "done"

\* The run of quotes received and then queued, entry by entry.
QuoteRun(c) ==
  /\ \A i \in 1 .. Len(got[c]) : got[c][i] = start[c] + i - 1
  /\ \A i \in 1 .. Len(queue[c]) : queue[c][i] = start[c] + Len(got[c]) + i - 1
  /\ client[c] # "gone" => Len(got[c]) + Len(queue[c]) = Handed(c)

Served == TypeOK /\ \A c \in Clients : Position(c) /\ QuoteRun(c)

\* A step of one client, or of the publisher, leaves the others served.
LEMMA OthersServed ==
  ASSUME TypeOK, NEW d \in Clients, Position(d), QuoteRun(d),
         sent' \in Nat, sent' >= sent,
         client'[d] = client[d], forwarder'[d] = forwarder[d], start'[d] = start[d],
         next'[d] = next[d], queue'[d] = queue[d], got'[d] = got[d]
  PROVE  Position(d)' /\ QuoteRun(d)'
<1> USE QuoterAssumption
<1>1. Position(d)'
  <2>1. start[d] \in Nat /\ next[d] \in Nat /\ sent \in Nat /\ RING \in Nat
    BY DEF TypeOK
  <2>2. Lagged(d) => Lagged(d)'
    BY <2>1 DEF Lagged
  <2> QED  BY <2>1, <2>2 DEF Position
<1>2. QuoteRun(d)'
  BY DEF QuoteRun, Handed, TypeOK
<1> QED  BY <1>1, <1>2

LEMMA InitServed == Init => Served
<1> USE QuoterAssumption
<1> SUFFICES ASSUME Init PROVE Served
  OBVIOUS
<1>1. <<>> \in Seq(1 .. MaxQuotes) /\ Len(<<>>) = 0
  OBVIOUS
<1>2. TypeOK
  BY <1>1 DEF Init, TypeOK
<1>3. ASSUME NEW c \in Clients PROVE Position(c) /\ QuoteRun(c)
  BY <1>1 DEF Init, Position, QuoteRun, Handed
<1> QED  BY <1>2, <1>3 DEF Served

LEMMA SubscribeServed ==
  ASSUME Served, NEW c \in Clients, Subscribe(c)
  PROVE  TypeOK' /\ Position(c)' /\ QuoteRun(c)'
<1> USE QuoterAssumption
<1>1. TypeOK /\ Position(c) /\ QuoteRun(c)
  BY DEF Served
<1>2. /\ client' = [client EXCEPT ![c] = "open"]
      /\ forwarder' = [forwarder EXCEPT ![c] = "waiting"]
      /\ start' = [start EXCEPT ![c] = sent + 1]
      /\ next' = [next EXCEPT ![c] = sent + 1]
      /\ UNCHANGED <<sent, queue, got>>
  BY DEF Subscribe, TypeOK
<1>3. Len(got[c]) = 0 /\ Len(queue[c]) = 0
  BY <1>1 DEF Subscribe, Position, QuoteRun, Handed, TypeOK
<1>4. TypeOK'
  BY <1>1, <1>2 DEF TypeOK
<1>5. Position(c)'
  BY <1>1, <1>2, <1>3 DEF Position, TypeOK
<1>6. QuoteRun(c)'
  BY <1>1, <1>2, <1>3 DEF QuoteRun, Handed, TypeOK
<1> QED  BY <1>4, <1>5, <1>6

LEMMA ForwardServed ==
  ASSUME Served, NEW c \in Clients, Forward(c)
  PROVE  TypeOK' /\ Position(c)' /\ QuoteRun(c)'
<1> USE QuoterAssumption
<1>1. TypeOK /\ Position(c) /\ QuoteRun(c)
  BY DEF Served
<1>2. CASE /\ forwarder' = [forwarder EXCEPT ![c] = "sending"]
           /\ next' = [next EXCEPT ![c] = @ + 1]
  <2>1. TypeOK'
    BY <1>1, <1>2 DEF Forward, TypeOK
  <2>2. Position(c)'
    BY <1>1, <1>2 DEF Forward, Position, TypeOK
  <2>3. QuoteRun(c)'
    BY <1>1, <1>2 DEF Forward, QuoteRun, Handed, TypeOK
  <2> QED  BY <2>1, <2>2, <2>3
<1>3. CASE Lagged(c) /\ forwarder' = [forwarder EXCEPT ![c] = "done"] /\ next' = next
  <2>1. TypeOK'
    BY <1>1, <1>3 DEF Forward, TypeOK
  <2>2. Position(c)'
    BY <1>1, <1>3 DEF Forward, Position, Lagged, TypeOK
  <2>3. QuoteRun(c)'
    BY <1>1, <1>3 DEF Forward, QuoteRun, Handed, TypeOK
  <2> QED  BY <2>1, <2>2, <2>3
<1> QED  BY <1>2, <1>3 DEF Forward, TypeOK

LEMMA EnqueueServed ==
  ASSUME Served, NEW c \in Clients, Enqueue(c)
  PROVE  TypeOK' /\ Position(c)' /\ QuoteRun(c)'
<1> USE QuoterAssumption
<1>1. TypeOK /\ Position(c) /\ QuoteRun(c)
  BY DEF Served
<1>2. CASE /\ client[c] = "open" /\ Len(queue[c]) < QUEUE
           /\ queue' = [queue EXCEPT ![c] = Append(@, next[c] - 1)]
           /\ forwarder' = [forwarder EXCEPT ![c] = "waiting"]
  <2>1. next[c] - 1 \in 1 .. MaxQuotes
    BY <1>1 DEF Enqueue, Position, TypeOK
  <2>2. /\ queue'[c] = Append(queue[c], next[c] - 1)
        /\ queue'[c] \in Seq(1 .. MaxQuotes)
        /\ Len(queue'[c]) = Len(queue[c]) + 1
        /\ \A i \in 1 .. Len(queue[c]) : queue'[c][i] = queue[c][i]
        /\ queue'[c][Len(queue[c]) + 1] = next[c] - 1
    BY <1>1, <1>2, <2>1, AppendProperties DEF TypeOK
  <2>3. next[c] - 1 = start[c] + Len(got[c]) + Len(queue[c])
    <3>1. Len(got[c]) + Len(queue[c]) = Handed(c)
      BY <1>1, <1>2 DEF QuoteRun
    <3>2. Len(got[c]) + Len(queue[c]) = next[c] - start[c] - 1
      BY <3>1 DEF Enqueue, Handed
    <3>3. next[c] \in Int /\ start[c] \in Int /\ Len(got[c]) \in Int /\ Len(queue[c]) \in Int
      BY <1>1, LenProperties DEF TypeOK
    <3>4. PICK a \in Int, b \in Int : a = Len(got[c]) /\ b = Len(queue[c])
      BY <3>3
    <3>5. a + b = next[c] - start[c] - 1
      BY <3>2, <3>4
    <3>6. next[c] - 1 = start[c] + a + b
      BY <3>3, <3>5
    <3> QED  BY <3>4, <3>6
  <2>4. TypeOK'
    BY <1>1, <1>2, <2>2 DEF Enqueue, TypeOK
  <2>5. Position(c)'
    BY <1>1, <1>2 DEF Enqueue, Position, TypeOK
  <2>6. QuoteRun(c)'
    <3>1. ASSUME NEW i \in 1 .. Len(queue'[c])
          PROVE  queue'[c][i] = start[c] + Len(got[c]) + i - 1
      <4>1. CASE i = Len(queue[c]) + 1
        BY <4>1, <2>2, <2>3, <1>1 DEF TypeOK
      <4>2. CASE i # Len(queue[c]) + 1
        <5>1. i \in 1 .. Len(queue[c])
          BY <4>2, <2>2, <1>1 DEF TypeOK
        <5> QED  BY <5>1, <2>2, <1>1 DEF QuoteRun, TypeOK
      <4> QED  BY <4>1, <4>2
    <3>2. Len(got[c]) + Len(queue'[c]) = Handed(c)'
      <4>1. Len(got[c]) + Len(queue[c]) = Handed(c)
        BY <1>1, <1>2 DEF QuoteRun
      <4>2. forwarder[c] = "sending" /\ forwarder'[c] = "waiting"
        BY <1>1, <1>2 DEF Enqueue, TypeOK
      <4>3. Handed(c)' = Handed(c) + 1
        BY <1>1, <4>2 DEF Enqueue, Handed, TypeOK
      <4> QED  BY <1>1, <2>2, <4>1, <4>3 DEF Handed, TypeOK
    <3> QED  BY <1>1, <3>1, <3>2 DEF Enqueue, QuoteRun, TypeOK
  <2> QED  BY <2>4, <2>5, <2>6
<1>3. CASE /\ client[c] # "open"
           /\ forwarder' = [forwarder EXCEPT ![c] = "done"]
           /\ queue' = queue
  <2>0. client[c] # "none"
    BY <1>1 DEF Enqueue, Position, TypeOK
  <2>1. TypeOK'
    BY <1>1, <1>3 DEF Enqueue, TypeOK
  <2>2. Position(c)'
    BY <1>1, <1>3, <2>0 DEF Enqueue, Position, TypeOK
  <2>3. QuoteRun(c)'
    <3>1. client[c] = "gone"
      BY <1>1, <1>3, <2>0 DEF Enqueue, Position, TypeOK
    <3> QED  BY <1>1, <1>3, <3>1 DEF Enqueue, QuoteRun
  <2> QED  BY <2>1, <2>2, <2>3
<1> QED  BY <1>2, <1>3 DEF Enqueue, TypeOK

LEMMA ReceiveServed ==
  ASSUME Served, NEW c \in Clients, Receive(c)
  PROVE  TypeOK' /\ Position(c)' /\ QuoteRun(c)'
<1> USE QuoterAssumption
<1>1. TypeOK /\ Position(c) /\ QuoteRun(c)
  BY DEF Served
<1>2. /\ queue[c] \in Seq(1 .. MaxQuotes) /\ queue[c] # <<>>
      /\ got[c] \in Seq(1 .. MaxQuotes)
      /\ Len(got[c]) \in Nat /\ Len(queue[c]) \in Nat \ {0}
  BY <1>1, EmptySeq, LenProperties DEF Receive, TypeOK
<1>3. /\ Head(queue[c]) \in 1 .. MaxQuotes /\ Head(queue[c]) = queue[c][1]
      /\ Tail(queue[c]) \in Seq(1 .. MaxQuotes)
      /\ Len(Tail(queue[c])) = Len(queue[c]) - 1
      /\ \A i \in 1 .. Len(Tail(queue[c])) : Tail(queue[c])[i] = queue[c][i + 1]
  <2>1. \A s \in Seq(1 .. MaxQuotes) : s # <<>> => Head(s) = s[1]
    OBVIOUS
  <2> QED  BY <1>2, <2>1, HeadTailProperties
<1>4. /\ got'[c] = Append(got[c], Head(queue[c]))
      /\ got'[c] \in Seq(1 .. MaxQuotes)
      /\ Len(got'[c]) = Len(got[c]) + 1
      /\ \A i \in 1 .. Len(got[c]) : got'[c][i] = got[c][i]
      /\ got'[c][Len(got[c]) + 1] = Head(queue[c])
  BY <1>1, <1>2, <1>3, AppendProperties DEF Receive, TypeOK
<1>5. Head(queue[c]) = start[c] + Len(got[c])
  BY <1>1, <1>2, <1>3 DEF QuoteRun, TypeOK
<1>6. \A i \in 1 .. Len(got'[c]) : got'[c][i] = start[c] + i - 1
  <2> SUFFICES ASSUME NEW i \in 1 .. Len(got[c]) + 1 PROVE got'[c][i] = start[c] + i - 1
    BY <1>4
  <2>1. CASE i = Len(got[c]) + 1
    BY <2>1, <1>1, <1>2, <1>4, <1>5 DEF TypeOK
  <2>2. CASE i # Len(got[c]) + 1
    <3>1. i \in 1 .. Len(got[c])
      BY <2>2, <1>1, <1>2 DEF TypeOK
    <3> QED  BY <3>1, <1>1, <1>4 DEF QuoteRun
  <2> QED  BY <2>1, <2>2
<1>7. UNCHANGED <<sent, forwarder, start, next>>
  BY DEF Receive
<1>8. CASE Len(got[c]) + 1 = NUM /\ Gone(c)
  <2>1. queue'[c] = <<>> /\ client'[c] = "gone" /\ Len(<<>>) = 0
    BY <1>1, <1>8 DEF Gone, TypeOK
  <2>2. TypeOK'
    <3>1. <<>> \in Seq(1 .. MaxQuotes) /\ Len(<<>>) = 0
      OBVIOUS
    <3> QED  BY <1>1, <1>2, <1>4, <1>7, <1>8, <3>1 DEF Gone, Receive, TypeOK
  <2>3. Position(c)'
    BY <1>1, <1>7, <2>1 DEF Position
  <2>4. QuoteRun(c)'
    BY <1>6, <1>7, <2>1 DEF QuoteRun
  <2> QED  BY <2>2, <2>3, <2>4
<1>9. CASE /\ Len(got[c]) + 1 # NUM
           /\ queue' = [queue EXCEPT ![c] = Tail(@)] /\ client' = client
  <2>1. queue'[c] = Tail(queue[c])
    BY <1>1, <1>9 DEF TypeOK
  <2>2. Len(got[c]) + 1 < NUM
    BY <1>1, <1>2, <1>9 DEF Receive, Position
  <2>3. TypeOK'
    <3>1. queue' \in [Clients -> Seq(1 .. MaxQuotes)] /\ got' \in [Clients -> Seq(1 .. MaxQuotes)]
      BY <1>1, <1>3, <1>4, <1>9 DEF Receive, TypeOK
    <3>2. Len(queue'[c]) <= QUEUE /\ Len(got'[c]) <= NUM
      BY <1>1, <1>2, <1>3, <1>4, <2>1, <2>2 DEF TypeOK
    <3>3. \A d \in Clients \ {c} : queue'[d] = queue[d] /\ got'[d] = got[d]
      BY <1>1, <1>9 DEF Receive, TypeOK
    <3> QED  BY <1>1, <1>7, <1>9, <3>1, <3>2, <3>3 DEF TypeOK
  <2>4. Position(c)'
    BY <1>1, <1>4, <1>7, <1>9, <2>2 DEF Position, Lagged
  <2>5. QuoteRun(c)'
    <3>1. ASSUME NEW i \in 1 .. Len(queue'[c])
          PROVE  queue'[c][i] = start[c] + Len(got'[c]) + i - 1
      <4>1. i \in 1 .. Len(queue[c]) - 1 /\ i + 1 \in 1 .. Len(queue[c])
        BY <1>2, <1>3, <2>1
      <4>2. queue'[c][i] = queue[c][i + 1]
        BY <1>3, <2>1, <4>1
      <4>3. queue[c][i + 1] = start[c] + Len(got[c]) + (i + 1) - 1
        BY <1>1, <4>1 DEF QuoteRun
      <4> QED  BY <1>1, <1>2, <1>4, <4>1, <4>2, <4>3 DEF TypeOK
    <3>2. Len(got'[c]) + Len(queue'[c]) = Handed(c)'
      <4>1. Len(got[c]) + Len(queue[c]) = Handed(c) /\ Handed(c)' = Handed(c)
        BY <1>1, <1>7 DEF Receive, QuoteRun, Handed
      <4>2. Len(got'[c]) + Len(queue'[c]) = Len(got[c]) + Len(queue[c])
        BY <1>1, <1>2, <1>3, <1>4, <2>1, <2>3 DEF TypeOK
      <4> QED  BY <4>1, <4>2
    <3> QED  BY <1>6, <1>7, <3>1, <3>2 DEF QuoteRun
  <2> QED  BY <2>3, <2>4, <2>5
<1> QED  BY <1>8, <1>9 DEF Receive

LEMMA LeaveServed ==
  ASSUME Served, NEW c \in Clients, Disconnect(c) \/ StreamEnds(c)
  PROVE  TypeOK' /\ Position(c)' /\ QuoteRun(c)'
<1> USE QuoterAssumption
<1>1. TypeOK /\ Position(c) /\ QuoteRun(c)
  BY DEF Served
<1>2. <<>> \in Seq(1 .. MaxQuotes) /\ Len(<<>>) = 0
  OBVIOUS
<1>3. CASE Disconnect(c)
  <2>1. queue'[c] = <<>> /\ client'[c] = "gone"
    BY <1>1, <1>3 DEF Disconnect, Gone, TypeOK
  <2>2. TypeOK'
    BY <1>1, <1>2, <1>3 DEF Disconnect, Gone, TypeOK
  <2> QED  BY <1>1, <1>2, <1>3, <2>1, <2>2 DEF Disconnect, Position, QuoteRun
<1>4. CASE StreamEnds(c)
  <2>1. client'[c] = "ended" /\ forwarder[c] = "done"
    BY <1>1, <1>4 DEF StreamEnds, TypeOK
  <2>2. TypeOK'
    BY <1>1, <1>4 DEF StreamEnds, TypeOK
  <2>3. Position(c)'
    BY <1>1, <1>4, <2>1 DEF StreamEnds, Position
  <2>4. QuoteRun(c)'
    BY <1>1, <1>4, <2>1 DEF StreamEnds, QuoteRun, Handed
  <2> QED  BY <2>2, <2>3, <2>4
<1> QED  BY <1>3, <1>4

LEMMA NextServed == Served /\ [Next]_vars => Served'
<1> USE QuoterAssumption
<1> SUFFICES ASSUME Served, [Next]_vars PROVE Served'
  OBVIOUS
<1>0. TypeOK /\ sent \in Nat /\ sent >= sent
  BY DEF Served, TypeOK
<1>1. CASE Publish
  <2>1. TypeOK' /\ sent' \in Nat /\ sent' >= sent
    BY <1>0, <1>1 DEF Publish, TypeOK
  <2>2. \A d \in Clients : Position(d)' /\ QuoteRun(d)'
    BY <1>0, <1>1, <2>1, OthersServed DEF Publish, Served
  <2> QED  BY <2>1, <2>2 DEF Served
<1>2. ASSUME NEW c \in Clients,
             \/ Subscribe(c) \/ Forward(c) \/ Enqueue(c)
             \/ Receive(c) \/ Disconnect(c) \/ StreamEnds(c)
      PROVE  Served'
  <2>1. TypeOK' /\ Position(c)' /\ QuoteRun(c)'
    BY <1>2, SubscribeServed, ForwardServed, EnqueueServed, ReceiveServed, LeaveServed
  <2>2. ASSUME NEW d \in Clients, d # c PROVE Position(d)' /\ QuoteRun(d)'
    <3>1. /\ sent' = sent
          /\ client'[d] = client[d] /\ forwarder'[d] = forwarder[d]
          /\ start'[d] = start[d] /\ next'[d] = next[d]
          /\ queue'[d] = queue[d] /\ got'[d] = got[d]
      BY <1>0, <1>2, <2>2
      DEF TypeOK, Subscribe, Forward, Enqueue, Receive, Disconnect, StreamEnds, Gone
    <3> QED  BY <1>0, <3>1, OthersServed DEF Served
  <2> QED  BY <2>1, <2>2 DEF Served
<1>3. CASE UNCHANGED vars
  <2>1. TypeOK'
    BY <1>0, <1>3 DEF vars, TypeOK
  <2>2. \A d \in Clients : Position(d)' /\ QuoteRun(d)'
    BY <1>0, <1>3, OthersServed DEF vars, Served
  <2> QED  BY <2>1, <2>2 DEF Served
<1> QED  BY <1>1, <1>2, <1>3 DEF Next

LEMMA ServedHolds == Spec => []Served
  BY InitServed, NextServed, PTL DEF Spec

\* Every variable of the server has its type; a queue never holds more than
\* its capacity, and a client is never given more than it asked for.
THEOREM QuoterTypeCorrect == Spec => []TypeOK
<1>1. Served => TypeOK  BY DEF Served
<1> QED  BY ServedHolds, <1>1, PTL

LEMMA ServedHasNoGap == Served => NoGap
<1> SUFFICES ASSUME Served, NEW c \in Clients
             PROVE  /\ \A i \in DOMAIN (got[c] \o queue[c]) :
                         (got[c] \o queue[c])[i] = start[c] + i - 1
                    /\ client[c] \in {"open", "ended"} =>
                         Len(got[c] \o queue[c]) = Handed(c)
  BY DEF NoGap
<1>1. TypeOK /\ QuoteRun(c)
  BY DEF Served
<1>2. /\ got[c] \in Seq(1 .. MaxQuotes) /\ queue[c] \in Seq(1 .. MaxQuotes)
      /\ Len(got[c]) \in Nat /\ Len(queue[c]) \in Nat /\ start[c] \in Nat
  BY <1>1, LenProperties DEF TypeOK
<1> DEFINE all == got[c] \o queue[c]
<1>3. /\ all \in Seq(1 .. MaxQuotes) /\ Len(all) = Len(got[c]) + Len(queue[c])
      /\ \A i \in 1 .. Len(got[c]) + Len(queue[c]) :
           all[i] = IF i <= Len(got[c]) THEN got[c][i] ELSE queue[c][i - Len(got[c])]
  BY <1>2, ConcatProperties
<1>4. DOMAIN all = 1 .. Len(got[c]) + Len(queue[c])
  BY <1>3, LenProperties
<1>5. ASSUME NEW i \in DOMAIN all PROVE all[i] = start[c] + i - 1
  <2>1. CASE i <= Len(got[c])
    BY <2>1, <1>1, <1>2, <1>3, <1>4, <1>5 DEF QuoteRun
  <2>2. CASE i > Len(got[c])
    <3>1. i - Len(got[c]) \in 1 .. Len(queue[c])
      BY <2>2, <1>1, <1>2, <1>4, <1>5 DEF TypeOK
    <3>2. queue[c][i - Len(got[c])] = start[c] + Len(got[c]) + (i - Len(got[c])) - 1
      BY <3>1, <1>1 DEF QuoteRun
    <3>3. all[i] = queue[c][i - Len(got[c])]
      BY <2>2, <1>2, <1>3, <1>4, <1>5
    <3> QED  BY <3>1, <3>2, <3>3, <1>2, <1>4, <1>5
  <2> QED  BY <2>1, <2>2, <1>2, <1>4, <1>5
<1>6. client[c] \in {"open", "ended"} => Len(all) = Handed(c)
  BY <1>1, <1>3 DEF QuoteRun
<1> QED  BY <1>5, <1>6

\* A client has, received or queued, the unbroken run of quotes that its
\* forwarder handed on since the subscription, however the publisher, the
\* forwarders and the clients interleave (lib.rs:82-127).
THEOREM NoGapInQuotes == Spec => []NoGap
  BY ServedHolds, ServedHasNoGap, PTL

-----------------------------------------------------------------------------
(* The server implements the stream of quotes of QuoteStream.              *)

\* What a client's stream is to the promise.
StateOf(c) ==
  CASE client[c] = "gone" -> "over"
    [] client[c] = "ended" -> "cut"
    [] OTHER -> client[c]
PromisedState == [c \in Clients |-> StateOf(c)]

LEMMA InitPromise == Init => Promise!Init
  BY DEF Init, Promise!Init

LEMMA SamePromise ==
  UNCHANGED <<sent, client, start, got>> => UNCHANGED Promise!stream
  BY DEF Promise!stream

\* A change of one client is a change of that client's promised state.
LEMMA StateChange ==
  ASSUME TypeOK, NEW c \in Clients, NEW to \in {"open", "gone", "ended"},
         client' = [client EXCEPT ![c] = to],
         NEW of, of = CASE to = "gone" -> "over" [] to = "ended" -> "cut" [] OTHER -> to
  PROVE  PromisedState' = [PromisedState EXCEPT ![c] = of]
<1>1. \A d \in Clients : client'[d] = IF d = c THEN to ELSE client[d]
  BY DEF TypeOK
<1>2. \A d \in Clients : StateOf(d)' = IF d = c THEN of ELSE StateOf(d)
  BY <1>1 DEF StateOf
<1> QED  BY <1>2 DEF PromisedState

LEMMA SubscribeRefines ==
  ASSUME Served, NEW c \in Clients, Subscribe(c)
  PROVE  Promise!Open(c)
<1>1. TypeOK
  BY DEF Served
<1>2. PromisedState' = [PromisedState EXCEPT ![c] = "open"]
  BY <1>1, StateChange DEF Subscribe
<1>3. PromisedState[c] = "none"
  BY DEF Subscribe, PromisedState, StateOf
<1> QED  BY <1>2, <1>3 DEF Subscribe, Promise!Open, PromisedState, StateOf

\* The quote that a client takes is the one it is to be given next, and it has
\* been published.
LEMMA HeadIsDue ==
  ASSUME Served, NEW c \in Clients, client[c] = "open", queue[c] # <<>>
  PROVE  Head(queue[c]) = Promise!Due(c) /\ Promise!Due(c) <= sent
<1> USE QuoterAssumption
<1>1. TypeOK /\ Position(c) /\ QuoteRun(c)
  BY DEF Served
<1>2. \A s \in Seq(1 .. MaxQuotes) : s # <<>> => Head(s) = s[1] /\ Len(s) \in Nat \ {0}
  BY EmptySeq
<1>3. PICK a \in Nat, b \in Nat \ {0} :
        a = Len(got[c]) /\ b = Len(queue[c]) /\ Head(queue[c]) = queue[c][1]
  BY <1>1, <1>2, LenProperties DEF TypeOK
<1>4. Head(queue[c]) = start[c] + a + 1 - 1
  BY <1>1, <1>3 DEF QuoteRun
<1>5. a + b = Handed(c)
  BY <1>1, <1>3 DEF QuoteRun
<1>6. start[c] \in Nat /\ next[c] \in Nat /\ sent \in Nat
  BY <1>1 DEF TypeOK
<1>7. a + b <= next[c] - start[c]
  BY <1>5, <1>6 DEF Handed
<1>8. start[c] + a <= sent /\ start[c] + a + 1 - 1 = start[c] + a
  <2>1. next[c] <= sent + 1
    BY <1>1 DEF Position
  <2> QED  BY <1>6, <1>7, <2>1
<1> QED  BY <1>3, <1>4, <1>8 DEF Promise!Due

LEMMA ReceiveRefines ==
  ASSUME Served, NEW c \in Clients, Receive(c)
  PROVE  Promise!Give(c)
<1>1. TypeOK
  BY DEF Served
<1>2. PromisedState[c] = "open"
  BY DEF Receive, PromisedState, StateOf
<1>3. /\ Head(queue[c]) = Promise!Due(c) /\ Promise!Due(c) <= sent
      /\ got' = [got EXCEPT ![c] = Append(@, Promise!Due(c))]
  BY HeadIsDue DEF Receive
<1>4. PromisedState' \in {PromisedState, [PromisedState EXCEPT ![c] = "over"]}
  <2>1. CASE client' = client
    BY <2>1 DEF PromisedState, StateOf
  <2>2. CASE Gone(c)
    BY <1>1, <2>2, StateChange DEF Gone
  <2> QED  BY <2>1, <2>2 DEF Receive
<1> QED  BY <1>2, <1>3, <1>4 DEF Receive, Promise!Give, PromisedState, StateOf

LEMMA DisconnectRefines ==
  ASSUME Served, NEW c \in Clients, Disconnect(c)
  PROVE  Promise!Leave(c)
<1>1. PromisedState' = [PromisedState EXCEPT ![c] = "over"]
  BY StateChange DEF Served, Disconnect, Gone
<1>2. PromisedState[c] = "open"
  BY DEF Disconnect, PromisedState, StateOf
<1> QED  BY <1>1, <1>2 DEF Disconnect, Promise!Leave, PromisedState, StateOf

\* A stream that the server ends is one whose client is a whole ring behind:
\* the forwarder is at the client's next quote, and lags.
LEMMA StreamEndsRefines ==
  ASSUME Served, NEW c \in Clients, StreamEnds(c)
  PROVE  Promise!Cut(c)
<1> USE QuoterAssumption
<1>1. TypeOK /\ Position(c) /\ QuoteRun(c)
  BY DEF Served
<1>2. PromisedState' = [PromisedState EXCEPT ![c] = "cut"]
  BY <1>1, StateChange DEF StreamEnds
<1>3. PromisedState[c] = "open"
  BY DEF StreamEnds, PromisedState, StateOf
<1>4. PICK a \in Nat : a = Len(got[c])
  BY <1>1, LenProperties DEF TypeOK
<1>5. Len(queue[c]) = 0
  BY DEF StreamEnds
<1>6. a = next[c] - start[c]
  <2>1. a + 0 = Handed(c)
    BY <1>1, <1>4, <1>5 DEF StreamEnds, QuoteRun
  <2> QED  BY <1>1, <2>1 DEF StreamEnds, Handed, TypeOK
<1>7. start[c] \in Nat /\ next[c] \in Nat /\ sent \in Nat /\ next[c] <= sent - RING
  BY <1>1 DEF StreamEnds, Position, Lagged, TypeOK
<1>8. sent - (start[c] + a) >= RING
  BY <1>6, <1>7
<1>9. sent - Promise!Due(c) >= RING
  BY <1>4, <1>8 DEF Promise!Due
<1> QED  BY <1>2, <1>3, <1>9 DEF StreamEnds, Promise!Cut, PromisedState, StateOf

\* Each step of the server is a step of the promise, or leaves it alone.
LEMMA StepKeepsPromise ==
  ASSUME Served, [Next]_vars
  PROVE  [Promise!Next]_(Promise!stream)
<1>1. CASE Publish
  BY <1>1 DEF Publish, Promise!Publish, Promise!Next
<1>2. ASSUME NEW c \in Clients, Subscribe(c) PROVE Promise!Next
  BY <1>2, SubscribeRefines DEF Promise!Next
<1>3. ASSUME NEW c \in Clients, Receive(c) PROVE Promise!Next
  BY <1>3, ReceiveRefines DEF Promise!Next
<1>4. ASSUME NEW c \in Clients, Disconnect(c) PROVE Promise!Next
  BY <1>4, DisconnectRefines DEF Promise!Next
<1>5. ASSUME NEW c \in Clients, StreamEnds(c) PROVE Promise!Next
  BY <1>5, StreamEndsRefines DEF Promise!Next
<1>6. CASE (\E c \in Clients : Forward(c) \/ Enqueue(c)) \/ UNCHANGED vars
  BY <1>6, SamePromise DEF Forward, Enqueue, vars
<1> QED  BY <1>1, <1>2, <1>3, <1>4, <1>5, <1>6 DEF Next

\* The ring, the forwarders and the queues implement QuoteStream: a client is
\* given each quote from its subscription on, in order, and is cut off only when
\* RING quotes and more wait for it (lib.rs:82-127).
THEOREM QuoterImplementsQuoteStream == Spec => Refinement
<1>1. Served /\ [Next]_vars => [Promise!Next]_(Promise!stream)
  BY StepKeepsPromise
<1>2. Spec => Promise!Spec
  BY InitPromise, ServedHolds, <1>1, PTL DEF Spec, Promise!Spec
<1> QED  BY <1>2 DEF Refinement
=============================================================================
