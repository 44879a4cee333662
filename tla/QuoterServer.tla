---------------------------- MODULE QuoterServer ----------------------------
(***************************************************************************)
(* The gRPC quoter server and its clients.  The order book's thread        *)
(* publishes quotes in a broadcast ring and never waits.  For each client  *)
(* that connects, a forwarder task copies quotes from the ring to a queue, *)
(* from which the client's response stream is fed.                         *)
(*                                                                         *)
(* Quotes are numbered in the order in which they are published.           *)
(***************************************************************************)
EXTENDS Integers, Sequences

CONSTANTS
  Clients,
  RING,        \* capacity of the broadcast channel
  QUEUE,       \* capacity of a client's queue
  NUM,         \* how many quotes a client wants
  MaxQuotes    \* bound: quotes published

ASSUME QuoterAssumption ==
  /\ RING \in Nat \ {0} /\ QUEUE \in Nat \ {0} /\ NUM \in Nat \ {0}
  /\ MaxQuotes \in Nat

VARIABLES
  sent,        \* number of quotes published
  client,      \* "none", "open", "gone" (it dropped its stream) or "ended"
               \* (the server ended it)
  forwarder,   \* "none", "waiting" for a quote, "sending" one, or "done"
  start,       \* history: the first quote published after the subscription
  next,        \* the next quote the forwarder reads
  queue,       \* quotes queued for the client
  got          \* history: quotes the client has received

vars == <<sent, client, forwarder, start, next, queue, got>>

Init ==
  /\ sent = 0
  /\ client = [c \in Clients |-> "none"]
  /\ forwarder = [c \in Clients |-> "none"]
  /\ start = [c \in Clients |-> 1]
  /\ next = [c \in Clients |-> 1]
  /\ queue = [c \in Clients |-> <<>>]
  /\ got = [c \in Clients |-> <<>>]

\* The oldest quotes of a full ring are overwritten.
Publish ==
  /\ sent < MaxQuotes
  /\ sent' = sent + 1
  /\ UNCHANGED <<client, forwarder, start, next, queue, got>>

\* server_streaming_quoter
Subscribe(c) ==
  /\ client[c] = "none"
  /\ client' = [client EXCEPT ![c] = "open"]
  /\ forwarder' = [forwarder EXCEPT ![c] = "waiting"]
  /\ start' = [start EXCEPT ![c] = sent + 1]
  /\ next' = [next EXCEPT ![c] = sent + 1]
  /\ UNCHANGED <<sent, queue, got>>

-----------------------------------------------------------------------------
(* The forwarder.                                                          *)

\* Mutant: the oldest quote of a full ring counts as lost.
LaggedEarly(c) == next[c] <= sent - RING + 1
\* The next quote has been overwritten.
Lagged(c) == next[c] <= sent - RING

\* Mutant: after a lag the forwarder goes on with the oldest quote there is.
ForwardPastLag(c) ==
  /\ forwarder[c] = "waiting" /\ next[c] <= sent
  /\ forwarder' = [forwarder EXCEPT ![c] = "sending"]
  /\ next' = [next EXCEPT ![c] = IF Lagged(c) THEN sent - RING + 2 ELSE @ + 1]
  /\ UNCHANGED <<sent, client, start, queue, got>>

\* quote_stream.next(): a quote, or the error that ends the forwarder
Forward(c) ==
  /\ forwarder[c] = "waiting" /\ next[c] <= sent
  /\ \/ /\ ~Lagged(c)
        /\ forwarder' = [forwarder EXCEPT ![c] = "sending"]
        /\ next' = [next EXCEPT ![c] = @ + 1]
     \/ /\ Lagged(c)
        /\ forwarder' = [forwarder EXCEPT ![c] = "done"]
        /\ next' = next
  /\ UNCHANGED <<sent, client, start, queue, got>>

\* Mutants: a quote that finds the queue full is dropped; a client that went
\* away is not noticed.
EnqueueOrDrop(c) ==
  /\ forwarder[c] = "sending"
  /\ \/ /\ client[c] = "open"
        /\ queue' = IF Len(queue[c]) < QUEUE
                    THEN [queue EXCEPT ![c] = Append(@, next[c] - 1)] ELSE queue
        /\ forwarder' = [forwarder EXCEPT ![c] = "waiting"]
     \/ /\ client[c] # "open"
        /\ forwarder' = [forwarder EXCEPT ![c] = "done"]
        /\ queue' = queue
  /\ UNCHANGED <<sent, client, start, next, got>>
EnqueueUnaware(c) ==
  /\ forwarder[c] = "sending"
  /\ client[c] = "open" => Len(queue[c]) < QUEUE
  /\ queue' = IF client[c] = "open"
              THEN [queue EXCEPT ![c] = Append(@, next[c] - 1)] ELSE queue
  /\ forwarder' = [forwarder EXCEPT ![c] = "waiting"]
  /\ UNCHANGED <<sent, client, start, next, got>>

\* tx.send: waits while the queue is full, fails once the client is gone
Enqueue(c) ==
  /\ forwarder[c] = "sending"
  /\ \/ /\ client[c] = "open" /\ Len(queue[c]) < QUEUE
        /\ queue' = [queue EXCEPT ![c] = Append(@, next[c] - 1)]
        /\ forwarder' = [forwarder EXCEPT ![c] = "waiting"]
     \/ /\ client[c] # "open"
        /\ forwarder' = [forwarder EXCEPT ![c] = "done"]
        /\ queue' = queue
  /\ UNCHANGED <<sent, client, start, next, got>>

-----------------------------------------------------------------------------
(* The client.                                                             *)

Gone(c) ==
  /\ client' = [client EXCEPT ![c] = "gone"]
  /\ queue' = [queue EXCEPT ![c] = <<>>]

\* Mutant: the client never has enough.
ReceiveForever(c) ==
  /\ client[c] = "open" /\ queue[c] # <<>>
  /\ got' = [got EXCEPT ![c] = Append(@, Head(queue[c]))]
  /\ queue' = [queue EXCEPT ![c] = Tail(@)]
  /\ UNCHANGED <<sent, client, forwarder, start, next>>

\* stream_quotes: stream.take(num).next()
Receive(c) ==
  /\ client[c] = "open" /\ queue[c] # <<>>
  /\ got' = [got EXCEPT ![c] = Append(@, Head(queue[c]))]
  /\ IF Len(got[c]) + 1 = NUM THEN Gone(c)
     ELSE /\ queue' = [queue EXCEPT ![c] = Tail(@)]
          /\ client' = client
  /\ UNCHANGED <<sent, forwarder, start, next>>

\* The connection is lost.
Disconnect(c) ==
  /\ client[c] = "open"
  /\ Gone(c)
  /\ UNCHANGED <<sent, forwarder, start, next, got>>

\* The stream is over: the forwarder is done and the queue drained.
StreamEnds(c) ==
  /\ client[c] = "open" /\ forwarder[c] = "done" /\ queue[c] = <<>>
  /\ client' = [client EXCEPT ![c] = "ended"]
  /\ UNCHANGED <<sent, forwarder, start, next, queue, got>>

Next ==
  \/ Publish
  \/ \E c \in Clients :
       \/ Subscribe(c) \/ Forward(c) \/ Enqueue(c)
       \/ Receive(c) \/ Disconnect(c) \/ StreamEnds(c)

Spec == Init /\ [][Next]_vars

\* The runtime polls a forwarder that can go on, and a client that is there
\* reads its stream.  Nobody has to publish, connect or disconnect.
FairSpec ==
  /\ Spec
  /\ \A c \in Clients :
       /\ WF_vars(Forward(c)) /\ WF_vars(Enqueue(c))
       /\ WF_vars(Receive(c)) /\ WF_vars(StreamEnds(c))

-----------------------------------------------------------------------------
(* Properties.                                                             *)

\* Every variable has its type.
TypeOK ==
  /\ sent \in 0 .. MaxQuotes
  /\ client \in [Clients -> {"none", "open", "gone", "ended"}]
  /\ forwarder \in [Clients -> {"none", "waiting", "sending", "done"}]
  /\ start \in [Clients -> 1 .. MaxQuotes + 1]
  /\ next \in [Clients -> 1 .. MaxQuotes + 1]
  /\ queue \in [Clients -> Seq(1 .. MaxQuotes)]
  /\ got \in [Clients -> Seq(1 .. MaxQuotes)]
  /\ \A c \in Clients : Len(queue[c]) <= QUEUE /\ Len(got[c]) <= NUM

\* The quotes the forwarder has handed on.
Handed(c) == next[c] - start[c] - (IF forwarder[c] = "sending" THEN 1 ELSE 0)

\* What a client has received and what is queued for it is, without a gap, a
\* repetition or a change of order, the run of quotes that its forwarder has
\* handed on since its subscription: a client that lags is cut off and never
\* left with a hole in its quotes, nor does it lose those that were queued when
\* it was cut off (lib.rs:82-127).
NoGap ==
  \A c \in Clients :
    LET all == got[c] \o queue[c]
    IN  /\ \A i \in DOMAIN all : all[i] = start[c] + i - 1
        /\ client[c] \in {"open", "ended"} => Len(all) = Handed(c)

\* Through the ring, the forwarder and the queue, the server is the stream of
\* quotes that QuoteStream describes: what a client is given next never
\* depends on the other clients, and the server ends no stream before its
\* client is a whole ring behind.
Promise == INSTANCE QuoteStream WITH
  first <- start,
  state <- [c \in Clients |-> CASE client[c] = "gone" -> "over"
                               [] client[c] = "ended" -> "cut"
                               [] OTHER -> client[c]]
Refinement == Promise!Spec

\* A quote published after a client has subscribed reaches it, unless the
\* client goes away or is cut off.
QuoteReachesClient ==
  \A c \in Clients, q \in 1 .. MaxQuotes :
    client[c] = "open" /\ start[c] <= q /\ q <= sent
      ~> client[c] # "open" \/ \E i \in DOMAIN got[c] : got[c][i] = q

\* "output_stream was build from rx and both are dropped" (lib.rs:119): the
\* forwarder of a client that has gone ends when there is a quote to forward;
\* none goes on reading the ring for nobody.
ForwarderEndsWithClient ==
  \A c \in Clients :
    client[c] = "gone" /\ next[c] <= sent ~> forwarder[c] = "done"
=============================================================================
