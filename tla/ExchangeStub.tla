---------------------------- MODULE ExchangeStub ----------------------------
(***************************************************************************)
(* The stub that stands for an exchange in the tests of the exchange       *)
(* crate, and its callers.  They share it in an Arc<tokio::sync::Mutex>:   *)
(* every method keeps the lock until it returns, also while it waits for a *)
(* client, serves HTTP or sends.                                           *)
(*                                                                         *)
(* What a generated depth holds does not matter: depths are numbered as    *)
(* they are made.  Serving a snapshot changes no state and is no step.     *)
(***************************************************************************)
EXTENDS Integers, Sequences

CONSTANTS
  Tasks,   \* the tasks that share the stub
  Cases,   \* who calls what: see Calls and the assumption
  QUEUE    \* capacity of the channel of depths

\* The calls a task makes: methods of the stub, and two on the sender of the
\* shutdown that ExchangeServer::new hands out.
Methods == {"ws", "http", "supply", "queue", "disconnect"}
Calls == Methods \cup {"tell", "drop"}

\* A case gives each task its calls, and says whether the sender of the
\* shutdown is kept at all.
ASSUME StubAssumption ==
  /\ QUEUE \in Nat \ {0}
  /\ \A case \in Cases :
       /\ case.kept \in BOOLEAN
       /\ case.script \in [Tasks -> Seq(Calls)]

VARIABLES
  script,         \* the calls each task still has to make
  lock,           \* who holds the lock, then who waits for it, in order
  depth_channel,  \* depths between depth_producer and depth_consumer
  hand,           \* the depth each task is sending, or 0
  depth_sink,     \* "none", "open", or "closed" (by either side)
  http_shutdown,  \* messages in the shutdown channel, which has room for one
  senders,        \* a sender of the shutdown is alive
  made,           \* number of depths generated
  lone,           \* history: depths queued by supply_depth_internal_ws alone
  told,           \* history: the shutdown has been sent
  wire            \* history: depths sent to the client, in order

vars == <<script, lock, depth_channel, hand, depth_sink, http_shutdown,
          senders, made, lone, told, wire>>

Init ==
  /\ \E case \in Cases : script = case.script /\ senders = case.kept
  /\ lock = <<>>
  /\ depth_channel = <<>>
  /\ hand = [t \in Tasks |-> 0]
  /\ depth_sink = "none"
  /\ http_shutdown = 0
  /\ made = 0 /\ lone = 0 /\ told = FALSE
  /\ wire = <<>>

Calling(t, call) == script[t] # <<>> /\ Head(script[t]) = call

\* lock().await: the mutex is fair, tasks get it in the order they ask.
Ask(t) ==
  /\ \E m \in Methods : Calling(t, m)
  /\ \A i \in DOMAIN lock : lock[i] # t
  /\ lock' = Append(lock, t)
  /\ UNCHANGED <<script, depth_channel, hand, depth_sink, http_shutdown,
                 senders, made, lone, told, wire>>

\* Mutant: whoever asks is let in.
HoldsWithOthers(t) == \E i \in DOMAIN lock : lock[i] = t

Holds(t) == lock # <<>> /\ Head(lock) = t

\* The method of t, which holds the lock, returns; its guard is dropped.
Return(t) ==
  /\ lock' = Tail(lock)
  /\ script' = [script EXCEPT ![t] = Tail(@)]

\* run_websocket: a client connects, or the bind or the handshake fails.
RunWebsocket(t) ==
  /\ Calling(t, "ws") /\ Holds(t)
  /\ depth_sink' \in {depth_sink, "open"}
  /\ Return(t)
  /\ UNCHANGED <<depth_channel, hand, http_shutdown, senders, made, lone, told, wire>>

\* run_http_server: recv answers a message, or None when no sender is left.
RunHttpServer(t) ==
  /\ Calling(t, "http") /\ Holds(t)
  /\ \/ http_shutdown > 0 /\ http_shutdown' = http_shutdown - 1
     \/ http_shutdown = 0 /\ ~senders /\ http_shutdown' = 0
  /\ Return(t)
  /\ UNCHANGED <<depth_channel, hand, depth_sink, senders, made, lone, told, wire>>

-----------------------------------------------------------------------------
(* Supplying depths.                                                       *)

\* Mutant: a full channel takes one more.
RoomForOneMore == Len(depth_channel) <= QUEUE

Room == Len(depth_channel) < QUEUE

\* Mutant: without a client the depth is left in the channel.
FanoutConnected(t, depths) ==
  IF depth_sink = "none"
  THEN depth_channel' = depths /\ hand' = hand /\ Return(t)
  ELSE /\ depth_channel' = Tail(depths)
       /\ hand' = [hand EXCEPT ![t] = Head(depths)]
       /\ UNCHANGED <<lock, script>>

\* fanout_depth up to its send, with these depths in the channel: it takes one
\* out before it looks for a client, and drops it when there is none.
Fanout(t, depths) ==
  /\ depth_channel' = Tail(depths)
  /\ IF depth_sink = "none"
     THEN hand' = hand /\ Return(t)
     ELSE /\ hand' = [hand EXCEPT ![t] = Head(depths)]
          /\ UNCHANGED <<lock, script>>

\* supply_depths: with a full channel try_send fails, and so does the call.
SupplyDepths(t) ==
  /\ Calling(t, "supply") /\ Holds(t) /\ hand[t] = 0
  /\ made' = made + 1
  /\ \/ Room /\ Fanout(t, Append(depth_channel, made + 1))
     \/ ~Room /\ Return(t) /\ UNCHANGED <<depth_channel, hand>>
  /\ UNCHANGED <<depth_sink, http_shutdown, senders, lone, told, wire>>

\* depth_sink.send(..).await ends, with an error when the connection is lost.
Sent(t) ==
  /\ hand[t] # 0
  /\ \/ /\ depth_sink = "open"
        /\ wire' = Append(wire, hand[t])
        /\ depth_sink' = depth_sink
     \/ /\ wire' = wire
        /\ depth_sink' = "closed"
  /\ hand' = [hand EXCEPT ![t] = 0]
  /\ Return(t)
  /\ UNCHANGED <<depth_channel, http_shutdown, senders, made, lone, told>>

SupplyDepthInternalWs(t) ==
  /\ Calling(t, "queue") /\ Holds(t)
  /\ made' = made + 1
  /\ \/ /\ Room
        /\ depth_channel' = Append(depth_channel, made + 1)
        /\ lone' = lone + 1
     \/ ~Room /\ UNCHANGED <<depth_channel, lone>>
  /\ Return(t)
  /\ UNCHANGED <<hand, depth_sink, http_shutdown, senders, told, wire>>

\* force_disconnect_ws; without a client the unwrap panics and ends the task.
ForceDisconnectWs(t) ==
  /\ Calling(t, "disconnect") /\ Holds(t)
  /\ \/ /\ depth_sink # "none"
        /\ depth_sink' = "closed"
        /\ Return(t)
     \/ /\ depth_sink = "none"
        /\ depth_sink' = depth_sink
        /\ lock' = Tail(lock)
        /\ script' = [script EXCEPT ![t] = <<>>]
  /\ UNCHANGED <<depth_channel, hand, http_shutdown, senders, made, lone, told, wire>>

-----------------------------------------------------------------------------
(* The sender of the shutdown, which needs no lock.                        *)

\* Mutant: the message is for a server that runs, and lost on others.
TellRunning(t) ==
  /\ Calling(t, "tell")
  /\ script' = [script EXCEPT ![t] = Tail(@)]
  /\ http_shutdown' = IF \E x \in Tasks : Calling(x, "http") /\ Holds(x)
                      THEN 1 ELSE http_shutdown
  /\ told' = TRUE
  /\ UNCHANGED <<lock, depth_channel, hand, depth_sink, senders, made, lone, wire>>

\* http_shutdown.send(()).await: waits while the channel is full.
Tell(t) ==
  /\ Calling(t, "tell") /\ http_shutdown = 0
  /\ script' = [script EXCEPT ![t] = Tail(@)]
  /\ http_shutdown' = 1
  /\ told' = TRUE
  /\ UNCHANGED <<lock, depth_channel, hand, depth_sink, senders, made, lone, wire>>

\* The task that owns the sender ends.
DropShutdown(t) ==
  /\ Calling(t, "drop")
  /\ script' = [script EXCEPT ![t] = Tail(@)]
  /\ senders' = FALSE
  /\ UNCHANGED <<lock, depth_channel, hand, depth_sink, http_shutdown, made, lone,
                 told, wire>>

-----------------------------------------------------------------------------

\* What needs no client to connect.
Step(t) ==
  \/ Ask(t) \/ RunHttpServer(t)
  \/ SupplyDepths(t) \/ Sent(t) \/ SupplyDepthInternalWs(t) \/ ForceDisconnectWs(t)
  \/ Tell(t) \/ DropShutdown(t)

Next == \E t \in Tasks : Step(t) \/ RunWebsocket(t)

Spec == Init /\ [][Next]_vars

\* The runtime runs every task, and a client that has connected goes on
\* reading.  No client has to connect.
FairSpec == Spec /\ \A t \in Tasks : WF_vars(Step(t))

-----------------------------------------------------------------------------
(* Properties.                                                             *)

\* Every variable has its type.
TypeOK ==
  /\ script \in [Tasks -> Seq(Calls)]
  /\ lock \in Seq(Tasks)
  /\ depth_channel \in Seq(1 .. made) /\ Len(depth_channel) <= QUEUE
  /\ hand \in [Tasks -> 0 .. made]
  /\ depth_sink \in {"none", "open", "closed"}
  /\ http_shutdown \in 0 .. 1 /\ senders \in BOOLEAN /\ told \in BOOLEAN
  /\ made \in Nat /\ lone \in 0 .. made
  /\ wire \in Seq(1 .. made)

\* Between two calls the channel holds the depths that were queued by
\* themselves and no others: supplies that failed, before a client had
\* connected or after it was lost, leave nothing behind that would fill the
\* channel and make every later supply fail ('continue 'send_loop' in
\* stream.rs:622 calls on until one succeeds).
FailedSuppliesLeaveNothing == Len(depth_channel) = lone

\* However many tasks supply depths, and though each waits for its send, the
\* client gets the depths in the order in which they were made, none twice.
WireInOrder ==
  \A i, j \in DOMAIN wire : i < j => wire[i] < wire[j]

Asked(call) == \E t \in Tasks : \E i \in DOMAIN script[t] : script[t][i] = call

\* "shutdown the server so we can release the exchange server lock to start
\* sending ws depths" (stream.rs:754): once a client has connected, and the
\* shutdown was sent or cannot be any more, whether the HTTP server was
\* running by then or still waited for the lock, every task gets the lock as
\* often as it needs it and ends.
LockIsPassedOn ==
  depth_sink # "none" /\ (told \/ ~senders \/ ~Asked("http"))
    ~> \A t \in Tasks : script[t] = <<>>
=============================================================================
