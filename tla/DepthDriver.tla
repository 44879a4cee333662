---------------------------- MODULE DepthDriver ----------------------------
(***************************************************************************)
(* The depth driver: it owns the exchanges and the depth channel, brings   *)
(* the exchanges up one after the other, and then runs one task for each.  *)
(*                                                                         *)
(* The driver is the caller of ExchangeStream: a step of this module is a  *)
(* step of the driver's own task or of a stream task it spawned, or a step *)
(* that ExchangeStream takes inside a call one of them has begun.          *)
(***************************************************************************)
EXTENDS ExchangeStream

CONSTANT Order  \* driver.exchanges: the exchanges in the order of the Vec

ASSUME OrderAssumption ==
  /\ Exchanges # {}
  /\ Order \in [1 .. Cardinality(Exchanges) -> Exchanges]
  /\ \A i, j \in DOMAIN Order : Order[i] = Order[j] => i = j

VARIABLES
  phase,    \* what run is doing; "done" when it has answered
  at,       \* index of the exchange whose turn it is
  sink,     \* ws_sink of each exchange: "none", "open" or "closed"
  task,     \* the stream task of each exchange: "none", "running", "err"
            \* or "cancelled"
  answer    \* what run answered: "none", "Err", "panic" or "cancelled"

driver == <<phase, at, sink, task, answer>>
dvars == <<vars, driver>>

DInit ==
  /\ Init
  /\ phase = "connect" /\ at = 1
  /\ sink = [e \in Exchanges |-> "none"]
  /\ task = [e \in Exchanges |-> "none"]
  /\ answer = "none"

Turn == Order[at]

\* Mutant: the turn goes past the last exchange.
AdvanceOver(next) ==
  at' = at + 1 /\ phase' = IF at < Len(Order) THEN phase ELSE next

\* The next exchange, or after the last one the next phase.
Advance(next) ==
  IF at < Len(Order) THEN at' = at + 1 /\ phase' = phase
                     ELSE at' = 1 /\ phase' = next

Answer(a) == phase' = "done" /\ answer' = a /\ at' = at

-----------------------------------------------------------------------------
(* Start-up.                                                               *)

ConnectThen(next) ==
  /\ phase = "connect" /\ Quiet
  /\ \/ /\ Connect(Turn)
        /\ sink' = [sink EXCEPT ![Turn] = "open"]
        /\ Advance(next)
        /\ answer' = answer
     \/ /\ Answer("Err")
        /\ UNCHANGED <<vars, sink>>
  /\ task' = task

ConnectOne == ConnectThen("subscribe")

\* Without a sink the answer is an error; a failed send, as on a sink that is
\* closed, is only logged.
SubscribeOne ==
  /\ phase = "subscribe" /\ Quiet
  /\ IF sink[Turn] # "none" THEN Advance("snapshot") /\ answer' = answer
                            ELSE Answer("Err")
  /\ UNCHANGED <<vars, sink, task>>

SnapshotBegins ==
  /\ phase = "snapshot" /\ call[Turn] = "none"
  /\ RunSnapshot(Turn)
  /\ UNCHANGED driver

\* Mutants: an error is retried; an error is ignored.
SnapshotRetried ==
  /\ phase = "snapshot" /\ call[Turn] = "run_snapshot" /\ pc[Turn] = "idle"
  /\ IF result[Turn] = "Ok" THEN Advance("push") /\ UNCHANGED vars
     ELSE RunSnapshot(Turn) /\ UNCHANGED <<phase, at>>
  /\ UNCHANGED <<sink, task, answer>>
SnapshotIgnored ==
  /\ phase = "snapshot" /\ call[Turn] = "run_snapshot" /\ pc[Turn] = "idle"
  /\ Advance("push")
  /\ UNCHANGED <<vars, sink, task, answer>>

SnapshotEnds ==
  /\ phase = "snapshot" /\ call[Turn] = "run_snapshot"
  /\ \/ /\ pc[Turn] = "idle" /\ result[Turn] = "Ok"
        /\ Advance("push") /\ answer' = answer
     \/ /\ pc[Turn] = "idle" /\ result[Turn] = "Err"
        /\ Answer("Err")
     \/ /\ pc[Turn] = "panicked"
        /\ Answer("panic")
  /\ UNCHANGED <<vars, sink, task>>

\* push_buffered_ws_depths; after the last one a task is spawned for each
\* exchange.
PushOne ==
  /\ phase = "push"
  /\ PushBufferedWsDepths(Turn)
  /\ Advance("stream")
  /\ task' = [e \in Exchanges |-> IF at = Len(Order) THEN "running" ELSE task[e]]
  /\ UNCHANGED <<sink, answer>>

-----------------------------------------------------------------------------
(* Streaming.  A stream task calls stream_depths until it answers an error *)
(* (run never panics: its only push puts back what it popped).             *)

StreamAgain(e) ==
  /\ phase = "stream" /\ task[e] = "running"
  /\ call[e] = "run" => result[e] = "Ok"
  /\ Run(e)
  /\ UNCHANGED driver

StreamEnds(e) ==
  /\ phase = "stream" /\ task[e] = "running"
  /\ pc[e] = "idle" /\ call[e] = "run" /\ result[e] = "Err"
  /\ task' = [task EXCEPT ![e] = "err"]
  /\ UNCHANGED <<vars, phase, at, sink, answer>>

\* Mutant: the first task to end ends the driver.
JoinFirst ==
  /\ phase = "stream" /\ \E e \in Exchanges : task[e] = "err"
  /\ Answer("Err")
  /\ UNCHANGED <<vars, sink, task>>

\* join_all: the driver answers when every task has.
JoinAll ==
  /\ phase = "stream" /\ \A e \in Exchanges : task[e] = "err"
  /\ Answer("Err")
  /\ UNCHANGED <<vars, sink, task>>

\* The task that awaits run is cancelled: the call in progress is dropped at
\* its await, and so is every stream task.
CancelRun ==
  /\ phase # "done" /\ Quiet
  /\ Answer("cancelled")
  /\ task' = [e \in Exchanges |-> IF task[e] = "running" THEN "cancelled" ELSE task[e]]
  /\ IF phase = "snapshot" /\ pc[Turn] = "pull" THEN Cancel(Turn) ELSE UNCHANGED vars
  /\ sink' = sink

-----------------------------------------------------------------------------

\* Inside a call: the exchange that runs it goes on.
Inside(e) ==
  /\ phase # "done"
  /\ PullOk(e) \/ PullErr(e) \/ PullPanic(e) \/ Poll(e)
  /\ UNCHANGED driver

Reader == phase # "done" /\ (Take \/ Release \/ Close) /\ UNCHANGED driver

\* What the driver's own task does.
DriverStep ==
  ConnectOne \/ SubscribeOne \/ SnapshotBegins \/ SnapshotEnds \/ PushOne \/ JoinAll

DNext ==
  \/ DriverStep
  \/ \E e \in Exchanges : StreamAgain(e) \/ StreamEnds(e) \/ Inside(e)
  \/ CancelRun
  \/ Reader

DSpec == DInit /\ [][DNext]_dvars

\* The executor runs every task, an HTTP request is answered or fails, and the
\* reader goes on reading.  Nothing obliges anybody to cancel or to close.
DFairSpec ==
  /\ DSpec
  /\ WF_dvars(DriverStep)
  /\ \A e \in Exchanges :
       /\ WF_dvars(Inside(e))
       /\ WF_dvars(StreamEnds(e))
       /\ SF_dvars(StreamAgain(e))
  /\ SF_dvars(phase # "done" /\ Take /\ UNCHANGED driver)
  /\ SF_dvars(phase # "done" /\ Release /\ UNCHANGED driver)

-----------------------------------------------------------------------------
(* Properties.                                                             *)

\* Every variable of the driver has its type.
DriverTypeOK ==
  /\ phase \in {"connect", "subscribe", "snapshot", "push", "stream", "done"}
  /\ at \in DOMAIN Order
  /\ sink \in [Exchanges -> {"none", "open", "closed"}]
  /\ task \in [Exchanges -> {"none", "running", "err", "cancelled"}]
  /\ answer \in {"none", "Err", "panic", "cancelled"}

\* No stream task exists before every exchange of the driver is connected and
\* the depths of its snapshot have all been taken over, whichever start-up step
\* of whichever exchange failed (lib.rs:59-70).
StreamsStartSynced ==
  (\E e \in Exchanges : task[e] # "none") =>
    \A x \in Exchanges :
      /\ socket[x] # "none" /\ sink[x] = "open"
      /\ pulls[x] > 0 /\ snapshot[x] = <<>>
      /\ ~buffer_websocket_depths[x]

\* An exchange of name 1 with a client never panics under the driver: in the
\* order in which the driver makes its calls, no buffer is pushed past its end
\* (stream.rs:211, 424), whatever the socket sends meanwhile.
BinanceNeverPanics ==
  \A e \in Exchanges : Name[e] = 1 /\ http_client[e] => pc[e] # "panicked"

\* "streams run independently: one failing doesn't stop the others"
\* (lib.rs:107): a websocket depth of an exchange of name 1 (the depths of name
\* 2 are never sent) whose stream does not itself fail reaches the reader,
\* whatever became of the other streams.
StreamsAreIndependent ==
  \A e \in Exchanges : \A n \in 1 .. MaxTexts[e], i \in 1 .. BUF :
    Name[e] = 1 /\ Expected(e, {"ws", "held"}, n, i) ~>
      \/ Reached(e, {"ws", "held"}, n, i)
      \/ task[e] = "err" \/ answer \in {"cancelled", "panic"} \/ ~rx_open
      \/ task[e] = "none" /\ answer = "Err"

\* Start-up comes to an end: the streams run, or the driver has answered.
StartUpEnds == phase = "connect" ~> phase \in {"stream", "done"}

\* "channel full, trying again / keep the depth for the next poll rather than
\* dropping it" (stream.rs:422): while the streams run and the reader reads, a
\* depth that found the channel full reaches the reader at a later poll.
FullChannelIsRetried ==
  \A e \in Exchanges : \A n \in 1 .. MaxTexts[e], i \in 1 .. BUF :
    phase = "stream" /\ Expected(e, {"ws", "held"}, n, i) ~>
      \/ Reached(e, {"ws", "held"}, n, i)
      \/ answer = "cancelled" \/ ~rx_open
=============================================================================
