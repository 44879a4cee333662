---------------------------- MODULE ServerBinary ----------------------------
(***************************************************************************)
(* The websocket thread of the orderbook-quoter-server binary, which calls *)
(* the driver's methods one by one instead of its run.  Of their results   *)
(* it looks at those of websocket_connect and run_streams only, and panics *)
(* when one is an error.                                                   *)
(*                                                                         *)
(* The binary calls sync_orderbook by an older name, build_orderbook.      *)
(***************************************************************************)
EXTENDS DepthDriver

\* websocket_connect; its Ok leads to the first close_exchanges, its Err to a
\* panic, which ends the task as an answer would.
WebsocketConnect == ConnectThen("close")

\* close_exchanges: ws_sink.close() of one exchange after the other, up to the
\* first that fails, for a connection already lost; the result is dropped.
CloseOne ==
  /\ phase = "close" /\ Quiet
  /\ sink' = [sink EXCEPT ![Turn] = "closed"]
  /\ \/ Advance("subscribe")
     \/ at' = 1 /\ phase' = "subscribe"
  /\ UNCHANGED <<vars, task, answer>>

\* The snapshot of an exchange fails: the rest of sync_orderbook is left out,
\* and the streams start all the same.
SyncFails ==
  /\ phase = "snapshot" /\ call[Turn] = "run_snapshot"
  /\ pc[Turn] = "idle" /\ result[Turn] = "Err"
  /\ phase' = "stream" /\ at' = 1
  /\ task' = [e \in Exchanges |-> "running"]
  /\ UNCHANGED <<vars, sink, answer>>

BinaryStep ==
  \/ WebsocketConnect \/ CloseOne \/ SubscribeOne
  \/ SnapshotBegins \/ PushOne \/ SyncFails \/ JoinAll
  \/ result[Turn] # "Err" /\ SnapshotEnds

BNext ==
  \/ BinaryStep
  \/ \E e \in Exchanges : StreamAgain(e) \/ StreamEnds(e) \/ Inside(e)
  \/ Reader

BSpec == DInit /\ [][BNext]_dvars

-----------------------------------------------------------------------------

\* The order book is updated "through soft real time websocket depth updates"
\* (src/README.md:4): when a stream runs, no exchange's sink has been closed
\* before the subscription could be sent on it.
StreamsAreSubscribed ==
  (\E e \in Exchanges : task[e] = "running") =>
    \A x \in Exchanges : sink[x] = "open"
=============================================================================
