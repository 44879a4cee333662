--------------------------- MODULE MCExchangeStub ---------------------------
(* The callers of the stub, for TLC.                                       *)
EXTENDS ExchangeStub, TLC

CONSTANTS w, h, s, m

Idle == w :> <<>> @@ h :> <<>> @@ s :> <<>> @@ m :> <<>>

\* test_receive_depths_from_ws_server: the sender of the shutdown is dropped
\* where it is made; s supplies depths for as long as the test runs.
ReceiveDepths ==
  [kept |-> FALSE,
   script |-> s :> <<"supply", "supply", "supply">> @@ w :> <<"ws">> @@ Idle]

\* test_trigger_snapshots: the shutdown is never sent, as the future of its
\* send is dropped.
TriggerSnapshots ==
  [kept |-> TRUE, script |-> w :> <<"ws">> @@ h :> <<"http">> @@ Idle]

\* test_trigger_with_ws_depths
TriggerWithWsDepths ==
  [kept |-> TRUE,
   script |-> w :> <<"ws">> @@ h :> <<"http">>
              @@ s :> <<"tell", "supply", "supply", "drop">> @@ Idle]

\* The exchange-server binary.
Binary == [kept |-> FALSE, script |-> m :> <<"http", "ws">> @@ Idle]

\* The methods that only other tests could call, beside two suppliers.
Others ==
  [kept |-> FALSE,
   script |-> w :> <<"ws">> @@ h :> <<"supply", "supply">>
              @@ s :> <<"supply", "disconnect", "supply">>
              @@ m :> <<"queue", "supply", "queue", "queue", "supply">>]

AllCases == {ReceiveDepths, TriggerSnapshots, TriggerWithWsDepths, Binary, Others}
=============================================================================
