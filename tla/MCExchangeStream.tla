-------------------------- MODULE MCExchangeStream --------------------------
(* Instances of ExchangeStream for TLC.                                    *)
EXTENDS ExchangeStream, TLC

CONSTANT e1

\* One exchange, binance (exchange_name 1), with snapshots enabled.
Binance == e1 :> 1
\* One exchange, binance_usa (exchange_name 2).
BinanceUsa == e1 :> 2
Snapshots == e1 :> {TRUE}
\* Snapshots enabled or not.
MaybeSnapshots == e1 :> BOOLEAN

\* Bounds of that exchange.
One == e1 :> 1
Two == e1 :> 2
=============================================================================
