--------------------------- MODULE MCServerBinary ---------------------------
(* One exchange of name 1 with snapshots enabled, for TLC.                 *)
EXTENDS ServerBinary, TLC

CONSTANT e1

One == <<e1>>
Binance == e1 :> 1
Snapshots == e1 :> {TRUE}
Bound == e1 :> 1
=============================================================================
