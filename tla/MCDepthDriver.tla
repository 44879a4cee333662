---------------------------- MODULE MCDepthDriver ----------------------------
(* Instances of DepthDriver for TLC.                                       *)
EXTENDS DepthDriver, TLC

CONSTANTS e1, e2

Two == <<e1, e2>>

\* The exchanges of usa-configs.yaml: names 1 and 2.
Mixed == e1 :> 1 @@ e2 :> 2
\* Two exchanges of name 1, whose websocket depths are sent.
BothBinance == e1 :> 1 @@ e2 :> 1

\* Snapshots enabled for both; for both, or for the first only.
BothSnapshots == e1 :> {TRUE} @@ e2 :> {TRUE}
FirstSnapshots == e1 :> {TRUE} @@ e2 :> BOOLEAN

\* Bound of each exchange.
OneEach == e1 :> 1 @@ e2 :> 1
=============================================================================
