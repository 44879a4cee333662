---------------------------- MODULE MCOrderBook ----------------------------
(* Values for TLC: a ladder from -1 to 3 around the mid price 1, prices of  *)
(* updates on it and above it, and one location beyond the level's nodes.   *)
EXTENDS OrderBook

SomePrices == {-1, 1, 2, 4}
SomeLocations == {0, 1, 2}
=============================================================================
