--------------------------- MODULE MCQuoterServer ---------------------------
(* Two clients for TLC.                                                    *)
EXTENDS QuoterServer

CONSTANTS c1, c2
=============================================================================
