------------------------- MODULE MCMarketRequests -------------------------
(* Instances of MarketRequests for TLC; the bounds are in the .cfg files.  *)
EXTENDS MarketRequests

CONSTANTS scan, fast

MCClients == {scan, fast}
=============================================================================
