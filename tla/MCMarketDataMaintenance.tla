----------------------- MODULE MCMarketDataMaintenance -----------------------
(* Instances of MarketDataMaintenance for TLC.                              *)
EXTENDS MarketDataMaintenance

CONSTANTS j1, e1, p1, u1, u2
=============================================================================
