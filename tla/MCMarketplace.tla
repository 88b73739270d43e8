--------------------------- MODULE MCMarketplace ---------------------------
(* One order and the requests that race for it.                             *)
EXTENDS MarketplaceProofs

NoScores == {}
=============================================================================
