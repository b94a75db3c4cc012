----------------------------- MODULE MCLiveFeed -----------------------------
(* LiveFeed for TLC: two symbols, two prices, two-minute buckets.          *)
EXTENDS LiveFeed
MCPrices == 1 .. 2
=============================================================================
