--------------------------- MODULE MCMarketLedger ---------------------------
(* Small instances of the matching engine and its ledger for TLC.          *)
EXTENDS MarketLedger, TLC

Symmetry == Permutations(Trader) \cup Permutations(Product)
=============================================================================
