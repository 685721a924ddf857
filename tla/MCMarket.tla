------------------------------ MODULE MCMarket ------------------------------
(* Small instances of the matching engine for TLC.                         *)
EXTENDS Market, TLC

TraderSymmetry == Permutations(Trader)
Symmetry       == Permutations(Trader) \cup Permutations(Product)
=============================================================================
