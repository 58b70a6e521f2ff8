--------------------------- MODULE MCMEOrderBook ---------------------------
(* Instances of MEOrderBook for TLC.                                       *)
EXTENDS MEOrderBook, TLC

\* Three prices, whose indices wrap round the price index.
MCPrices == 3 .. 5
Symmetry == Permutations(Clients) \cup Permutations(Oids)
=============================================================================
