--------------------------- MODULE MCMarketMaker ---------------------------
(* Two symbols, two mid prices far enough apart for old and new quotes to  *)
(* cross, one level per side.                                              *)
EXTENDS MarketMaker, TLC

CONSTANTS btc, eth
MCSymbols == {btc, eth}
MCSymmetry == Permutations(MCSymbols)
MCMids == {100, 101}
MCWorkloads == {{"feed"}, {"link"}, {"users"}, {"stop"}, {"halt"}}
=============================================================================
