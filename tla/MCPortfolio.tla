---------------------------- MODULE MCPortfolio ----------------------------
(* Three customers and the market maker.  Start balances give every shape  *)
(* of tree up to six leaves, an odd level above an even one included; a    *)
(* buyer's fee of half the quantity lets sales leave lots without balance. *)
EXTENDS Portfolio

MCCustomers == {"ann", "bob", "cat"}
MCSlots == <<<<"BTC", "ann">>, <<"BTC", "bob">>, <<"BTC", "cat">>, <<"BTC", "mm">>,
             <<"USDT", "ann">>, <<"USDT", "bob">>, <<"USDT", "cat">>, <<"USDT", "mm">>>>
MCStartBalances ==
  {[row \in ToSet(MCSlots) |-> IF row[2] = "mm" THEN 20 ELSE IF row \in held THEN 8 ELSE 0] :
     held \in {{}, {<<"BTC", "bob">>, <<"USDT", "ann">>}, ToSet(MCSlots) \ {<<"BTC", "cat">>}}}
MCPrices == {1, 2}
MCAmounts == {2, 4}
MCProofRequests == {1, 2}
MCActivities == {{"faucet", "faults", "history"}, {"faucet", "trade", "history"}, {"trade", "pnl"}, {"faucet", "proof"}}
=============================================================================
