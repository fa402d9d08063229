---------------------------- MODULE MCSettlement ----------------------------
(* Orders for model checking Settlement. *)
EXTENDS Settlement

MCUsers == {"ann", "bob"}

Limit(u, s, p, q) ==
  [user |-> u, side |-> s, type |-> "limit", price |-> p, qty |-> q, cid |-> None, via |-> "api"]

(* Order 2 has the client_order_id of order 1 and is rejected if 4 rests;  *)
(* 3 has a rest to cancel; 4 comes over a connection of its own and sells  *)
(* for less than the others offer.  The price of 5 is negative.            *)
FlowOrders == 1..5
FlowOrd ==
  <<[Limit("ann", "buy", 2, 2) EXCEPT !.cid = "x"],
    [Limit("ann", "buy", 2, 2) EXCEPT !.cid = "x", !.type = "post_only"],
    [Limit("bob", "sell", 1, 3) EXCEPT !.type = "ioc"],
    [Limit("bob", "sell", 1, 1) EXCEPT !.via = "direct"],
    Limit("ann", "buy", -1, 1)>>

(* One order. *)
OneOrders == {1}
OneOrd == <<Limit("ann", "buy", 1, 1)>>
=============================================================================
