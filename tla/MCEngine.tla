------------------------------ MODULE MCEngine ------------------------------
(* Inputs for model checking Engine: short command sequences around one    *)
(* book, with cancels, halts and crashes at any point.                     *)
EXTENDS Engine

MCPrice == 1..2
MCUsers == {"ann", "bob"}

Plain(i, u, s, t, p, q) ==
  [id |-> i, user |-> u, side |-> s, type |-> t, price |-> p, quantity |-> q,
   remaining |-> q, stp |-> "decrement", stop |-> None, oco |-> None, display |-> None]
Stop(o, p)   == [o EXCEPT !.stop = p]
Linked(o, l) == [o EXCEPT !.oco = l]
Stp(o, m)    == [o EXCEPT !.stp = m]

(* Fills, an OCO pair, a stop, self-trade prevention, both pre-rejects, a  *)
(* fill-or-kill order that self-trade prevention starves.                  *)
EngineInputs ==
  {Linked(Plain(1, "bob", "sell", "oco", 1, 1), 2),
   Linked(Stop(Plain(2, "bob", "sell", "stop_limit", 1, 2), 2), 1),
   Plain(1, "bob", "sell", "limit", 1, 2),
   Plain(3, "ann", "buy", "limit", 1, 1), Plain(3, "ann", "buy", "limit", 2, 2),
   Plain(3, "ann", "buy", "fok", 1, 2), Stp(Plain(3, "bob", "buy", "fok", 1, 1), "cancel_maker"),
   Plain(3, "bob", "buy", "ioc", 1, 1),
   Plain(4, "ann", "buy", "post_only", 1, 1), Plain(4, "bob", "sell", "limit", 1, 1)}

(* A fill-or-kill order that self-trade prevention starves: its command    *)
(* removes a leg of ann's OCO pair, is rejected, and ann cancels the leg.  *)
RecoveryInputs ==
  {Linked(Plain(1, "ann", "sell", "oco", 1, 1), 2),
   Linked(Stop(Plain(2, "ann", "sell", "stop_limit", 1, 1), 1), 1),
   Stp(Plain(3, "ann", "buy", "fok", 1, 1), "cancel_maker")}

(* Two orders that trade. *)
TradeInputs ==
  {Plain(1, "bob", "sell", "limit", 1, 1), Plain(2, "ann", "buy", "limit", 1, 1)}
=============================================================================
