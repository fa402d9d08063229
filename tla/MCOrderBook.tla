----------------------------- MODULE MCOrderBook -----------------------------
(* Inputs for model checking OrderBook.  The first submissions build a     *)
(* book, the later ones trade with it; cancels may come at any time.       *)
EXTENDS OrderBook

MCPrice == 1..3
MCUsers == {"ann", "bob"}

Plain(i, u, s, t, p, q) ==
  [id |-> i, user |-> u, side |-> s, type |-> t, price |-> p, quantity |-> q,
   remaining |-> q, stp |-> "decrement", stop |-> None, oco |-> None, display |-> None]
Shown(o, d)    == [o EXCEPT !.display = d]
Stop(o, p)     == [o EXCEPT !.stop = p]
Linked(o, l)   == [o EXCEPT !.oco = l]
Modes(S)       == {[o EXCEPT !.stp = m] : o \in S, m \in StpMode}

(* Matching, icebergs, pre-checks and self-trade prevention: two or three  *)
(* makers of one or two owners, then takers of every type.                 *)
Makers(i) ==
  {Plain(i, u, "sell", "limit", p, q) : u \in MCUsers, p \in {2, 3}, q \in {1, 2}}
  \cup {Shown(Plain(i, "bob", "sell", "iceberg", 2, 3), 2)}
  \cup {Plain(i, "bob", "buy", "limit", 1, 1)}
Takers(i) ==
  Modes({Plain(i, "ann", "buy", t, 2, 2) : t \in {"limit", "fok"}}
        \cup {Plain(i, "ann", "buy", "ioc", 3, 3)})
  \cup {Plain(i, "ann", "buy", "post_only", p, 1) : p \in {1, 2}}
  \cup {Plain(i, "ann", "sell", "limit", 1, 2), Plain(i, "ann", "buy", "market", None, 2)}
MatchInputs == Makers(1) \cup Makers(2) \cup Makers(3) \cup Takers(3) \cup Takers(4)

(* Stops, cascades beyond the cap of 2, and one OCO pair (orders 1 and 2). *)
Stops(i) ==
  {Stop(Plain(i, "bob", "sell", "stop_market", None, 1), p) : p \in {1, 2}}
  \cup {Stop(Plain(i, "bob", "buy", "stop_limit", 3, 1), p) : p \in {1, 2}}
Pair(i, l) == {Linked(o, l) : o \in {Plain(i, "bob", "sell", "oco", 2, 1)}
  \cup {Stop(Plain(i, "bob", "sell", "stop_limit", 1, 1), 2)}}
StopInputs ==
  Stops(1) \cup Pair(1, 2) \cup Stops(2) \cup Pair(2, 1)
  \cup {Plain(3, "bob", "sell", "limit", 2, 1)} \cup Stops(3)
  \cup {Plain(4, "ann", "buy", "limit", p, 2) : p \in {1, 2}}
  \cup {Plain(4, "ann", "sell", "limit", 2, 1)}
  \cup {Plain(5, "ann", "buy", "limit", 3, 2), Plain(5, "ann", "sell", "ioc", 1, 1)}
  \cup {Plain(5, "bob", "buy", "limit", 2, 1)}

(* One small scenario for each statement the code does not meet. *)
FokInputs ==
  {Plain(i, u, "sell", "limit", 2, 1) : i \in {1, 2}, u \in MCUsers}
  \cup Modes({Plain(3, "ann", "buy", "fok", 2, 2)})
OcoInputs ==
  {Linked(Plain(1, "ann", "sell", "oco", 2, 1), 2),
   Linked(Stop(Plain(2, "ann", "sell", "stop_limit", 1, 1), 1), 1)}
  \cup Modes({Plain(3, "ann", "buy", "limit", 2, 1)})
=============================================================================
