-------------------------- MODULE MCMarketStream --------------------------
(* Workloads: book diffs with replay and resubscription; private and       *)
(* ticker channels; heartbeats under traffic.                              *)
EXTENDS MarketStream

MCSubscribes ==
  {[chans |-> <<"book">>, after |-> a] : a \in {None, 0, 2}}
  \cup {[chans |-> c, after |-> None] : c \in {<<"fills", "trade">>, <<"orders">>, <<"ticker">>}}
MCUnsubscribes == {<<"book">>}
Mixed == {"fill", "other", "client", "trade", "fills"}
MCWorkloads ==
  {{"delta", "client", "book", "leave"}, {"delta", "client", "book", "time"},
   Mixed, Mixed \cup {"token"},
   {"order", "client", "orders", "token"}, {"client", "chat", "time", "ticker"}}
  \cup {{"beat", "client", "book", "time", "close", "flush"} \cup p : p \in {{}, {"pong"}}}
=============================================================================
