---------------------------- MODULE MarketMaker ----------------------------
(* The market-data worker: a Binance stream that reconnects, a bounded     *)
(* channel, one loop that stores klines, remembers the newest ticker of    *)
(* each symbol and, on every tick of the refresh interval, cancels and     *)
(* replaces the market maker's quotes through one engine call after the    *)
(* other.  Any error ends the process; its supervisor starts a new one.    *)
(* services/market-data/src                                                *)
EXTENDS Integers, Sequences, FiniteSets, FiniteSetsExt, SequencesExt

CONSTANTS
  None,
  Symbols,
  Mids,             \* bound: mid prices Binance reports
  Levels,           \* DEFAULT_LEVELS
  StaleAfter,       \* stale_after
  RefreshInterval,  \* quote_refresh_interval
  QueueCapacity,    \* BINANCE_EVENT_CAPACITY
  BackoffBase, BackoffMax,   \* RECONNECT_BASE_MS, RECONNECT_MAX_MS
  MaxTime,          \* bound: clock
  MaxEvents,        \* bound: stream messages
  MaxStarts,        \* bound: starts of the process
  Workloads         \* bound: faults explored together

ASSUME MakerAssumption ==
  /\ Mids \subseteq Nat \ {0} /\ Levels \in 1..10
  /\ {StaleAfter, RefreshInterval, QueueCapacity, BackoffBase, BackoffMax} \subseteq Nat \ {0}
  /\ BackoffBase <= BackoffMax
  /\ {MaxTime, MaxEvents, MaxStarts} \subseteq Nat

(* An engine call: cancel every order of a symbol, or place one quote.     *)
Sides == {"buy", "sell"}
Call  == [op: {"cancel_all"}, sym: Symbols]
         \cup [op: {"place"}, sym: Symbols, at: Nat, quote: [side: Sides, k: Nat, price: Int]]

(* None is no ticker, no pass, no request and no answer.                   *)
ASSUME NoneAssumption ==
  /\ None \notin [mid: Mids, at: Nat]
  /\ None \notin [left: SUBSET Symbols, calls: Seq(Call)]
  /\ None \notin [call: Call, round: Nat, answer: {None, "ok", "rejected"}]
  /\ None \notin {"ok", "rejected"}

VARIABLES
  now,
  feed,      \* run_reconnecting_stream: [open, backoff, wake]
  queue,     \* channel of Binance events
  events,    \* messages received so far
  klines,    \* klines table: per symbol the closed flag of the newest candle, None at first
  starts,    \* starts of the process so far
  proc,      \* "up" or "down"
  quoted,    \* quoted_symbols
  latest,    \* latest: per symbol the ticker and when it was recorded
  tick,      \* when quote_interval ticks next
  pass,      \* refresh_quotes in progress: symbols left, engine calls left
  req,       \* the engine call in progress, with its answer once there is one
  orphans,   \* requests whose caller has gone, still on their way
  book,      \* the market maker's orders in the engine
  halted,    \* the engine's halted symbols
  closed,    \* symbols whose row of the markets table says halted
  rounds,    \* history: passes completed and when the last one began; per symbol this
             \* process's last pass over it, or 0, and when that tested its ticker's age
  load

market == <<book, halted, closed>>
vars   == <<now, feed, queue, events, klines, starts, proc, quoted, latest, tick, pass, req,
            orphans, market, rounds, load>>

-----------------------------------------------------------------------------
(* QuoteGenerator::generate, prices in units of mid / BPS_DENOMINATOR.     *)
SpreadBps == 5
PriceAt(mid, side, k) ==
  IF side = "buy" THEN mid * (10000 - SpreadBps * k) ELSE mid * (10000 + SpreadBps * k)
Generate(mid) ==
  [k \in 1..Levels |-> [side |-> "buy", k |-> k, price |-> PriceAt(mid, "buy", k)]]
  \o [k \in 1..Levels |-> [side |-> "sell", k |-> k, price |-> PriceAt(mid, "sell", k)]]

Init ==
  /\ now = 0 /\ feed = [open |-> FALSE, backoff |-> BackoffBase, wake |-> 0]
  /\ queue = <<>> /\ events = 0 /\ klines = [s \in Symbols |-> None]
  /\ starts = 0 /\ proc = "down" /\ quoted = {}
  /\ latest = [s \in Symbols |-> None]
  /\ tick = 0 /\ pass = None /\ req = None /\ orphans = {}
  /\ book = {} /\ halted = {} /\ closed = {}
  /\ rounds = [n |-> 0, began |-> 0, of |-> [s \in Symbols |-> 0], tested |-> [s \in Symbols |-> 0]]
  /\ load \in Workloads

(* main: the markets that the table says trade are quoted; the interval    *)
(* ticks at once.                                                          *)
Start ==
  /\ proc = "down" /\ starts < MaxStarts
  /\ proc' = "up" /\ starts' = starts + 1
  /\ quoted' = Symbols \ closed
  /\ latest' = [s \in Symbols |-> None] /\ queue' = <<>>
  /\ feed' = [open |-> FALSE, backoff |-> BackoffBase, wake |-> now]
  /\ tick' = now
  /\ rounds' = [rounds EXCEPT !.of = [s \in Symbols |-> 0]]
  /\ UNCHANGED <<now, events, klines, pass, req, orphans, market, load>>

(* An error, or ctrl-c: the process is gone, its orders stay.              *)
Exit ==
  /\ proc' = "down" /\ pass' = None /\ req' = None
  /\ feed' = [feed EXCEPT !.open = FALSE]
  /\ UNCHANGED <<now, queue, events, klines, starts, quoted, latest, tick, market, rounds, load>>

Looping == proc = "up" /\ pass = None
Shutdown == "stop" \in load /\ Looping /\ Exit /\ UNCHANGED orphans

(* Time passes at any moment: while events wait in the channel, between    *)
(* two engine calls and during one.                                        *)
Tick ==
  /\ now < MaxTime
  /\ now' = now + 1
  /\ UNCHANGED <<feed, queue, events, klines, starts, proc, quoted, latest, tick, pass, req,
                 orphans, market, rounds, load>>

-----------------------------------------------------------------------------
(* run_reconnecting_stream.                                                *)
FeedVars == <<now, klines, starts, proc, quoted, latest, tick, pass, req, orphans, market, rounds, load>>

Connect ==
  /\ proc = "up" /\ ~feed.open /\ feed.wake <= now
  /\ feed' = [feed EXCEPT !.open = TRUE]
  /\ UNCHANGED <<FeedVars, queue, events>>

(* A closed stream or a failed connect: sleep and double the delay, which  *)
(* is never reset.                                                         *)
Disconnect ==
  /\ "feed" \in load /\ proc = "up" /\ (feed.open \/ feed.wake <= now)
  /\ feed' = [open |-> FALSE, wake |-> now + feed.backoff,
              backoff |-> Min({2 * feed.backoff, BackoffMax})]
  /\ UNCHANGED <<FeedVars, queue, events>>

(* parse_event and send, which waits while the channel is full; a message  *)
(* that is neither a ticker nor a kline is skipped.                        *)
Message(e) ==
  /\ proc = "up" /\ feed.open /\ events < MaxEvents /\ Len(queue) < QueueCapacity
  /\ events' = events + 1
  /\ queue' = IF e = None THEN queue ELSE Append(queue, e)
  /\ UNCHANGED <<FeedVars, feed>>

Tickers == [kind: {"ticker"}, sym: Symbols, mid: Mids]
Candles == [kind: {"kline"}, sym: Symbols, closed: BOOLEAN]

-----------------------------------------------------------------------------
(* handle_event.                                                           *)
RecordTicker ==
  /\ Looping /\ queue # <<>> /\ Head(queue).kind = "ticker"
  /\ LET e == Head(queue) IN
       latest' = IF e.sym \in quoted THEN [latest EXCEPT ![e.sym] = [mid |-> e.mid, at |-> now]]
                 ELSE latest
  /\ queue' = Tail(queue)
  /\ UNCHANGED <<now, feed, events, klines, starts, proc, quoted, tick, pass, req, orphans,
                 market, rounds, load>>

UpsertKline ==
  /\ Looping /\ queue # <<>> /\ Head(queue).kind = "kline"
  /\ klines' = [klines EXCEPT ![Head(queue).sym] = Head(queue).closed]
  /\ queue' = Tail(queue)
  /\ UNCHANGED <<now, feed, events, starts, proc, quoted, latest, tick, pass, req, orphans,
                 market, rounds, load>>

KlineFails ==
  /\ "stop" \in load /\ Looping /\ queue # <<>> /\ Head(queue).kind = "kline"
  /\ Exit /\ UNCHANGED orphans

-----------------------------------------------------------------------------
(* refresh_quotes.                                                         *)
Stale(s) == now - latest[s].at > StaleAfter

(* A mutant: a symbol with an old ticker is quoted like the others.        *)
CallsAlways(s) ==
  <<[op |-> "cancel_all", sym |-> s]>> \o
  [i \in 1..(2 * Levels) |-> [op |-> "place", sym |-> s, at |-> latest[s].at,
                              quote |-> Generate(latest[s].mid)[i]]]

(* A mutant: the old quotes are left in place.                             *)
CallsNoCancel(s) == IF Stale(s) THEN <<>> ELSE Tail(CallsAlways(s))

(* The engine calls for one symbol: cancel, and with a fresh ticker the    *)
(* bids and the asks.                                                      *)
Calls(s) ==
  <<[op |-> "cancel_all", sym |-> s]>> \o
  (IF Stale(s) THEN <<>>
   ELSE [i \in 1..(2 * Levels) |-> [op |-> "place", sym |-> s, at |-> latest[s].at,
                                    quote |-> Generate(latest[s].mid)[i]]])

(* quote_interval.tick: a tick that was missed is made up for at once.     *)
RefreshBegin ==
  /\ Looping /\ tick <= now
  /\ tick' = tick + RefreshInterval
  /\ pass' = [left |-> {s \in Symbols : latest[s] # None}, calls |-> <<>>]
  /\ rounds' = [rounds EXCEPT !.began = now]
  /\ UNCHANGED <<now, feed, queue, events, klines, starts, proc, quoted, latest, req, orphans,
                 market, load>>

(* The age of a symbol's ticker is tested once, before its engine calls.   *)
NextSymbol(s) ==
  /\ pass # None /\ pass.calls = <<>> /\ req = None /\ s \in pass.left
  /\ pass' = [left |-> pass.left \ {s}, calls |-> Calls(s)]
  /\ rounds' = [rounds EXCEPT !.of[s] = rounds.n + 1, !.tested[s] = now]
  /\ UNCHANGED <<now, feed, queue, events, klines, starts, proc, quoted, latest, tick, req,
                 orphans, market, load>>

RefreshEnd ==
  /\ pass # None /\ pass.calls = <<>> /\ req = None /\ pass.left = {}
  /\ pass' = None
  /\ rounds' = [rounds EXCEPT !.n = @ + 1]
  /\ UNCHANGED <<now, feed, queue, events, klines, starts, proc, quoted, latest, tick, req,
                 orphans, market, load>>

(* EngineClient::send on a connection of its own. *)
Send ==
  /\ pass # None /\ pass.calls # <<>> /\ req = None
  /\ req' = [call |-> Head(pass.calls), round |-> rounds.n + 1, answer |-> None]
  /\ UNCHANGED <<now, feed, queue, events, klines, starts, proc, quoted, latest, tick, pass,
                 orphans, market, rounds, load>>

(* The engine, its book and its handlers: cancel_all removes the user's orders in the       *)
(* symbol, a post-only order is refused when it would trade with an order  *)
(* of a user (always possible) or of the market maker, or the symbol is    *)
(* halted.                                                                 *)
Crosses(c) ==
  \E q \in book : q.sym = c.sym /\ q.side # c.quote.side
    /\ (IF c.quote.side = "buy" THEN q.price <= c.quote.price ELSE q.price >= c.quote.price)
Order(c, round) ==
  [sym |-> c.sym, side |-> c.quote.side, k |-> c.quote.k, price |-> c.quote.price,
   at |-> c.at, round |-> round, start |-> starts]
Resting(c, round) ==
  IF c.op = "cancel_all" THEN {q \in book : q.sym # c.sym} ELSE book \cup {Order(c, round)}
Refuses(c) == c.op = "place" /\ (c.sym \in halted \/ Crosses(c))

Execute(ok) ==
  /\ req # None /\ req.answer = None
  /\ ok => ~Refuses(req.call)
  /\ ~ok => Refuses(req.call) \/ (req.call.op = "place" /\ "users" \in load)
  /\ book' = IF ok THEN Resting(req.call, req.round) ELSE book
  /\ req' = [req EXCEPT !.answer = IF ok THEN "ok" ELSE "rejected"]
  /\ UNCHANGED <<now, feed, queue, events, klines, starts, proc, quoted, latest, tick, pass,
                 orphans, halted, closed, rounds, load>>

Acked ==
  /\ req # None /\ req.answer = "ok"
  /\ req' = None /\ pass' = [pass EXCEPT !.calls = Tail(@)]
  /\ UNCHANGED <<now, feed, queue, events, klines, starts, proc, quoted, latest, tick,
                 orphans, market, rounds, load>>

Rejected == req # None /\ req.answer = "rejected" /\ Exit /\ UNCHANGED orphans

(* Io, Timeout: the request may still be on its way. *)
CallFails ==
  /\ "link" \in load /\ req # None /\ req.answer # "rejected"
  /\ Exit
  /\ orphans' \in {orphans, orphans \cup (IF req.answer = None THEN {req} ELSE {})}

OrphanArrives(r) ==
  /\ r \in orphans
  /\ orphans' = orphans \ {r}
  /\ book' = IF Refuses(r.call) THEN book
             ELSE IF r.call.op = "cancel_all" THEN Resting(r.call, r.round)
             ELSE book \cup {[Order(r.call, r.round) EXCEPT !.start = 0]}
  /\ UNCHANGED <<now, feed, queue, events, klines, starts, proc, quoted, latest, tick, pass, req,
                 halted, closed, rounds, load>>

Trade(q) ==
  /\ "users" \in load /\ q \in book
  /\ book' = book \ {q}
  /\ UNCHANGED <<now, feed, queue, events, klines, starts, proc, quoted, latest, tick, pass, req,
                 orphans, halted, closed, rounds, load>>

(* An admin halts or resumes a market: first in the engine, then, in a     *)
(* step of its own, in the markets table, which only Start reads.          *)
Halt(s, on) ==
  /\ "halt" \in load /\ (s \in halted) # on
  /\ halted' = IF on THEN halted \cup {s} ELSE halted \ {s}
  /\ UNCHANGED <<now, feed, queue, events, klines, starts, proc, quoted, latest, tick, pass, req,
                 orphans, book, closed, rounds, load>>

MarketStatus(s) ==
  /\ "halt" \in load /\ (s \in closed) # (s \in halted)
  /\ closed' = IF s \in halted THEN closed \cup {s} ELSE closed \ {s}
  /\ UNCHANGED <<now, feed, queue, events, klines, starts, proc, quoted, latest, tick, pass, req,
                 orphans, book, halted, rounds, load>>

-----------------------------------------------------------------------------
Stream == Connect \/ Disconnect \/ \E e \in Tickers \cup Candles \cup {None} :
            (e # None /\ e.kind = "kline" => "stop" \in load) /\ Message(e)
Loop   == RecordTicker \/ UpsertKline \/ KlineFails \/ RefreshBegin \/ RefreshEnd
          \/ \E s \in Symbols : NextSymbol(s)
Engine == Send \/ Acked \/ Rejected \/ CallFails \/ \E ok \in BOOLEAN : Execute(ok)
World  == \/ \E r \in orphans : OrphanArrives(r)
          \/ \E q \in book : Trade(q)
          \/ \E s \in Symbols : MarketStatus(s) \/ \E on \in BOOLEAN : Halt(s, on)

Next == Tick \/ Start \/ Shutdown \/ Stream \/ Loop \/ Engine \/ World
Spec == Init /\ [][Next]_vars

-----------------------------------------------------------------------------
(* Type invariant of the worker. *)
MakerTypeOK ==
  /\ now \in 0..MaxTime /\ proc \in {"up", "down"} /\ Len(queue) <= QueueCapacity
  /\ feed.backoff \in BackoffBase..BackoffMax
  /\ \A s \in Symbols : latest[s] # None => latest[s].at <= now
  /\ proc = "down" => pass = None /\ req = None

(* When a pass is over, however long its engine calls took, every quote of *)
(* the living process is in a symbol that this very pass looked at, and    *)
(* comes from a ticker that was no older than stale_after at that look:    *)
(* once the feed has been silent for longer, the next pass leaves none of  *)
(* the process's quotes, through reconnects, restarts, refused quotes and  *)
(* trades.  How long a pass lasts, and so a quote's age in the book, is up *)
(* to the engine: up to 21 calls per symbol, each with its own timeout.    *)
QuotesNotStale ==
  proc = "up" /\ pass = None => \A q \in book : q.start = starts =>
    /\ rounds.tested[q.sym] >= rounds.began
    /\ rounds.tested[q.sym] - q.at <= StaleAfter

(* When a pass is over, the market maker has one set of quotes per symbol  *)
(* it has refreshed: all its orders there are from the last pass, no level *)
(* twice, and nothing is left from passes that broke off or from processes *)
(* that died.  An order whose request outlived its process (start = 0) is  *)
(* not counted: it may reach the engine after the pass has cancelled the   *)
(* symbol's orders, and then stands beside the set until the next pass.    *)
OneQuoteSet ==
  MakerTypeOK /\ (proc = "up" /\ pass = None => \A s \in Symbols : rounds.of[s] # 0 =>
    LET mine == {q \in book : q.sym = s /\ q.start # 0} IN
    /\ \A q \in mine : q.round = rounds.of[s] /\ q.start = starts
    /\ \A p, q \in mine : p.side = q.side /\ p.k = q.k => p = q)

-----------------------------------------------------------------------------
(* A statement of the repository that the code does not meet. *)

(* PRD 16.2: "If Binance feed lags > 30s, MM stops quoting".  A refused    *)
(* quote ends the process, its other quotes stay in the book, and the next *)
(* process leaves them alone until a ticker arrives.                       *)
StopsQuoting ==
  proc = "up" /\ pass = None => \A q \in book : rounds.began - q.at <= StaleAfter
=============================================================================
