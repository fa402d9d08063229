------------------------- MODULE MarketMakerProofs -------------------------
(* Proofs about the market maker: at most one set of quotes per symbol, and *)
(* after every pass no quote of the living process from a ticker that was   *)
(* too old when the pass looked at it.                                      *)
EXTENDS MarketMaker, SequenceTheorems, TLAPS

-----------------------------------------------------------------------------
(* The inductive invariant.                                                *)

Quote == [sym: Symbols, side: Sides, k: Nat, price: Int, at: Nat, round: Nat, start: Nat]
Req   == [call: Call, round: Nat, answer: {None, "ok", "rejected"}]
Rounds == [n: Nat, began: Nat, of: [Symbols -> Nat], tested: [Symbols -> Nat]]

Types ==
  /\ now \in 0..MaxTime /\ starts \in Nat /\ tick \in Nat /\ proc \in {"up", "down"}
  /\ feed \in [open: BOOLEAN, backoff: BackoffBase..BackoffMax, wake: Nat]
  /\ queue \in Seq(Tickers \cup Candles) /\ Len(queue) <= QueueCapacity
  /\ latest \in [Symbols -> [mid: Mids, at: Nat] \cup {None}]
  /\ \A s \in Symbols : latest[s] # None => latest[s].at <= now
  /\ pass \in [left: SUBSET Symbols, calls: Seq(Call)] \cup {None}
  /\ req \in Req \cup {None} /\ orphans \subseteq Req
  /\ book \subseteq Quote
  /\ rounds \in Rounds /\ rounds.began <= now

(* The cancel of a symbol's old quotes has not been executed yet. *)
Pending(s) ==
  /\ pass # None /\ pass.calls # <<>>
  /\ pass.calls[1].op = "cancel_all" /\ pass.calls[1].sym = s
  /\ ~(req # None /\ req.answer = "ok")

Mine(s) == {q \in book : q.sym = s /\ q.start # 0}

Process ==
  /\ proc = "up" => starts > 0
  /\ proc = "down" => pass = None /\ req = None
  /\ \A q \in book : q.start <= starts

(* This pass, or the last one, looked at the symbol and found the ticker    *)
(* recorded at that time fresh enough.                                      *)
Tested(s, at) == rounds.tested[s] >= rounds.began /\ rounds.tested[s] - at <= StaleAfter

Passing ==
  /\ req # None => pass # None /\ pass.calls # <<>> /\ req.call = pass.calls[1]
                   /\ req.round = rounds.n + 1
  /\ pass # None =>
       /\ \A s \in pass.left : latest[s] # None
       /\ \A i \in 1..Len(pass.calls) : LET c == pass.calls[i] IN
            /\ latest[c.sym] # None /\ rounds.of[c.sym] = rounds.n + 1
            /\ c.op = "place" => Tested(c.sym, c.at)
            /\ i > 1 => c.op = "place"

(* A quote of this process, and its symbol's place in the pass. *)
FreshAt(q) ==
  Tested(q.sym, q.at) \/ (pass # None /\ (q.sym \in pass.left \/ Pending(q.sym)))

Fresh ==
  proc = "up" => \A q \in book : q.start = starts => latest[q.sym] # None /\ FreshAt(q)

LastPass ==
  proc = "up" => \A s \in Symbols : rounds.of[s] # 0 /\ ~Pending(s) =>
    \A q \in Mine(s) : q.round = rounds.of[s] /\ q.start = starts

(* All quotes of a symbol, placed and to be placed, come from one ticker. *)
FromTicker(s, m, a) ==
  /\ pass # None => \A i \in 1..Len(pass.calls) : LET c == pass.calls[i] IN
       c.op = "place" /\ c.sym = s =>
         c.at = a /\ c.quote.price = PriceAt(m, c.quote.side, c.quote.k)
  /\ rounds.of[s] # 0 /\ ~Pending(s) => \A q \in Mine(s) :
       q.at = a /\ q.price = PriceAt(m, q.side, q.k)

OneTicker == proc = "up" => \A s \in Symbols : \E m \in Nat, a \in Nat : FromTicker(s, m, a)

MakerInv == Types /\ Process /\ Passing /\ Fresh /\ LastPass /\ OneTicker

-----------------------------------------------------------------------------
(* The quotes of one ticker.                                               *)

(* A price of a whole mid is a whole number of basis-point units.          *)
LEMMA PriceWhole ==
  ASSUME NEW m \in Nat, NEW side, NEW k \in Nat
  PROVE  PriceAt(m, side, k) \in Int
BY DEF PriceAt, SpreadBps

(* QuoteGenerator::generate: every quote is priced from the mid, its side   *)
(* and its level.                                                          *)
LEMMA GenerateShape ==
  ASSUME NEW m \in Nat
  PROVE  \A i \in 1..(2 * Levels) :
           /\ Generate(m)[i] \in [side: Sides, k: Nat, price: Int]
           /\ Generate(m)[i].price = PriceAt(m, Generate(m)[i].side, Generate(m)[i].k)
<1> DEFINE b == [k \in 1..Levels |-> [side |-> "buy", k |-> k, price |-> PriceAt(m, "buy", k)]]
           a == [k \in 1..Levels |-> [side |-> "sell", k |-> k, price |-> PriceAt(m, "sell", k)]]
           Quotes == [side: Sides, k: Nat, price: Int]
<1>l. Levels \in Nat  BY MakerAssumption
<1>b. b \in Seq(Quotes) /\ Len(b) = Levels
  <2>1. \A k \in 1..Levels : b[k] \in Quotes  BY <1>l, PriceWhole DEF Sides
  <2> QED  BY <2>1, <1>l
<1>a. a \in Seq(Quotes) /\ Len(a) = Levels
  <2>1. \A k \in 1..Levels : a[k] \in Quotes  BY <1>l, PriceWhole DEF Sides
  <2> QED  BY <2>1, <1>l
<1>1. ASSUME NEW i \in 1..(2 * Levels)
      PROVE  \/ i \in 1..Levels /\ Generate(m)[i] = b[i]
             \/ i - Levels \in 1..Levels /\ Generate(m)[i] = a[i - Levels]
  <2> HIDE DEF b, a
  <2>1. Generate(m) = b \o a  BY DEF Generate, b, a
  <2>2. CASE i <= Levels
    <3>1. i \in 1..Len(b)  BY <1>1, <2>2, <1>l, <1>b
    <3>2. (b \o a)[i] = b[i]  BY <3>1, <1>b, <1>a
    <3> QED  BY <3>1, <3>2, <2>1, <1>b
  <2>3. CASE i > Levels
    <3>1. i \in (Len(b) + 1)..(Len(b) + Len(a)) /\ i - Levels \in 1..Levels  BY <1>1, <2>3, <1>l, <1>b, <1>a
    <3>0. \A j \in 1..(Len(b) + Len(a)) : (b \o a)[j] = IF j <= Len(b) THEN b[j] ELSE a[j - Len(b)]
      BY <1>b, <1>a, ConcatProperties
    <3>3. i \in 1..(Len(b) + Len(a)) /\ ~(i <= Len(b))  BY <2>3, <1>1, <1>b, <1>a, <1>l
    <3>2. (b \o a)[i] = a[i - Len(b)]  BY ONLY <3>0, <3>3
    <3> QED  BY <3>1, <3>2, <2>1, <1>b
  <2> QED  BY <1>1, <1>l, <2>2, <2>3
<1>2. \A k \in 1..Levels : b[k] \in Quotes /\ b[k].price = PriceAt(m, b[k].side, b[k].k)
  BY <1>l, PriceWhole DEF Sides
<1>3. \A k \in 1..Levels : a[k] \in Quotes /\ a[k].price = PriceAt(m, a[k].side, a[k].k)
  BY <1>l, PriceWhole DEF Sides
<1> HIDE DEF b, a, Quotes
<1>4. \A i \in 1..(2 * Levels) : 
           /\ Generate(m)[i] \in Quotes
           /\ Generate(m)[i].price = PriceAt(m, Generate(m)[i].side, Generate(m)[i].k)
  BY <1>1, <1>2, <1>3
<1> QED  BY <1>4 DEF Quotes

(* refresh_quotes for one symbol: the cancel comes first, then quotes, all  *)
(* of them from the symbol's ticker, which is fresh.                       *)
LEMMA CallsShape ==
  ASSUME Types, NEW s \in Symbols, latest[s] # None
  PROVE  /\ Calls(s) \in Seq(Call) /\ Calls(s) # <<>>
         /\ Calls(s)[1].op = "cancel_all" /\ Calls(s)[1].sym = s
         /\ \A i \in 1..Len(Calls(s)) : LET c == Calls(s)[i] IN
              /\ c.sym = s
              /\ i > 1 => c.op = "place"
              /\ c.op = "place" => c.at = latest[s].at /\ now - c.at <= StaleAfter
                                   /\ c.quote.price = PriceAt(latest[s].mid, c.quote.side, c.quote.k)
<1> DEFINE h == [op |-> "cancel_all", sym |-> s]
           f == [i \in 1..(2 * Levels) |-> [op |-> "place", sym |-> s, at |-> latest[s].at,
                                            quote |-> Generate(latest[s].mid)[i]]]
<1>l. Levels \in Nat /\ StaleAfter \in Nat  BY MakerAssumption
<1>t. latest[s].mid \in Nat /\ latest[s].at \in Nat /\ now \in Nat
  <2>1. Mids \subseteq Nat /\ MaxTime \in Nat  BY MakerAssumption
  <2>2. latest[s] \in [mid: Mids, at: Nat]  BY DEF Types
  <2>3. now \in 0..MaxTime  BY DEF Types
  <2>4. latest[s].mid \in Mids /\ latest[s].at \in Nat  BY <2>2
  <2>5. now \in Nat  BY <2>1, <2>3
  <2> QED  BY <2>1, <2>4, <2>5
<1>h. h \in Call  BY DEF Call
<1>g. \A i \in 1..(2 * Levels) :
        /\ Generate(latest[s].mid)[i] \in [side: Sides, k: Nat, price: Int]
        /\ Generate(latest[s].mid)[i].price
             = PriceAt(latest[s].mid, Generate(latest[s].mid)[i].side, Generate(latest[s].mid)[i].k)
  BY <1>t, GenerateShape
<1>f. f \in Seq(Call) /\ Len(f) = 2 * Levels
  <2>1. \A i \in 1..(2 * Levels) : f[i] \in Call  BY <1>g, <1>t DEF Call
  <2> QED  BY <2>1, <1>l
<1>e. \A i \in 1..(2 * Levels) :
        /\ f[i].op = "place" /\ f[i].sym = s /\ f[i].at = latest[s].at
        /\ f[i].quote.price = PriceAt(latest[s].mid, f[i].quote.side, f[i].quote.k)
  BY <1>g
<1>p. PICK hs : hs = <<h>>  OBVIOUS
<1>q. hs \in Seq(Call) /\ Len(hs) = 1 /\ hs[1] = h  BY <1>p, <1>h
<1>r. h.op = "cancel_all" /\ h.sym = s  OBVIOUS
<1>1. CASE Stale(s)
  <2>1. Calls(s) = hs  BY <1>1, <1>p, <1>q DEF Calls
  <2> HIDE DEF h, f
  <2> QED  BY <2>1, <1>q, <1>r
<1>2. CASE ~Stale(s)
  <2>1. Calls(s) = hs \o f  BY <1>2, <1>p DEF Calls
  <2>2. now - latest[s].at <= StaleAfter  BY <1>2, <1>l, <1>t DEF Stale
  <2> HIDE DEF h, f
  <2>3. Calls(s) \in Seq(Call) /\ Len(Calls(s)) = 1 + 2 * Levels /\ Calls(s)[1] = h
    <3>1. hs \o f \in Seq(Call)  BY <1>q, <1>f
    <3>4. Len(hs \o f) = Len(hs) + Len(f)  BY <1>q, <1>f, ConcatProperties
    <3>2. Len(hs \o f) = 1 + 2 * Levels  BY ONLY <3>4, <1>q, <1>f
    <3>3. (hs \o f)[1] = hs[1]  BY <1>q, <1>f, <1>l, <3>2, ConcatProperties
    <3> QED  BY <2>1, <3>1, <3>2, <3>3, <1>q
  <2>4. \A i \in 2..Len(Calls(s)) : i - 1 \in 1..(2 * Levels) /\ Calls(s)[i] = f[i - 1]
    BY <2>1, <2>3, <1>q, <1>f, <1>l
  <2>5. \A i \in 1..Len(Calls(s)) : i = 1 \/ i \in 2..Len(Calls(s))  BY <2>3, <1>l
  <2>6. Calls(s) # <<>>  BY <2>3, <1>l
  <2>7. ASSUME NEW i \in 1..Len(Calls(s)) PROVE
           LET c == Calls(s)[i] IN
              /\ c.sym = s
              /\ i > 1 => c.op = "place"
              /\ c.op = "place" => c.at = latest[s].at /\ now - c.at <= StaleAfter
                                   /\ c.quote.price = PriceAt(latest[s].mid, c.quote.side, c.quote.k)
    <3>1. CASE i = 1  BY <3>1, <2>3, <1>r
    <3>2. CASE i \in 2..Len(Calls(s))  BY <3>2, <2>4, <1>e, <2>2
    <3> QED  BY <3>1, <3>2, <2>5
  <2> QED  BY <2>3, <2>6, <2>7, <1>r
<1> QED  BY <1>1, <1>2

-----------------------------------------------------------------------------
(* One lemma per action.                                                   *)

(* The constants are what their names say. *)
LEMMA Bounds ==
  /\ StaleAfter \in Nat /\ RefreshInterval \in Nat /\ BackoffBase \in Nat /\ BackoffMax \in Nat
  /\ BackoffBase > 0 /\ RefreshInterval > 0 /\ BackoffBase <= BackoffMax
  /\ MaxTime \in Nat /\ Mids \subseteq Nat
BY MakerAssumption

(* The orders, the calls and what is pending are as before. *)
LEMMA OneTickerKept ==
  ASSUME OneTicker, UNCHANGED <<proc, pass, book, rounds>>, \A s : Pending(s)' <=> Pending(s)
  PROVE  OneTicker'
<1>1. \A s : Mine(s)' = Mine(s)  BY DEF Mine
<1>2. \A s, m, a : FromTicker(s, m, a)' <=> FromTicker(s, m, a)  BY <1>1 DEF FromTicker
<1> QED  BY <1>2 DEF OneTicker

(* What the invariant says beyond the types does not look at the stream,    *)
(* the tables or the orphans.                                              *)
LEMMA CoreKept ==
  ASSUME Process, Passing, Fresh, LastPass, OneTicker,
         UNCHANGED <<now, starts, tick, proc, latest, pass, req, book, rounds>>
  PROVE  Process' /\ Passing' /\ Fresh' /\ LastPass' /\ OneTicker'
<1>1. Process'  BY DEF Process
<1>2. Passing'  BY DEF Passing, Tested
<1>3. Fresh'  BY DEF Fresh, FreshAt, Pending, Tested
<1>4. LastPass'  BY DEF LastPass, Pending, Mine
<1>p. \A s : Pending(s)' <=> Pending(s)  BY DEF Pending
<1>5. OneTicker'  BY <1>p, OneTickerKept
<1> QED  BY <1>1, <1>2, <1>3, <1>4, <1>5

(* At first there is no process and no order. *)
LEMMA InitHolds ==
  ASSUME Init
  PROVE  MakerInv
<1>1. Types
  <2>1. feed \in [open: BOOLEAN, backoff: BackoffBase..BackoffMax, wake: Nat]  BY Bounds DEF Init
  <2>2. queue \in Seq(Tickers \cup Candles) /\ Len(queue) <= QueueCapacity
    BY MakerAssumption DEF Init
  <2>3. rounds \in Rounds /\ rounds.began <= now  BY DEF Init, Rounds
  <2> QED  BY Bounds, <2>1, <2>2, <2>3 DEF Init, Types
<1>2. Process /\ Passing  BY DEF Init, Process, Passing
<1>3. Fresh /\ LastPass /\ OneTicker  BY DEF Init, Fresh, LastPass, OneTicker
<1> QED  BY <1>1, <1>2, <1>3 DEF MakerInv

(* The clock moves at any moment: nothing but the types looks at it. *)
LEMMA TickKeeps ==
  ASSUME MakerInv, Tick
  PROVE  MakerInv'
<1> USE DEF MakerInv
<1>u. UNCHANGED <<feed, queue, starts, proc, latest, tick, pass, req, orphans, book, rounds>>
  BY DEF Tick, market
<1>n. now \in Nat /\ now' = now + 1  BY Bounds DEF Types, Tick
<1>1. Types'
  <2>1. now' \in 0..MaxTime  BY Bounds DEF Types, Tick
  <2>2. \A s \in Symbols : latest'[s] # None => latest'[s].at <= now'
    <3>1. \A s \in Symbols : latest[s] # None => latest[s].at \in Nat /\ latest[s].at <= now
      BY DEF Types
    <3> QED  BY <3>1, <1>u, <1>n
  <2>3. rounds'.began <= now'
    <3>1. rounds.began \in Nat /\ rounds.began <= now  BY DEF Types, Rounds
    <3> QED  BY <3>1, <1>u, <1>n
  <2> QED  BY <2>1, <2>2, <2>3, <1>u DEF Types
<1>2. Process'  BY <1>u DEF Process
<1>3. Passing'  BY <1>u DEF Passing, Tested
<1>4. Fresh'  BY <1>u DEF Fresh, FreshAt, Pending, Tested
<1>5. LastPass'  BY <1>u DEF LastPass, Pending, Mine
<1>p. \A s : Pending(s)' <=> Pending(s)  BY <1>u DEF Pending
<1>6. OneTicker'  BY <1>u, <1>p, OneTickerKept
<1> QED  BY <1>1, <1>2, <1>3, <1>4, <1>5, <1>6

(* A new process owns no order yet. *)
LEMMA StartKeeps ==
  ASSUME MakerInv, Start
  PROVE  MakerInv'
<1> USE DEF MakerInv
<1>0. pass = None /\ req = None /\ pass' = None /\ req' = None  BY DEF Start, Process
<1>s. starts \in Nat /\ starts' = starts + 1 /\ book' = book /\ now' = now /\ now \in Nat
  BY Bounds DEF Start, Types, market
<1>1. Types'
  <2>1. feed' \in [open: BOOLEAN, backoff: BackoffBase..BackoffMax, wake: Nat]
    BY <1>s, Bounds DEF Start
  <2>2. queue' \in Seq(Tickers \cup Candles) /\ Len(queue') <= QueueCapacity
    BY MakerAssumption DEF Start
  <2>3. rounds' \in Rounds /\ rounds'.began <= now'  BY DEF Start, Types, Rounds, market
  <2>4. latest' \in [Symbols -> [mid: Mids, at: Nat] \cup {None}]
        /\ \A s \in Symbols : latest'[s] = None
    BY DEF Start
  <2> QED  BY <1>s, <2>1, <2>2, <2>3, <2>4 DEF Start, Types, market
<1>2. Process'
  <2>1. \A q \in book : q.start \in Nat  BY DEF Types, Quote
  <2>2. \A q \in book : q.start <= starts  BY DEF Process
  <2> QED  BY <1>0, <1>s, <2>1, <2>2 DEF Process, Start, market
<1>3. Passing'  BY <1>0 DEF Passing
<1>4. Fresh'
  <2>1. \A q \in book : q.start \in Nat  BY DEF Types, Quote
  <2>2. \A q \in book : q.start <= starts  BY DEF Process
  <2>3. \A q \in book' : q.start # starts'  BY <1>s, <2>1, <2>2
  <2> QED  BY <2>3 DEF Fresh
<1>r. \A s \in Symbols : rounds'.of[s] = 0  BY DEF Start, Types, Rounds, market
<1>5. LastPass'  BY <1>r DEF LastPass
<1>6. OneTicker'
  <2>1. \A s \in Symbols : FromTicker(s, 0, 0)'  BY <1>r, <1>0 DEF FromTicker
  <2> QED  BY <2>1 DEF OneTicker
<1> QED  BY <1>1, <1>2, <1>3, <1>4, <1>5, <1>6

(* A process that is gone leaves its orders, and nothing in progress. *)
LEMMA ExitKeeps ==
  ASSUME MakerInv, Exit, orphans' \subseteq Req
  PROVE  MakerInv'
<1> USE DEF MakerInv
<1>1. Types'
  <2>1. feed' \in [open: BOOLEAN, backoff: BackoffBase..BackoffMax, wake: Nat]
    BY DEF Exit, Types
  <2> QED  BY <2>1 DEF Exit, Types, market
<1>2. Process' /\ Passing'  BY DEF Exit, Process, Passing, market
<1>3. Fresh' /\ LastPass' /\ OneTicker'  BY DEF Exit, Fresh, LastPass, OneTicker
<1> QED  BY <1>1, <1>2, <1>3

(* The doubled delay stays in its range. *)
LEMMA DelayInRange ==
  ASSUME NEW b \in BackoffBase..BackoffMax
  PROVE  Min({2 * b, BackoffMax}) \in BackoffBase..BackoffMax
<1> DEFINE D == {2 * b, BackoffMax}
<1>b. b \in Nat /\ BackoffBase <= b  BY Bounds
<1>1. \E x \in D : \A y \in D : x <= y
  <2>1. CASE 2 * b <= BackoffMax  BY <1>b, <2>1, Bounds
  <2>2. CASE ~(2 * b <= BackoffMax)  BY <1>b, <2>2, Bounds
  <2> QED  BY <2>1, <2>2
<1> HIDE DEF D
<1>2. Min(D) \in D /\ \A y \in D : Min(D) <= y  BY <1>1 DEF Min
<1>3. Min(D) \in {2 * b, BackoffMax} /\ Min(D) <= BackoffMax  BY <1>2 DEF D
<1>4. Min(D) \in BackoffBase..BackoffMax  BY <1>3, <1>b, Bounds
<1> QED  BY <1>4 DEF D

(* The stream opens and breaks. *)
LEMMA FeedKeeps ==
  ASSUME MakerInv, Connect \/ Disconnect
  PROVE  MakerInv'
<1> USE DEF MakerInv
<1>1. UNCHANGED <<now, queue, starts, proc, latest, tick, pass, req, orphans, book, rounds>>
  BY DEF Connect, Disconnect, FeedVars, market
<1>n. now \in Nat  BY Bounds DEF Types
<1>2. feed' \in [open: BOOLEAN, backoff: BackoffBase..BackoffMax, wake: Nat]
  <2>1. CASE Connect  BY <2>1 DEF Connect, Types
  <2>2. CASE Disconnect
    <3>1. feed.backoff \in BackoffBase..BackoffMax  BY DEF Types
    <3>2. Min({2 * feed.backoff, BackoffMax}) \in BackoffBase..BackoffMax  BY <3>1, DelayInRange
    <3>3. now + feed.backoff \in Nat  BY <3>1, <1>n, Bounds
    <3> QED  BY <2>2, <3>2, <3>3 DEF Disconnect
  <2> QED  BY <2>1, <2>2
<1>3. Types'  BY <1>1, <1>2 DEF Types
<1> QED  BY <1>1, <1>3, CoreKept

(* A message waits for room in the channel. *)
LEMMA MessageKeeps ==
  ASSUME MakerInv, NEW e \in Tickers \cup Candles \cup {None}, Message(e)
  PROVE  MakerInv'
<1> USE DEF MakerInv
<1>1. UNCHANGED <<now, feed, starts, proc, latest, tick, pass, req, orphans, book, rounds>>
  BY DEF Message, FeedVars, market
<1>2. queue' \in Seq(Tickers \cup Candles) /\ Len(queue') <= QueueCapacity
  <2>1. queue \in Seq(Tickers \cup Candles) /\ Len(queue) \in Nat  BY DEF Types
  <2>2. QueueCapacity \in Nat  BY MakerAssumption
  <2>3. CASE e = None  BY <2>3 DEF Message, Types
  <2>4. CASE e # None
    <3>1. queue' = Append(queue, e) /\ e \in Tickers \cup Candles  BY <2>4 DEF Message
    <3>2. Append(queue, e) \in Seq(Tickers \cup Candles)  BY <2>1, <3>1
    <3>3. Len(Append(queue, e)) = Len(queue) + 1  BY <2>1, <3>1
    <3>4. Len(queue) < QueueCapacity  BY DEF Message
    <3> QED  BY <3>1, <3>2, <3>3, <3>4, <2>1, <2>2
  <2> QED  BY <2>3, <2>4
<1>3. Types'  BY <1>1, <1>2 DEF Types
<1> QED  BY <1>1, <1>3, CoreKept

(* Taking an event makes room. *)
LEMMA TailKeeps ==
  ASSUME Types, queue # <<>>
  PROVE  /\ Head(queue) \in Tickers \cup Candles
         /\ Tail(queue) \in Seq(Tickers \cup Candles) /\ Len(Tail(queue)) <= QueueCapacity
<1>1. queue \in Seq(Tickers \cup Candles) /\ Len(queue) \in Nat /\ Len(queue) <= QueueCapacity
  BY DEF Types
<1>2. QueueCapacity \in Nat  BY MakerAssumption
<1>3. Head(queue) \in Tickers \cup Candles  BY <1>1
<1>4. Tail(queue) \in Seq(Tickers \cup Candles) /\ Len(Tail(queue)) = Len(queue) - 1  BY <1>1
<1> QED  BY <1>1, <1>2, <1>3, <1>4

(* A candle changes only its table. *)
LEMMA KlineKeeps ==
  ASSUME MakerInv, UpsertKline
  PROVE  MakerInv'
<1> USE DEF MakerInv
<1>1. UNCHANGED <<now, feed, starts, proc, latest, tick, pass, req, orphans, book, rounds>>
  BY DEF UpsertKline, market
<1>2. queue' \in Seq(Tickers \cup Candles) /\ Len(queue') <= QueueCapacity
  BY TailKeeps DEF UpsertKline
<1>3. Types'  BY <1>1, <1>2 DEF Types
<1> QED  BY <1>1, <1>3, CoreKept

(* A halt or a resume changes no order. *)
LEMMA HaltKeeps ==
  ASSUME MakerInv, NEW s \in Symbols, MarketStatus(s) \/ \E on \in BOOLEAN : Halt(s, on)
  PROVE  MakerInv'
<1> USE DEF MakerInv
<1>1. UNCHANGED <<now, feed, queue, starts, proc, latest, tick, pass, req, orphans, book, rounds>>
  BY DEF Halt, MarketStatus
<1>3. Types'  BY <1>1 DEF Types
<1> QED  BY <1>1, <1>3, CoreKept

(* A ticker replaces the one before; no pass is under way. *)
LEMMA RecordTickerKeeps ==
  ASSUME MakerInv, RecordTicker
  PROVE  MakerInv'
<1> USE DEF MakerInv
<1>1. UNCHANGED <<now, feed, starts, proc, tick, pass, req, orphans, book, rounds>>
  BY DEF RecordTicker, market
<1>0. pass = None /\ req = None  BY DEF RecordTicker, Looping, Passing
<1>2. queue' \in Seq(Tickers \cup Candles) /\ Len(queue') <= QueueCapacity
  BY TailKeeps DEF RecordTicker
<1>n. now \in Nat  BY Bounds DEF Types
<1>3. /\ latest' \in [Symbols -> [mid: Mids, at: Nat] \cup {None}]
      /\ \A s \in Symbols : latest'[s] # None => latest'[s].at <= now
      /\ \A s \in Symbols : latest[s] # None => latest'[s] # None
  <2>1. CASE latest' = latest  BY <2>1 DEF Types
  <2>2. CASE latest' # latest
    <3>1. PICK e : e = Head(queue)  OBVIOUS
    <3>2. e \in Tickers
      <4>1. e.kind = "ticker" /\ e \in Tickers \cup Candles  BY <3>1, TailKeeps DEF RecordTicker
      <4> QED  BY <4>1 DEF Tickers, Candles
    <3>3. PICK t : t = [mid |-> e.mid, at |-> now]  OBVIOUS
    <3>4. e.sym \in Symbols /\ e.mid \in Mids  BY <3>2 DEF Tickers
    <3>5. t \in [mid: Mids, at: Nat] /\ t.at = now  BY <3>3, <3>4, <1>n
    <3>6. t # None  BY <3>5, NoneAssumption
    <3>7. latest' = [latest EXCEPT ![e.sym] = t]  BY <2>2, <3>1, <3>3 DEF RecordTicker
    <3>8. \A s \in Symbols : latest'[s] = IF s = e.sym THEN t ELSE latest[s]
      BY <3>7, <3>4 DEF Types
    <3>9. latest' \in [Symbols -> [mid: Mids, at: Nat] \cup {None}]
      BY <3>7, <3>5, <3>4 DEF Types
    <3> QED  BY <3>8, <3>9, <3>6, <3>5, <1>n DEF Types
  <2> QED  BY <2>1, <2>2
<1>4. Types'  BY <1>1, <1>2, <1>3 DEF Types
<1>5. Process' /\ Passing'  BY <1>0, <1>1 DEF Process, Passing
<1>6. Fresh'
  <2>1. \A q \in book : q.sym \in Symbols  BY DEF Types, Quote
  <2> QED  BY <1>0, <1>1, <1>3, <2>1 DEF Fresh, FreshAt, Tested
<1>7. LastPass'  BY <1>1 DEF LastPass, Pending, Mine
<1>p. \A s : Pending(s)' <=> Pending(s)  BY <1>1 DEF Pending
<1>8. OneTicker'  BY <1>1, <1>p, OneTickerKept
<1> QED  BY <1>4, <1>5, <1>6, <1>7, <1>8

-----------------------------------------------------------------------------
(* A pass: refresh_quotes.                                                 *)

(* A pass is not None. *)
LEMMA PassSome ==
  ASSUME NEW l \in SUBSET Symbols, NEW c \in Seq(Call)
  PROVE  [left |-> l, calls |-> c] # None
BY NoneAssumption

(* Every own quote has a ticker, so its symbol is on the list. *)
LEMMA RefreshBeginKeeps ==
  ASSUME MakerInv, RefreshBegin
  PROVE  MakerInv'
<1> USE DEF MakerInv
<1>1. UNCHANGED <<now, feed, queue, starts, proc, latest, req, orphans, book>>
  BY DEF RefreshBegin, market
<1>0. pass = None /\ req = None /\ proc = "up"  BY DEF RefreshBegin, Looping, Passing
<1>n. now \in Nat  BY Bounds DEF Types
<1>2. /\ pass' = [left |-> {s \in Symbols : latest[s] # None}, calls |-> <<>>]
      /\ tick' = tick + RefreshInterval
  BY DEF RefreshBegin
<1>r. /\ rounds' \in Rounds /\ rounds'.began = now /\ rounds'.of = rounds.of
      /\ rounds'.n = rounds.n
  BY <1>n DEF RefreshBegin, Types, Rounds
<1>e. <<>> \in Seq(Call) /\ Len(<<>>) = 0  OBVIOUS
<1>3. /\ pass' \in [left: SUBSET Symbols, calls: Seq(Call)] /\ pass' # None
      /\ pass'.left = {s \in Symbols : latest[s] # None} /\ pass'.calls = <<>>
  BY <1>2, <1>e, PassSome
<1>4. Types'  BY <1>1, <1>2, <1>3, <1>n, <1>r, Bounds DEF Types
<1>5. Process'  BY <1>0, <1>1 DEF Process
<1>6. Passing'
  <2>1. \A i \in 1..Len(pass'.calls) : FALSE  BY <1>3, <1>e
  <2> QED  BY <1>0, <1>1, <1>2, <1>3, <2>1 DEF Passing
<1>7. Fresh'
  <2>1. \A q \in book : q.sym \in Symbols  BY DEF Types, Quote
  <2> QED  BY <1>0, <1>1, <1>3, <2>1 DEF Fresh, FreshAt, Tested
<1>p. \A s : ~Pending(s) /\ ~Pending(s)'  BY <1>0, <1>3 DEF Pending
<1>8. LastPass'  BY <1>1, <1>p, <1>r DEF LastPass, Mine
<1>9. OneTicker'
  <2>1. \A i \in 1..Len(pass'.calls) : FALSE  BY <1>3, <1>e
  <2>2. \A s : Mine(s)' = Mine(s)  BY <1>1 DEF Mine
  <2>3. \A s \in Symbols : \A m, a : FromTicker(s, m, a) => FromTicker(s, m, a)'
    BY <1>1, <1>p, <1>r, <2>1, <2>2 DEF FromTicker
  <2> QED  BY <1>1, <2>3 DEF OneTicker
<1> QED  BY <1>4, <1>5, <1>6, <1>7, <1>8, <1>9

(* The calls for a symbol begin with the cancel of what it has. *)
LEMMA NextSymbolKeeps ==
  ASSUME MakerInv, NEW s \in Symbols, NextSymbol(s)
  PROVE  MakerInv'
<1> USE DEF MakerInv
<1>1. UNCHANGED <<now, feed, queue, starts, proc, latest, tick, req, orphans, book>>
  BY DEF NextSymbol, market
<1>0. pass # None /\ req = None /\ pass.calls = <<>> /\ s \in pass.left /\ proc = "up"
  BY DEF NextSymbol, Process, Types
<1>t. pass \in [left: SUBSET Symbols, calls: Seq(Call)]  BY <1>0 DEF Types
<1>l. latest[s] # None  BY <1>0 DEF Passing
<1>c. PICK cs : cs = Calls(s)  OBVIOUS
<1>2. /\ cs \in Seq(Call) /\ cs # <<>> /\ cs[1].op = "cancel_all" /\ cs[1].sym = s
      /\ \A i \in 1..Len(cs) :
              /\ cs[i].sym = s
              /\ i > 1 => cs[i].op = "place"
              /\ cs[i].op = "place" =>
                   cs[i].at = latest[s].at /\ now - cs[i].at <= StaleAfter
                   /\ cs[i].quote.price = PriceAt(latest[s].mid, cs[i].quote.side, cs[i].quote.k)
  BY <1>l, <1>c, CallsShape
<1>3. /\ pass' \in [left: SUBSET Symbols, calls: Seq(Call)] /\ pass' # None
      /\ pass'.left = pass.left \ {s} /\ pass'.calls = cs
  <2>1. pass' = [left |-> pass.left \ {s}, calls |-> cs]  BY <1>c DEF NextSymbol
  <2>2. pass.left \ {s} \in SUBSET Symbols  BY <1>t
  <2> QED  BY <2>1, <2>2, <1>2, PassSome
<1>n. now \in Nat  BY Bounds DEF Types
<1>r. /\ rounds' \in Rounds /\ rounds'.n = rounds.n /\ rounds'.began = rounds.began
      /\ rounds'.of[s] = rounds.n + 1 /\ rounds'.tested[s] = now
      /\ \A t \in Symbols \ {s} : rounds'.of[t] = rounds.of[t] /\ rounds'.tested[t] = rounds.tested[t]
  <2>1. rounds \in Rounds  BY DEF Types
  <2>2. PICK f : f = [rounds.of EXCEPT ![s] = rounds.n + 1]  OBVIOUS
  <2>7. PICK g : g = [rounds.tested EXCEPT ![s] = now]  OBVIOUS
  <2>3. rounds.n \in Nat /\ rounds.began \in Nat /\ rounds.of \in [Symbols -> Nat]
        /\ rounds.tested \in [Symbols -> Nat]
    BY <2>1 DEF Rounds
  <2>4. /\ f \in [Symbols -> Nat] /\ f[s] = rounds.n + 1
        /\ \A t \in Symbols \ {s} : f[t] = rounds.of[t]
    BY <2>2, <2>3
  <2>8. /\ g \in [Symbols -> Nat] /\ g[s] = now
        /\ \A t \in Symbols \ {s} : g[t] = rounds.tested[t]
    BY <2>7, <2>3, <1>n
  <2>5. rounds' = [rounds EXCEPT !.of = f, !.tested = g]  BY <2>2, <2>7 DEF NextSymbol
  <2>6. rounds' = [n |-> rounds.n, began |-> rounds.began, of |-> f, tested |-> g]
    BY <2>1, <2>5 DEF Rounds
  <2> QED  BY <2>3, <2>4, <2>6, <2>8 DEF Rounds
<1>b. rounds.began \in Nat /\ rounds.began <= now  BY DEF Types, Rounds
<1>4. Types'  BY <1>1, <1>3, <1>r, <1>b DEF Types
<1>5. Process'  BY <1>0, <1>1 DEF Process
<1>6. Passing'
  <2>1. \A i \in 1..Len(cs) : latest[cs[i].sym] # None /\ rounds'.of[cs[i].sym] = rounds'.n + 1
    BY <1>2, <1>r, <1>l
  <2>2. \A t \in pass.left : latest[t] # None  BY <1>0 DEF Passing
  <2>3. \A i \in 1..Len(cs) : cs[i].op = "place" => Tested(cs[i].sym, cs[i].at)'
    BY <1>1, <1>2, <1>r, <1>b, <1>n DEF Tested
  <2> QED  BY <1>0, <1>1, <1>2, <1>3, <2>1, <2>2, <2>3 DEF Passing
<1>p. Pending(s)' /\ \A t \in Symbols : ~Pending(t) /\ (t # s => ~Pending(t)')
  BY <1>0, <1>1, <1>2, <1>3 DEF Pending
<1>7. Fresh'
  <2>1. \A q \in book : q.sym \in Symbols  BY DEF Types, Quote
  <2>2. \A q \in book : q.sym # s /\ Tested(q.sym, q.at) => Tested(q.sym, q.at)'
    BY <1>1, <1>r, <2>1 DEF Tested
  <2> QED  BY <1>0, <1>1, <1>3, <1>p, <2>1, <2>2 DEF Fresh, FreshAt, Tested
<1>8. LastPass'  BY <1>0, <1>1, <1>p, <1>r DEF LastPass, Mine
<1>9. OneTicker'
  <2>1. ASSUME NEW t \in Symbols PROVE \E m \in Nat, a \in Nat : FromTicker(t, m, a)'
    <3>1. CASE t = s
      <4>1. latest[s] \in [mid: Mids, at: Nat]  BY <1>l DEF Types
      <4>2. latest[s].mid \in Nat /\ latest[s].at \in Nat  BY <4>1, Bounds
      <4>3. FromTicker(s, latest[s].mid, latest[s].at)'  BY <1>1, <1>2, <1>3, <1>p DEF FromTicker
      <4> QED  BY <3>1, <4>2, <4>3, <1>1
    <3>2. CASE t # s
      <4>1. PICK m \in Nat, a \in Nat : FromTicker(t, m, a)  BY <1>0 DEF OneTicker
      <4>3. ASSUME rounds'.of[t] # 0, NEW q \in Mine(t)' PROVE q.at = a /\ q.price = PriceAt(m, q.side, q.k)
        <5>1. q \in Mine(t) /\ rounds.of[t] # 0  BY <4>3, <3>2, <1>1, <1>r DEF Mine
        <5> QED  BY <5>1, <4>1, <1>p DEF FromTicker
      <4>4. \A i \in 1..Len(pass'.calls) : pass'.calls[i].sym # t  BY <3>2, <1>2, <1>3
      <4>2. FromTicker(t, m, a)'  BY <4>3, <4>4 DEF FromTicker
      <4> QED  BY <4>2
    <3> QED  BY <3>1, <3>2
  <2> QED  BY <2>1 DEF OneTicker
<1> QED  BY <1>4, <1>5, <1>6, <1>7, <1>8, <1>9

(* After the last symbol every own quote has been looked at. *)
LEMMA RefreshEndKeeps ==
  ASSUME MakerInv, RefreshEnd
  PROVE  MakerInv'
<1> USE DEF MakerInv
<1>1. UNCHANGED <<now, feed, queue, starts, proc, latest, tick, req, orphans, book>>
  BY DEF RefreshEnd, market
<1>0. /\ pass # None /\ req = None /\ pass.calls = <<>> /\ pass.left = {} /\ proc = "up"
      /\ pass' = None
  BY DEF RefreshEnd, Process, Types
<1>r. /\ rounds' \in Rounds /\ rounds'.of = rounds.of
      /\ rounds'.began = rounds.began /\ rounds'.tested = rounds.tested
  <2>1. rounds \in Rounds /\ rounds.n \in Nat  BY DEF Types, Rounds
  <2>2. rounds' = [rounds EXCEPT !.n = rounds.n + 1]  BY DEF RefreshEnd
  <2> QED  BY <2>1, <2>2 DEF Rounds
<1>4. Types'  BY <1>1, <1>0, <1>r DEF Types
<1>5. Process' /\ Passing'  BY <1>0, <1>1 DEF Process, Passing
<1>p. \A t \in Symbols : ~Pending(t) /\ ~Pending(t)'  BY <1>0 DEF Pending
<1>7. Fresh'
  <2>1. \A q \in book : q.sym \in Symbols  BY DEF Types, Quote
  <2>2. \A q \in book : q.start = starts => latest[q.sym] # None /\ Tested(q.sym, q.at)
    BY <1>0, <1>p, <2>1 DEF Fresh, FreshAt, Tested
  <2>3. \A q \in book : Tested(q.sym, q.at) => Tested(q.sym, q.at)'  BY <1>1, <1>r DEF Tested
  <2> QED  BY <1>0, <1>1, <2>2, <2>3 DEF Fresh, FreshAt, Tested
<1>8. LastPass'  BY <1>0, <1>1, <1>p, <1>r DEF LastPass, Mine
<1>9. OneTicker'  BY <1>0, <1>1, <1>p, <1>r DEF OneTicker, FromTicker, Mine
<1> QED  BY <1>4, <1>5, <1>7, <1>8, <1>9

-----------------------------------------------------------------------------
(* The engine calls of a pass.                                             *)

(* A request is sent: the cancel it may carry is still to be executed. *)
LEMMA SendKeeps ==
  ASSUME MakerInv, Send
  PROVE  MakerInv'
<1> USE DEF MakerInv
<1>1. UNCHANGED <<now, feed, queue, starts, proc, latest, tick, pass, orphans, book, rounds>>
  BY DEF Send, market
<1>0. pass # None /\ req = None /\ pass.calls # <<>> /\ proc = "up"  BY DEF Send, Process, Types
<1>t. pass \in [left: SUBSET Symbols, calls: Seq(Call)]  BY <1>0 DEF Types
<1>h. Head(pass.calls) = pass.calls[1] /\ pass.calls[1] \in Call  BY <1>0, <1>t
<1>2. req' = [call |-> pass.calls[1], round |-> rounds.n + 1, answer |-> None]  BY <1>h DEF Send
<1>3. req' \in Req /\ req'.answer = None /\ req'.call = pass.calls[1] /\ req'.round = rounds.n + 1
  <2>1. rounds.n + 1 \in Nat  BY DEF Types, Rounds
  <2> QED  BY <1>2, <1>h, <2>1 DEF Req
<1>4. Types'  BY <1>1, <1>3 DEF Types
<1>5. Process'  BY <1>0, <1>1 DEF Process
<1>6. Passing'  BY <1>0, <1>1, <1>3 DEF Passing, Tested
<1>p. \A s : Pending(s)' <=> Pending(s)
  <2>1. req'.answer # "ok"  BY <1>3, NoneAssumption
  <2> QED  BY <1>0, <1>1, <2>1 DEF Pending
<1>7. Fresh'  BY <1>1, <1>p DEF Fresh, FreshAt, Tested
<1>8. LastPass'  BY <1>1, <1>p DEF LastPass, Mine
<1>9. OneTicker'  BY <1>1, <1>p, OneTickerKept
<1> QED  BY <1>4, <1>5, <1>6, <1>7, <1>8, <1>9

(* An answered call is taken off the list; only quotes follow. *)
LEMMA AckedKeeps ==
  ASSUME MakerInv, Acked
  PROVE  MakerInv'
<1> USE DEF MakerInv
<1>1. UNCHANGED <<now, feed, queue, starts, proc, latest, tick, orphans, book, rounds>>
  BY DEF Acked, market
<1>0. req # None /\ req.answer = "ok" /\ req' = None /\ pass # None /\ pass.calls # <<>> /\ proc = "up"
  BY DEF Acked, Process, Passing, Types
<1>t. pass \in [left: SUBSET Symbols, calls: Seq(Call)]  BY <1>0 DEF Types
<1>c. PICK cs : cs = Tail(pass.calls)  OBVIOUS
<1>s. /\ cs \in Seq(Call) /\ Len(pass.calls) \in Nat /\ Len(cs) = Len(pass.calls) - 1
      /\ \A i \in 1..Len(cs) : cs[i] = pass.calls[i + 1]
  BY <1>0, <1>t, <1>c
<1>i. \A i \in 1..Len(cs) : i + 1 \in 1..Len(pass.calls) /\ i + 1 > 1  BY <1>s
<1>3. /\ pass' \in [left: SUBSET Symbols, calls: Seq(Call)] /\ pass' # None
      /\ pass'.left = pass.left /\ pass'.calls = cs
  <2>1. pass' = [pass EXCEPT !.calls = cs]  BY <1>c DEF Acked
  <2>2. pass' = [left |-> pass.left, calls |-> cs]  BY <2>1, <1>t
  <2>3. pass.left \in SUBSET Symbols  BY <1>t
  <2> QED  BY <2>2, <2>3, <1>s, PassSome
<1>4. Types'  BY <1>0, <1>1, <1>3 DEF Types
<1>5. Process'  BY <1>0, <1>1 DEF Process
<1>f. \A i \in 1..Len(cs) :
            /\ latest[cs[i].sym] # None /\ rounds.of[cs[i].sym] = rounds.n + 1
            /\ Tested(cs[i].sym, cs[i].at)
            /\ cs[i].op = "place"
  <2>1. \A j \in 1..Len(pass.calls) :
            /\ latest[pass.calls[j].sym] # None /\ rounds.of[pass.calls[j].sym] = rounds.n + 1
            /\ pass.calls[j].op = "place" => Tested(pass.calls[j].sym, pass.calls[j].at)
            /\ j > 1 => pass.calls[j].op = "place"
    BY <1>0 DEF Passing
  <2> QED  BY <1>s, <1>i, <2>1
<1>6. Passing'
  <2>1. \A t \in pass.left : latest[t] # None  BY <1>0 DEF Passing
  <2>2. \A i \in 1..Len(cs) : Tested(cs[i].sym, cs[i].at)'  BY <1>1, <1>f DEF Tested
  <2> QED  BY <1>0, <1>1, <1>3, <1>f, <2>1, <2>2 DEF Passing
<1>p. \A s : ~Pending(s) /\ ~Pending(s)'
  <2>1. cs # <<>> => 1 \in 1..Len(cs)  BY <1>s
  <2>2. cs # <<>> => cs[1].op # "cancel_all"  BY <2>1, <1>f
  <2> QED  BY <1>0, <1>3, <2>2 DEF Pending
<1>7. Fresh'  BY <1>0, <1>1, <1>3, <1>p DEF Fresh, FreshAt, Tested
<1>8. LastPass'  BY <1>1, <1>p DEF LastPass, Mine
<1>9. OneTicker'
  <2>1. ASSUME NEW t \in Symbols PROVE \E m \in Nat, a \in Nat : FromTicker(t, m, a)'
    <3>1. PICK m \in Nat, a \in Nat : FromTicker(t, m, a)  BY <1>0 DEF OneTicker
    <3>2. \A i \in 1..Len(pass.calls) : pass.calls[i].op = "place" /\ pass.calls[i].sym = t =>
            /\ pass.calls[i].at = a
            /\ pass.calls[i].quote.price = PriceAt(m, pass.calls[i].quote.side, pass.calls[i].quote.k)
      BY <3>1, <1>0 DEF FromTicker
    <3>3. \A i \in 1..Len(cs) : cs[i].op = "place" /\ cs[i].sym = t =>
            /\ cs[i].at = a
            /\ cs[i].quote.price = PriceAt(m, cs[i].quote.side, cs[i].quote.k)
      BY <3>2, <1>s, <1>i
    <3>4. FromTicker(t, m, a)'  BY <3>1, <3>3, <1>1, <1>3, <1>p DEF FromTicker, Mine
    <3> QED  BY <3>4
  <2> QED  BY <2>1 DEF OneTicker
<1> QED  BY <1>4, <1>5, <1>6, <1>7, <1>8, <1>9

(* What a request is for, and what it says of the pass it belongs to. *)
LEMMA RequestInPass ==
  ASSUME MakerInv, req # None
  PROVE  /\ req \in Req /\ req.call \in Call
         /\ pass \in [left: SUBSET Symbols, calls: Seq(Call)] /\ pass # None
         /\ 1 \in 1..Len(pass.calls) /\ req.call = pass.calls[1] /\ req.call.sym \in Symbols
         /\ latest[req.call.sym] # None /\ rounds.of[req.call.sym] = rounds.n + 1
         /\ req.round = rounds.n + 1
         /\ req.call.op = "place" => Tested(req.call.sym, req.call.at)
         /\ proc = "up" /\ starts > 0
<1> USE DEF MakerInv
<1>1. req \in Req /\ pass # None /\ pass.calls # <<>> /\ req.call = pass.calls[1] /\ req.round = rounds.n + 1
  BY DEF Types, Passing
<1>2. pass \in [left: SUBSET Symbols, calls: Seq(Call)]  BY <1>1 DEF Types
<1>3. 1 \in 1..Len(pass.calls)  BY <1>1, <1>2
<1>4. req.call \in Call  BY <1>1 DEF Req
<1>5. req.call.sym \in Symbols  BY <1>4 DEF Call
<1>6. proc = "up" /\ starts > 0  BY <1>1 DEF Process, Types
<1>7. /\ latest[req.call.sym] # None /\ rounds.of[req.call.sym] = rounds.n + 1
      /\ req.call.op = "place" => Tested(req.call.sym, req.call.at)
  BY <1>1, <1>3 DEF Passing
<1> QED  BY <1>1, <1>2, <1>3, <1>4, <1>5, <1>6, <1>7

(* The answer is noted; what is pending afterwards. *)
LEMMA ExecuteTypes ==
  ASSUME MakerInv, NEW ok \in BOOLEAN, Execute(ok)
  PROVE  /\ UNCHANGED <<now, feed, queue, starts, proc, latest, tick, pass, orphans, rounds>>
         /\ req # None /\ req.answer = None /\ req' \in Req /\ req' # None
         /\ req'.call = req.call /\ req'.round = req.round
         /\ req'.answer = IF ok THEN "ok" ELSE "rejected"
         /\ Passing'
<1> USE DEF MakerInv
<1>1. UNCHANGED <<now, feed, queue, starts, proc, latest, tick, pass, orphans, rounds>>
  BY DEF Execute
<1>2. req # None /\ req.answer = None /\ req \in Req  BY DEF Execute, Types
<1>3. PICK w \in {"ok", "rejected"} : w = IF ok THEN "ok" ELSE "rejected"  OBVIOUS
<1>4. req' = [req EXCEPT !.answer = w]  BY <1>3 DEF Execute
<1>5. /\ req' \in Req /\ req'.call = req.call /\ req'.round = req.round /\ req'.answer = w
  BY <1>2, <1>4 DEF Req
<1>6. req' # None  BY <1>5, NoneAssumption DEF Req
<1>7. Passing'  BY <1>1, <1>2, <1>5 DEF Passing, Tested
<1> QED  BY <1>1, <1>2, <1>3, <1>5, <1>6, <1>7

(* A cancel that is executed leaves none of the symbol's orders. *)
LEMMA CancelKeeps ==
  ASSUME MakerInv, Execute(TRUE), req.call.op = "cancel_all"
  PROVE  MakerInv'
<1> USE DEF MakerInv
<1>1. /\ UNCHANGED <<now, feed, queue, starts, proc, latest, tick, pass, orphans, rounds>>
      /\ req # None /\ req' \in Req /\ req' # None /\ req'.answer = "ok" /\ Passing'
  BY ExecuteTypes
<1>2. book' = {q \in book : q.sym # req.call.sym}  BY DEF Execute, Resting
<1>3. Types'  BY <1>1, <1>2 DEF Types
<1>4. Process'  BY <1>1, <1>2, RequestInPass DEF Process
<1>p. \A s : ~Pending(s)' /\ (s # req.call.sym => ~Pending(s))
  BY <1>1, RequestInPass DEF Pending
<1>5. Fresh'  BY <1>1, <1>2, <1>p DEF Fresh, FreshAt, Tested
<1>m. \A s \in Symbols : Mine(s)' \subseteq Mine(s) /\ (s = req.call.sym => Mine(s)' = {})
  BY <1>2 DEF Mine
<1>6. LastPass'
  <2>1. ASSUME proc = "up", NEW s \in Symbols, rounds.of[s] # 0, NEW q \in Mine(s)'
        PROVE  q.round = rounds.of[s] /\ q.start = starts
    <3>1. s # req.call.sym /\ q \in Mine(s)  BY <2>1, <1>m
    <3> QED  BY <2>1, <3>1, <1>p DEF LastPass
  <2> QED  BY <2>1, <1>1 DEF LastPass
<1>7. OneTicker'
  <2>1. ASSUME proc = "up", NEW s \in Symbols PROVE \E m \in Nat, a \in Nat : FromTicker(s, m, a)'
    <3>1. PICK m \in Nat, a \in Nat : FromTicker(s, m, a)  BY <2>1 DEF OneTicker
    <3>2. ASSUME rounds.of[s] # 0, NEW q \in Mine(s)' PROVE q.at = a /\ q.price = PriceAt(m, q.side, q.k)
      <4>1. s # req.call.sym /\ q \in Mine(s)  BY <3>2, <1>m
      <4> QED  BY <3>1, <3>2, <4>1, <1>p DEF FromTicker
    <3>3. FromTicker(s, m, a)'  BY <3>1, <3>2, <1>1 DEF FromTicker
    <3> QED  BY <3>3
  <2> QED  BY <2>1, <1>1 DEF OneTicker
<1> QED  BY <1>1, <1>3, <1>4, <1>5, <1>6, <1>7

(* A quote that is placed is the process's own, of this pass and fresh. *)
LEMMA PlaceKeeps ==
  ASSUME MakerInv, Execute(TRUE), req.call.op = "place"
  PROVE  MakerInv'
<1> USE DEF MakerInv
<1>1. /\ UNCHANGED <<now, feed, queue, starts, proc, latest, tick, pass, orphans, rounds>>
      /\ req # None /\ req' \in Req /\ req' # None /\ req'.answer = "ok" /\ Passing'
  BY ExecuteTypes
<1>c. PICK c : c = req.call  OBVIOUS
<1>o. PICK o : o = Order(c, req.round)  OBVIOUS
<1>2. book' = book \cup {o}  BY <1>c, <1>o DEF Execute, Resting
<1>r. /\ c \in Call /\ c.op = "place" /\ c.sym \in Symbols /\ req.round \in Nat /\ starts \in Nat
      /\ starts > 0 /\ proc = "up" /\ latest[c.sym] # None /\ Tested(c.sym, c.at)
      /\ rounds.of[c.sym] = req.round
      /\ pass # None /\ 1 \in 1..Len(pass.calls) /\ c = pass.calls[1]
  BY <1>1, <1>c, RequestInPass DEF Req, Types
<1>d. c \in [op: {"place"}, sym: Symbols, at: Nat, quote: [side: Sides, k: Nat, price: Int]]
  BY <1>r DEF Call
<1>e. /\ o \in Quote /\ o.sym = c.sym /\ o.side = c.quote.side /\ o.k = c.quote.k
      /\ o.price = c.quote.price /\ o.at = c.at /\ o.round = req.round /\ o.start = starts
  BY <1>o, <1>d, <1>r DEF Order, Quote
<1>3. Types'
  <2>1. book' \subseteq Quote  BY <1>2, <1>e DEF Types
  <2> QED  BY <1>1, <2>1 DEF Types
<1>4. Process'
  <2>1. o.start <= starts  BY <1>e, <1>r
  <2> QED  BY <1>1, <1>2, <1>r, <2>1 DEF Process
<1>p. \A s : ~Pending(s)' /\ ~Pending(s)  BY <1>1, <1>r DEF Pending
<1>5. Fresh'
  <2>1. \A q \in book' : q \in book \/ q = o  BY <1>2
  <2>2. latest'[o.sym] # None /\ FreshAt(o)'  BY <1>1, <1>e, <1>r DEF FreshAt, Tested
  <2>3. \A q \in book : q.start = starts => latest'[q.sym] # None /\ FreshAt(q)'
    BY <1>1, <1>r, <1>p DEF Fresh, FreshAt, Tested
  <2> QED  BY <1>1, <2>1, <2>2, <2>3 DEF Fresh
<1>m. \A s \in Symbols : \A q \in Mine(s)' : q \in Mine(s) \/ (q = o /\ s = c.sym)
  BY <1>2, <1>e DEF Mine
<1>6. LastPass'
  <2>1. ASSUME NEW s \in Symbols, rounds.of[s] # 0, NEW q \in Mine(s)'
        PROVE  q.round = rounds.of[s] /\ q.start = starts
    <3>1. CASE q \in Mine(s)  BY <2>1, <3>1, <1>p, <1>r DEF LastPass
    <3>2. CASE q = o /\ s = c.sym  BY <3>2, <1>e, <1>r
    <3> QED  BY <1>m, <3>1, <3>2
  <2> QED  BY <2>1, <1>1 DEF LastPass
<1>7. OneTicker'
  <2>1. ASSUME NEW s \in Symbols PROVE \E m \in Nat, a \in Nat : FromTicker(s, m, a)'
    <3>1. PICK m \in Nat, a \in Nat : FromTicker(s, m, a)  BY <1>r DEF OneTicker
    <3>2. ASSUME rounds.of[s] # 0, NEW q \in Mine(s)' PROVE q.at = a /\ q.price = PriceAt(m, q.side, q.k)
      <4>1. CASE q \in Mine(s)  BY <3>1, <3>2, <4>1, <1>p DEF FromTicker
      <4>2. CASE q = o /\ s = c.sym
        <5>1. c.at = a /\ c.quote.price = PriceAt(m, c.quote.side, c.quote.k)
          BY <3>1, <4>2, <1>r DEF FromTicker
        <5> QED  BY <5>1, <4>2, <1>e
      <4> QED  BY <1>m, <4>1, <4>2
    <3>3. FromTicker(s, m, a)'  BY <3>1, <3>2, <1>1 DEF FromTicker
    <3> QED  BY <3>3
  <2> QED  BY <2>1, <1>1 DEF OneTicker
<1> QED  BY <1>1, <1>3, <1>4, <1>5, <1>6, <1>7

(* A refused quote changes no order. *)
LEMMA RefusedKeeps ==
  ASSUME MakerInv, Execute(FALSE)
  PROVE  MakerInv'
<1> USE DEF MakerInv
<1>1. /\ UNCHANGED <<now, feed, queue, starts, proc, latest, tick, pass, orphans, rounds>>
      /\ req # None /\ req.answer = None /\ req' \in Req /\ req' # None
      /\ req'.answer = "rejected" /\ Passing'
  BY ExecuteTypes
<1>2. book' = book  BY DEF Execute
<1>3. Types'  BY <1>1, <1>2 DEF Types
<1>4. Process'  BY <1>1, <1>2, RequestInPass DEF Process
<1>p. \A s : Pending(s)' <=> Pending(s)
  <2>1. req.answer # "ok" /\ req'.answer # "ok"  BY <1>1, NoneAssumption
  <2> QED  BY <1>1, <2>1 DEF Pending
<1>5. Fresh'  BY <1>1, <1>2, <1>p DEF Fresh, FreshAt, Tested
<1>6. LastPass'  BY <1>1, <1>2, <1>p DEF LastPass, Mine
<1>7. OneTicker'  BY <1>1, <1>2, <1>p, OneTickerKept
<1> QED  BY <1>1, <1>3, <1>4, <1>5, <1>6, <1>7

(* The engine executes the request. *)
LEMMA ExecuteKeeps ==
  ASSUME MakerInv, NEW ok \in BOOLEAN, Execute(ok)
  PROVE  MakerInv'
<1>1. CASE ok
  <2>1. Execute(TRUE)  BY <1>1
  <2>2. req.call \in Call  BY RequestInPass DEF Execute
  <2>3. req.call.op = "cancel_all" \/ req.call.op = "place"  BY <2>2 DEF Call
  <2> QED  BY <2>1, <2>3, CancelKeeps, PlaceKeeps
<1>2. CASE ~ok
  <2>1. Execute(FALSE)  BY <1>2
  <2> QED  BY <2>1, RefusedKeeps
<1> QED  BY <1>1, <1>2

-----------------------------------------------------------------------------
(* The world around the worker.                                            *)

(* Orders may leave the book, and an order of no process may come. *)
LEMMA OthersKeep ==
  ASSUME MakerInv, orphans' \subseteq Req, book' \subseteq Quote,
         \A q \in book' : q \in book \/ q.start = 0,
         UNCHANGED <<now, feed, queue, starts, proc, latest, tick, pass, req, rounds>>
  PROVE  MakerInv'
<1> USE DEF MakerInv
<1>1. Types'  BY DEF Types
<1>2. Process'
  <2>1. starts \in Nat  BY DEF Types
  <2> QED  BY <2>1 DEF Process
<1>3. Passing'  BY DEF Passing, Tested
<1>p. \A s : Pending(s)' <=> Pending(s)  BY DEF Pending
<1>m. \A s : Mine(s)' \subseteq Mine(s)  BY DEF Mine
<1>4. Fresh'
  <2>1. proc = "up" => starts # 0  BY DEF Process, Types
  <2> QED  BY <2>1, <1>p DEF Fresh, FreshAt, Tested
<1>5. LastPass'  BY <1>p, <1>m DEF LastPass
<1>6. OneTicker'
  <2>1. ASSUME proc = "up", NEW s \in Symbols PROVE \E m \in Nat, a \in Nat : FromTicker(s, m, a)'
    <3>1. PICK m \in Nat, a \in Nat : FromTicker(s, m, a)  BY <2>1 DEF OneTicker
    <3>2. FromTicker(s, m, a)'  BY <3>1, <1>p, <1>m DEF FromTicker
    <3> QED  BY <3>2
  <2> QED  BY <2>1 DEF OneTicker
<1> QED  BY <1>1, <1>2, <1>3, <1>4, <1>5, <1>6

(* A user trades with a quote. *)
LEMMA TradeKeeps ==
  ASSUME MakerInv, NEW q \in book, Trade(q)
  PROVE  MakerInv'
<1>1. book \subseteq Quote /\ orphans \subseteq Req  BY DEF MakerInv, Types
<1>2. /\ UNCHANGED <<now, feed, queue, starts, proc, latest, tick, pass, req, orphans, rounds>>
      /\ book' = book \ {q}
  BY DEF Trade
<1> QED  BY <1>1, <1>2, OthersKeep

(* A request whose caller has gone reaches the engine. *)
LEMMA OrphanKeeps ==
  ASSUME MakerInv, NEW r \in orphans, OrphanArrives(r)
  PROVE  MakerInv'
<1>1. book \subseteq Quote /\ orphans \subseteq Req /\ starts \in Nat  BY DEF MakerInv, Types
<1>2. /\ UNCHANGED <<now, feed, queue, starts, proc, latest, tick, pass, req, rounds>>
      /\ orphans' = orphans \ {r}
  BY DEF OrphanArrives
<1>3. book' \subseteq Quote /\ \A q \in book' : q \in book \/ q.start = 0
  <2>1. CASE book' = book  BY <2>1, <1>1
  <2>2. CASE r.call.op = "cancel_all" /\ ~Refuses(r.call)
    <3>1. book' = {q \in book : q.sym # r.call.sym}  BY <2>2 DEF OrphanArrives, Resting
    <3> QED  BY <3>1, <1>1
  <2>3. CASE r.call.op # "cancel_all" /\ ~Refuses(r.call)
    <3>1. PICK c : c = r.call  OBVIOUS
    <3>2. PICK o : o = [Order(c, r.round) EXCEPT !.start = 0]  OBVIOUS
    <3>3. book' = book \cup {o}  BY <2>3, <3>1, <3>2 DEF OrphanArrives
    <3>4. c \in Call /\ r.round \in Nat  BY <1>1, <3>1 DEF Req
    <3>5. c \in [op: {"place"}, sym: Symbols, at: Nat, quote: [side: Sides, k: Nat, price: Int]]
      BY <3>4, <3>1, <2>3 DEF Call
    <3>6. Order(c, r.round) \in Quote  BY <3>5, <3>4, <1>1 DEF Order, Quote
    <3>7. o \in Quote /\ o.start = 0  BY <3>2, <3>6 DEF Quote
    <3> QED  BY <3>3, <3>7, <1>1
  <2> QED  BY <2>1, <2>2, <2>3 DEF OrphanArrives
<1>4. orphans' \subseteq Req  BY <1>1, <1>2
<1> QED  BY <1>2, <1>3, <1>4, OthersKeep

(* The process ends: on ctrl-c, or with an error of the database, of the    *)
(* engine or of its connection.                                            *)
LEMMA EndKeeps ==
  ASSUME MakerInv, Shutdown \/ KlineFails \/ Rejected \/ CallFails
  PROVE  MakerInv'
<1>1. Exit  BY DEF Shutdown, KlineFails, Rejected, CallFails
<1>2. orphans' \subseteq Req
  <2>1. orphans \subseteq Req /\ (req # None => req \in Req)  BY DEF MakerInv, Types
  <2>2. CASE orphans' = orphans  BY <2>1, <2>2
  <2>3. CASE CallFails  BY <2>1, <2>3 DEF CallFails
  <2> QED  BY <2>2, <2>3 DEF Shutdown, KlineFails, Rejected
<1> QED  BY <1>1, <1>2, ExitKeeps

-----------------------------------------------------------------------------
(* Every step keeps the invariant. *)
LEMMA StepKeeps ==
  ASSUME MakerInv, [Next]_vars
  PROVE  MakerInv'
<1>1. CASE Tick  BY <1>1, TickKeeps
<1>2. CASE Start  BY <1>2, StartKeeps
<1>3. CASE Shutdown  BY <1>3, EndKeeps
<1>4. CASE Stream
  <2>1. CASE Connect \/ Disconnect  BY <2>1, FeedKeeps
  <2>2. CASE \E e \in Tickers \cup Candles \cup {None} : Message(e)  BY <2>2, MessageKeeps
  <2> QED  BY <1>4, <2>1, <2>2 DEF Stream
<1>5. CASE Loop
  <2>1. CASE RecordTicker  BY <2>1, RecordTickerKeeps
  <2>2. CASE UpsertKline  BY <2>2, KlineKeeps
  <2>3. CASE KlineFails  BY <2>3, EndKeeps
  <2>4. CASE RefreshBegin  BY <2>4, RefreshBeginKeeps
  <2>5. CASE RefreshEnd  BY <2>5, RefreshEndKeeps
  <2>6. CASE \E s \in Symbols : NextSymbol(s)  BY <2>6, NextSymbolKeeps
  <2> QED  BY <1>5, <2>1, <2>2, <2>3, <2>4, <2>5, <2>6 DEF Loop
<1>6. CASE Engine
  <2>1. CASE Send  BY <2>1, SendKeeps
  <2>2. CASE Acked  BY <2>2, AckedKeeps
  <2>3. CASE Rejected \/ CallFails  BY <2>3, EndKeeps
  <2>4. CASE \E ok \in BOOLEAN : Execute(ok)  BY <2>4, ExecuteKeeps
  <2> QED  BY <1>6, <2>1, <2>2, <2>3, <2>4 DEF Engine
<1>7. CASE World
  <2>1. CASE \E r \in orphans : OrphanArrives(r)  BY <2>1, OrphanKeeps
  <2>2. CASE \E q \in book : Trade(q)  BY <2>2, TradeKeeps
  <2>3. CASE \E s \in Symbols : MarketStatus(s) \/ \E on \in BOOLEAN : Halt(s, on)  BY <2>3, HaltKeeps
  <2> QED  BY <1>7, <2>1, <2>2, <2>3 DEF World
<1>8. CASE UNCHANGED vars
  <2>1. UNCHANGED <<now, feed, queue, starts, proc, latest, tick, pass, req, orphans, book, rounds>>
    BY <1>8 DEF vars, market
  <2>2. Types'  BY <2>1 DEF MakerInv, Types
  <2> QED  BY <2>1, <2>2, CoreKept DEF MakerInv
<1> QED  BY <1>1, <1>2, <1>3, <1>4, <1>5, <1>6, <1>7, <1>8 DEF Next

(* Between passes every own quote has been looked at by the last one. *)
LEMMA NotStaleImplied ==
  ASSUME MakerInv
  PROVE  QuotesNotStale
BY DEF MakerInv, Fresh, FreshAt, Tested, QuotesNotStale

(* Two quotes of one ticker on the same side and level are the same order. *)
LEMMA OneSetImplied ==
  ASSUME MakerInv
  PROVE  OneQuoteSet
<1> USE DEF MakerInv
<1>1. MakerTypeOK  BY DEF MakerTypeOK, Types, Process
<1>2. ASSUME proc = "up", pass = None, NEW s \in Symbols, rounds.of[s] # 0
      PROVE  /\ \A q \in Mine(s) : q.round = rounds.of[s] /\ q.start = starts
             /\ \A p, q \in Mine(s) : p.side = q.side /\ p.k = q.k => p = q
  <2>1. ~Pending(s)  BY <1>2 DEF Pending
  <2>2. \A q \in Mine(s) : q.round = rounds.of[s] /\ q.start = starts
    BY <1>2, <2>1 DEF LastPass
  <2>3. PICK m \in Nat, a \in Nat : FromTicker(s, m, a)  BY <1>2 DEF OneTicker
  <2>4. \A q \in Mine(s) : q.at = a /\ q.price = PriceAt(m, q.side, q.k)
    BY <2>1, <2>3, <1>2 DEF FromTicker
  <2>5. \A q \in Mine(s) : q \in Quote /\ q.sym = s  BY DEF Mine, Types
  <2>6. ASSUME NEW p \in Mine(s), NEW q \in Mine(s), p.side = q.side, p.k = q.k PROVE p = q
    <3>1. p.price = q.price /\ p.at = q.at /\ p.round = q.round /\ p.start = q.start /\ p.sym = q.sym
      BY <2>2, <2>4, <2>5, <2>6
    <3> QED  BY <2>5, <2>6, <3>1 DEF Quote
  <2> QED  BY <2>2, <2>6
<1> QED  BY <1>1, <1>2 DEF OneQuoteSet, Mine

(* In every run of the worker, through reconnects, refused quotes, calls    *)
(* that fail and restarts: when a pass is over, the orders that processes   *)
(* placed while they lived are, in a symbol this process has refreshed, one *)
(* set of quotes, all of the last pass (refresh_quotes cancels before it    *)
(* places).  An order whose request reached the engine after its process    *)
(* had gone is left out: it may stand beside the set until the next pass.   *)
THEOREM MakerOneQuoteSet == Spec => []OneQuoteSet
<1>1. Init => MakerInv  BY InitHolds
<1>2. MakerInv /\ [Next]_vars => MakerInv'  BY StepKeeps
<1>3. MakerInv => OneQuoteSet  BY OneSetImplied
<1> QED  BY <1>1, <1>2, <1>3, PTL DEF Spec

(* In every run of the worker, whatever time its engine calls take: when a  *)
(* pass is over, each quote of the living process is in a symbol that the   *)
(* pass looked at, and from a ticker no older than stale_after at that      *)
(* look, since refresh_quotes cancels first and quotes only a fresh ticker. *)
THEOREM MakerNotStale == Spec => []QuotesNotStale
<1>1. Init => MakerInv  BY InitHolds
<1>2. MakerInv /\ [Next]_vars => MakerInv'  BY StepKeeps
<1>3. MakerInv => QuotesNotStale  BY NotStaleImplied
<1> QED  BY <1>1, <1>2, <1>3, PTL DEF Spec
=============================================================================
