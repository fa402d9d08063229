------------------------------ MODULE OrderBook ------------------------------
(***************************************************************************)
(* The order book of one symbol: engine/crates/core/src/{book,stop,types}. *)
(*                                                                         *)
(* match_order is one call in the code and runs to completion; here every  *)
(* iteration of its loops is an action, so that the invariants are checked *)
(* in the middle of a stop cascade as well as between two commands.  No    *)
(* command is accepted while another one is running (phase # "idle").      *)
(*                                                                         *)
(* Data abstraction: a Decimal is a natural number (only comparison,       *)
(* addition and subtraction of quantities are used, and they are exact), a *)
(* Uuid is the number of the submission it names, so that i < j says that  *)
(* i was submitted before j.  A price key whose queue is empty is absent   *)
(* from the BTreeMap of the code.                                          *)
(***************************************************************************)
EXTENDS Integers, Sequences, FiniteSets, FiniteSetsExt

CONSTANTS
  MaxOrders,           \* bound: how many orders are ever submitted
  Users,               \* the owners of orders (user_id)
  Price,               \* the price grid, positive naturals
  None,                \* Option::None
  MaxStopChainDepth,   \* MAX_STOP_CHAIN_DEPTH, 16 in the code
  Inputs               \* bound: the orders callers may submit

Side    == {"buy", "sell"}
StpMode == {"decrement", "cancel_maker", "cancel_taker"}
OrderType == {"limit", "market", "ioc", "fok", "post_only", "stop_limit",
              "stop_market", "oco", "iceberg"}
Id == 1..MaxOrders

(* Only market orders may lack a price, before and after a stop converts. *)
Order == {o \in [id: Id, user: Users, side: Side, type: OrderType,
                 price: Price \cup {None}, quantity: Nat \ {0}, remaining: Nat,
                 stp: StpMode, stop: Price \cup {None}, oco: Id \cup {None},
                 display: Nat \cup {None}] :
            o.type \notin {"market", "stop_market"} => o.price # None}

IsStop(t) == t \in {"stop_limit", "stop_market"}

(***************************************************************************)
(* What else validate_wire_order asks of a new order.  It bounds display   *)
(* only for the type iceberg; that any other display is positive is the    *)
(* CHECK of the orders table (0001_init.sql:92), which a row passes before *)
(* the engine is called (with 0 a fill would have quantity 0 and never     *)
(* end).                                                                   *)
(***************************************************************************)
ValidateWireOrder(o) ==
  /\ o.quantity > 0
  /\ IsStop(o.type) => o.stop # None
  /\ o.type = "iceberg" => o.display # None /\ o.display < o.quantity
  /\ o.display # None => o.display > 0

ASSUME ConstantsAssumption ==
  /\ MaxOrders \in Nat
  /\ Price \subseteq Nat \ {0}
  /\ None \notin Nat /\ None \notin Side \X Price /\ None \notin Order
  /\ MaxStopChainDepth \in Nat
  /\ Inputs \subseteq {o \in Order : ValidateWireOrder(o) /\ o.remaining = o.quantity}

VARIABLES
  book,        \* OrderBook: level (bids/asks), index, stops, oco
  phase,       \* "idle", "match" (run_matching_loop), "drain" (stop triggers)
  taker,       \* the order run_matching_loop is matching
  lastTrade,   \* last_trade_price; had_fills is lastTrade # None
  triggered,   \* the stops drained so far by drain_triggered
  work,        \* work_queue, a stack
  stopDepth,   \* stop_depth
  events,      \* all_events of the command, kept until the next command
  placed,      \* how many orders were submitted
  acct,        \* history: per order, its quantity, what traded, what STP cut
  ended,       \* history: the orders a Cancelled event named
  dropped      \* history: triggered stops the cascade cap threw away

ctl  == <<phase, taker, lastTrade, triggered, work, stopDepth, placed>>
hist == <<acct, ended, dropped>>
vars == <<book, phase, taker, lastTrade, triggered, work, stopDepth, events,
          placed, acct, ended, dropped>>

-----------------------------------------------------------------------------
(* Events of the code's EngineEvent. *)
Filled(t, m, p, q)  == [kind |-> "fill", taker |-> t, maker |-> m, price |-> p, qty |-> q]
Rested(o)           == [kind |-> "rested", id |-> o.id, remaining |-> o.remaining]
Cancelled(i, why)   == [kind |-> "cancelled", id |-> i, reason |-> why]
StopTriggered(i)    == [kind |-> "stop_triggered", id |-> i]

Opposite(s) == IF s = "buy" THEN "sell" ELSE "buy"
MinOf(a, b) == IF a < b THEN a ELSE b
Front(s)    == SubSeq(s, 1, Len(s) - 1)
Last(s)     == s[Len(s)]

(* p is a better price than q for whoever trades against side s. *)
Better(s, p, q) == IF s = "sell" THEN p < q ELSE p > q

Occupied(s)  == {p \in Price : book.level[s][p] # <<>>}
IsBest(s, p) == p \in Occupied(s) /\ \A q \in Occupied(s) : ~Better(s, q, p)

(* Mutant of PriceSatisfied: equal prices do not trade. *)
PriceSatisfiedStrict(o, p) ==
  o.price = None \/ IF o.side = "buy" THEN p < o.price ELSE p > o.price

(* taker_price_satisfied: an order without a price takes any. *)
PriceSatisfied(o, p) ==
  \/ o.price = None
  \/ o.side = "buy"  /\ o.price # None /\ p <= o.price
  \/ o.side = "sell" /\ o.price # None /\ p >= o.price

(* The opposite levels the order could trade with; the loop of the code    *)
(* goes on exactly as long as the best opposite price is one of them.      *)
Matchable(o) == {p \in Occupied(Opposite(o.side)) : PriceSatisfied(o, p)}

-----------------------------------------------------------------------------
(* Queues.  An id occurs at most once, see OnePlace. *)
Has(q, i) == \E k \in DOMAIN q : q[k].id = i
Pos(q, i) == CHOOSE k \in DOMAIN q : q[k].id = i

(* VecDeque::remove keeps the order of the others, Vec::swap_remove puts   *)
(* the last element in the hole.                                           *)
RemoveId(q, i) ==
  IF Has(q, i)
  THEN SubSeq(q, 1, Pos(q, i) - 1) \o SubSeq(q, Pos(q, i) + 1, Len(q))
  ELSE q

SwapRemove(q, i) ==
  IF Has(q, i)
  THEN [k \in 1..(Len(q) - 1) |-> IF k = Pos(q, i) THEN q[Len(q)] ELSE q[k]]
  ELSE q

(* A book with one queue, one index entry replaced. *)
SetLevel(b, s, p, q) == [b EXCEPT !.level = [@ EXCEPT ![s][p] = q]]
SetStops(b, s, p, q) == [b EXCEPT !.stops = [@ EXCEPT ![s][p] = q]]
SetIndex(b, i, e)    == [b EXCEPT !.index = [@ EXCEPT ![i] = e]]

InStops(b, i) == \E s \in Side, p \in Price : Has(b.stops[s][p], i)

(* cancel_order_internal: the stop registry first, then the index. *)
CancelInternal(b, i) ==
  IF InStops(b, i)
  THEN [b EXCEPT !.stops = [s \in Side |-> [p \in Price |-> SwapRemove(@[s][p], i)]]]
  ELSE IF b.index[i] # None
  THEN LET s == b.index[i][1]
           p == b.index[i][2]
       IN SetLevel(SetIndex(b, i, None), s, p, RemoveId(b.level[s][p], i))
  ELSE b

(* Mutant of CancelEvents: only a stop's cancel is reported. *)
CancelEventsStopsOnly(b, i, why) ==
  IF InStops(b, i) THEN <<Cancelled(i, why)>> ELSE <<>>

CancelEvents(b, i, why) ==
  IF InStops(b, i) \/ b.index[i] # None THEN <<Cancelled(i, why)>> ELSE <<>>

Unlink(b, i) ==
  IF b.oco[i] = None THEN b
  ELSE [b EXCEPT !.oco = [@ EXCEPT ![i] = None, ![b.oco[i]] = None]]

(* Mutant of MaybeCancelOco: the links go, the other leg stays. *)
MaybeCancelOcoUnlinkOnly(b, i) == Unlink(b, i)

(* maybe_cancel_oco: the linked leg is looked for in the book and in the   *)
(* stops only, not in the work queue.                                      *)
MaybeCancelOco(b, i) ==
  IF b.oco[i] = None THEN b ELSE CancelInternal(Unlink(b, i), b.oco[i])

OcoEvents(b, i) ==
  IF b.oco[i] = None THEN <<>> ELSE CancelEvents(Unlink(b, i), b.oco[i], "oco")

RegisterOco(b, a, c) ==
  IF c = None THEN b ELSE [b EXCEPT !.oco = [@ EXCEPT ![a] = c, ![c] = a]]

InsertMaker(b, o) ==
  SetLevel(SetIndex(b, o.id, <<o.side, o.price>>),
           o.side, o.price, Append(b.level[o.side][o.price], o))

(* Mutant of PopFrontMaker: the index entry survives. *)
PopFrontMakerKeepIndex(b, s, p) == SetLevel(b, s, p, Tail(b.level[s][p]))

PopFrontMaker(b, s, p) ==
  SetLevel(SetIndex(b, Head(b.level[s][p]).id, None), s, p, Tail(b.level[s][p]))

-----------------------------------------------------------------------------
(* Pre-checks, on the book as it stands. *)

(* can_fully_fill: what rests at acceptable prices, own orders included. *)
Available(o) ==
  LET s == Opposite(o.side)
      spots == UNION {{p} \X DOMAIN book.level[s][p] : p \in Matchable(o)}
  IN MapThenSumSet(LAMBDA x : book.level[s][x[1]][x[2]].remaining, spots)

(* Mutant of PreCheckRejects: post-only orders are not looked at. *)
PreCheckRejectsFokOnly(o) == o.type = "fok" /\ Available(o) < o.remaining

PreCheckRejects(o) ==
  \/ o.type = "fok" /\ Available(o) < o.remaining
  \/ o.type = "post_only" /\ Matchable(o) # {}

RejectReason(o) == IF o.type = "fok" THEN "fok_unfilled" ELSE "post_only_crossed"

Convert(o) ==
  [o EXCEPT !.type = CASE @ = "stop_limit" -> "limit"
                       [] @ = "stop_market" -> "market"
                       [] OTHER -> @]

-----------------------------------------------------------------------------
EmptyQueues == [s \in Side |-> [p \in Price |-> <<>>]]

EmptyBook == [level |-> EmptyQueues, index |-> [i \in Id |-> None],
              stops |-> EmptyQueues, oco |-> [i \in Id |-> None]]

EmptyAcct == [i \in Id |-> [qty |-> 0, filled |-> 0, cut |-> 0]]

Init ==
  /\ book = EmptyBook
  /\ phase = "idle" /\ taker = None /\ lastTrade = None
  /\ triggered = <<>> /\ work = <<>> /\ stopDepth = 0
  /\ events = <<>> /\ placed = 0
  /\ acct = EmptyAcct
  /\ ended = {} /\ dropped = {}

CancelledIn(evs) == {evs[k].id : k \in {j \in DOMAIN evs : evs[j].kind = "cancelled"}}

Output(evs) == events' = evs /\ ended' = ended \cup CancelledIn(evs)
Emit(evs)   == events' = events \o evs /\ ended' = ended \cup CancelledIn(evs)

(***************************************************************************)
(* match_order, first part: the caller (place_order of the server) has     *)
(* registered the OCO link; then the pre-check, a stop, or a matching run. *)
(***************************************************************************)
Submit(o) ==
  /\ phase = "idle"
  /\ o.id = placed + 1
  /\ placed' = placed + 1
  /\ acct' = [acct EXCEPT ![o.id] = [qty |-> o.quantity, filled |-> 0, cut |-> 0]]
  /\ UNCHANGED <<lastTrade, triggered, work, stopDepth, dropped>>

PlaceRejected(o) ==
  /\ Submit(o)
  /\ PreCheckRejects(o)
  /\ book' = RegisterOco(book, o.id, o.oco)
  /\ Output(<<Cancelled(o.id, RejectReason(o))>>)
  /\ UNCHANGED <<phase, taker>>

PlaceStop(o) ==
  /\ Submit(o)
  /\ IsStop(o.type)
  /\ LET b == RegisterOco(book, o.id, o.oco)
     IN book' = SetStops(b, o.side, o.stop, Append(b.stops[o.side][o.stop], o))
  /\ Output(<<Rested(o)>>)
  /\ UNCHANGED <<phase, taker>>

PlaceActive(o) ==
  /\ Submit(o)
  /\ ~PreCheckRejects(o) /\ ~IsStop(o.type)
  /\ book' = RegisterOco(book, o.id, o.oco)
  /\ phase' = "match" /\ taker' = o
  /\ Output(<<>>)

(***************************************************************************)
(* cancel_order, for any submitted order; an unknown one yields no event   *)
(* but its OCO link is gone all the same.                                  *)
(***************************************************************************)
CancelOrder(i) ==
  /\ phase = "idle"
  /\ i <= placed
  /\ LET b == Unlink(book, i)
         c == CancelInternal(b, i)
         l == book.oco[i]
     IN /\ book' = IF l = None THEN c ELSE CancelInternal(c, l)
        /\ Output(CancelEvents(b, i, "admin_cancel") \o
                    (IF l = None THEN <<>> ELSE CancelEvents(c, l, "oco")))
  /\ UNCHANGED <<ctl, acct, dropped>>

(***************************************************************************)
(* run_matching_loop: one iteration against the front maker of the best    *)
(* opposite level.                                                         *)
(***************************************************************************)
Matching(p) ==
  /\ phase = "match"
  /\ taker.remaining > 0
  /\ p \in Matchable(taker)
  /\ IsBest(Opposite(taker.side), p)

Maker(p) == Head(book.level[Opposite(taker.side)][p])

(* An iceberg shows at most its display quantity at a time. *)
Effective(m) == IF m.display = None THEN m.remaining ELSE MinOf(m.display, m.remaining)

(* Mutants: the reduced maker is pushed to the back, is not written back,  *)
(* is appended without being popped.                                       *)
ReplaceFrontPushBack(b, s, p, o) == SetLevel(b, s, p, Append(Tail(b.level[s][p]), o))
ReplaceFrontStale(b, s, p, o)    == SetLevel(b, s, p, b.level[s][p])
RequeueNoPop(b, s, p, o)         == SetLevel(b, s, p, Append(b.level[s][p], o))

ReplaceFront(b, s, p, o) == SetLevel(b, s, p, <<o>> \o Tail(b.level[s][p]))
Requeue(b, s, p, o)      == SetLevel(b, s, p, Append(Tail(b.level[s][p]), o))

(* History: n more of order i traded, or was decremented. *)
AddFilled(a, i, n) == [a EXCEPT ![i] = [qty |-> @.qty, filled |-> @.filled + n, cut |-> @.cut]]
AddCut(a, i, n)    == [a EXCEPT ![i] = [qty |-> @.qty, filled |-> @.filled, cut |-> @.cut + n]]

Trade(p, qty) ==
  /\ taker' = [taker EXCEPT !.remaining = @ - qty]
  /\ lastTrade' = p
  /\ acct' = AddFilled(AddFilled(acct, taker.id, qty), Maker(p).id, qty)
  /\ UNCHANGED <<phase, triggered, work, stopDepth, placed, dropped>>

(* The fill exhausts the maker, whose OCO leg is cancelled with it. *)
FillMaker(p) ==
  LET s == Opposite(taker.side)
      m == Maker(p)
      qty == MinOf(taker.remaining, Effective(m))
      b == PopFrontMaker(book, s, p)
  IN /\ Matching(p)
     /\ m.user # taker.user
     /\ qty = m.remaining
     /\ Trade(p, qty)
     /\ book' = MaybeCancelOco(b, m.id)
     /\ Emit(<<Filled(taker.id, m.id, p, qty)>> \o OcoEvents(b, m.id))

(* The maker survives: it keeps its place unless its whole peak traded. *)
FillPart(p) ==
  LET s == Opposite(taker.side)
      m == Maker(p)
      qty == MinOf(taker.remaining, Effective(m))
      left == [m EXCEPT !.remaining = @ - qty]
  IN /\ Matching(p)
     /\ m.user # taker.user
     /\ qty < m.remaining
     /\ Trade(p, qty)
     /\ book' = IF m.display # None /\ qty = Effective(m)
                THEN Requeue(book, s, p, left)
                ELSE ReplaceFront(book, s, p, left)
     /\ Emit(<<Filled(taker.id, m.id, p, qty)>>)

(***************************************************************************)
(* apply_stp.  When the taker is consumed the loop returns at once: no     *)
(* finalize_taker, no OCO cancel, but the stop triggers are checked.       *)
(***************************************************************************)
SelfMatch(p, mode) ==
  /\ Matching(p)
  /\ Maker(p).user = taker.user
  /\ taker.stp = mode
  /\ UNCHANGED <<lastTrade, triggered, work, stopDepth, placed, dropped>>

StpCancelTaker(p) ==
  /\ SelfMatch(p, "cancel_taker")
  /\ phase' = "drain"
  /\ Emit(<<Cancelled(taker.id, "stp")>>)
  /\ UNCHANGED <<book, taker, acct>>

(* Mutant of StpCancelMaker: the maker is not taken out of the book. *)
StpCancelMakerNoOp(p) ==
  SelfMatch(p, "cancel_maker") /\ UNCHANGED <<book, phase, taker, acct, events, ended>>

StpCancelMaker(p) ==
  /\ SelfMatch(p, "cancel_maker")
  /\ book' = PopFrontMaker(book, Opposite(taker.side), p)
  /\ Emit(<<Cancelled(Maker(p).id, "stp")>>)
  /\ UNCHANGED <<phase, taker, acct>>

(* The taker is smaller: it is cancelled, the maker shrinks, no event says *)
(* by how much.                                                            *)
StpCutMaker(p) ==
  /\ SelfMatch(p, "decrement")
  /\ taker.remaining < Maker(p).remaining
  /\ book' = ReplaceFront(book, Opposite(taker.side), p,
                          [Maker(p) EXCEPT !.remaining = @ - taker.remaining])
  /\ taker' = [taker EXCEPT !.remaining = 0]
  /\ phase' = "drain"
  /\ acct' = AddCut(AddCut(acct, taker.id, taker.remaining), Maker(p).id, taker.remaining)
  /\ Emit(<<Cancelled(taker.id, "stp")>>)

(* Mutant of StpCutTaker: the larger maker is subtracted, too. *)
StpCutTakerAlways(p) ==
  /\ SelfMatch(p, "decrement")
  /\ book' = PopFrontMaker(book, Opposite(taker.side), p)
  /\ taker' = [taker EXCEPT !.remaining = @ - Maker(p).remaining]
  /\ acct' = AddCut(acct, taker.id, Maker(p).remaining)
  /\ Emit(<<Cancelled(Maker(p).id, "stp")>>)
  /\ UNCHANGED phase

StpCutTaker(p) ==
  /\ SelfMatch(p, "decrement")
  /\ taker.remaining > Maker(p).remaining
  /\ book' = PopFrontMaker(book, Opposite(taker.side), p)
  /\ taker' = [taker EXCEPT !.remaining = @ - Maker(p).remaining]
  /\ acct' = AddCut(acct, taker.id, Maker(p).remaining)
  /\ Emit(<<Cancelled(Maker(p).id, "stp")>>)
  /\ UNCHANGED phase

StpCutBoth(p) ==
  /\ SelfMatch(p, "decrement")
  /\ taker.remaining = Maker(p).remaining
  /\ book' = PopFrontMaker(book, Opposite(taker.side), p)
  /\ taker' = [taker EXCEPT !.remaining = 0]
  /\ phase' = "drain"
  /\ acct' = AddCut(acct, taker.id, taker.remaining)
  /\ Emit(<<Cancelled(Maker(p).id, "stp"), Cancelled(taker.id, "stp")>>)

(***************************************************************************)
(* finalize_taker, once the loop is over.                                  *)
(***************************************************************************)
LoopDone == phase = "match" /\ (taker.remaining = 0 \/ Matchable(taker) = {})

MayRest(o) ==
  /\ o.remaining > 0
  /\ \/ o.type \in {"limit", "iceberg", "oco"}
     \/ o.type = "post_only" /\ lastTrade = None

FinalReason(o) ==
  CASE o.type = "fok" -> "fok_unfilled"
    [] o.type = "post_only" -> "post_only_crossed"
    [] OTHER -> "no_liquidity"

FinalizeRested ==
  /\ LoopDone
  /\ MayRest(taker)
  /\ book' = InsertMaker(book, taker)
  /\ phase' = "drain"
  /\ Emit(<<Rested(taker)>>)
  /\ UNCHANGED <<taker, lastTrade, triggered, work, stopDepth, placed, acct, dropped>>

FinalizeEnded ==
  /\ LoopDone
  /\ ~MayRest(taker)
  /\ book' = MaybeCancelOco(book, taker.id)
  /\ phase' = "drain"
  /\ Emit((IF taker.remaining = 0 THEN <<>> ELSE <<Cancelled(taker.id, FinalReason(taker))>>)
            \o OcoEvents(book, taker.id))
  /\ UNCHANGED <<taker, lastTrade, triggered, work, stopDepth, placed, acct, dropped>>

(***************************************************************************)
(* drain_triggered with the price of the last trade of the run: the buy    *)
(* buckets in ascending price, then the sell buckets in ascending price.   *)
(***************************************************************************)
Triggers(s, stop, price) == IF s = "buy" THEN stop <= price ELSE stop >= price

(* Mutant of TriggerKeys: a stop at the traded price is not triggered. *)
TriggerKeysStrict(s) ==
  {p \in Price : /\ book.stops[s][p] # <<>> /\ lastTrade # None
                 /\ IF s = "buy" THEN p < lastTrade ELSE p > lastTrade}

TriggerKeys(s) ==
  {p \in Price : book.stops[s][p] # <<>> /\ lastTrade # None /\ Triggers(s, p, lastTrade)}

DrainStops(s, p) ==
  /\ phase = "drain"
  /\ p \in TriggerKeys(s)
  /\ \A q \in TriggerKeys(s) : p <= q
  /\ s = "sell" => TriggerKeys("buy") = {}
  /\ LET q == book.stops[s][p]
     IN triggered' = triggered \o [k \in 1..Len(q) |-> Convert(q[k])]
  /\ book' = SetStops(book, s, p, <<>>)
  /\ UNCHANGED <<phase, taker, lastTrade, work, stopDepth, events, placed, hist>>

(***************************************************************************)
(* The rest of an iteration of match_order's work queue: below the cap the *)
(* triggered stops are pushed, at the cap they vanish without an event.    *)
(* stop_depth counts triggered orders; it saturates above the cap, which   *)
(* the naturals need not model.                                            *)
(***************************************************************************)
Ids(q) == {q[k].id : k \in DOMAIN q}

RunDone == phase = "drain" /\ \A s \in Side : TriggerKeys(s) = {}

Cascade == stopDepth < MaxStopChainDepth

Queue == IF Cascade THEN work \o triggered ELSE work

AccountTriggered ==
  IF Cascade
  THEN /\ events' = events \o [k \in 1..Len(triggered) |-> StopTriggered(triggered[k].id)]
       /\ UNCHANGED dropped
  ELSE /\ dropped' = dropped \cup Ids(triggered)
       /\ UNCHANGED events

NextInQueue ==
  /\ RunDone
  /\ Queue # <<>>
  /\ taker' = Last(Queue) /\ work' = Front(Queue)
  /\ phase' = "match" /\ lastTrade' = None /\ triggered' = <<>>
  /\ stopDepth' = IF Cascade THEN stopDepth + Len(triggered) ELSE stopDepth
  /\ AccountTriggered
  /\ UNCHANGED <<book, placed, acct, ended>>

CommandDone ==
  /\ RunDone
  /\ Queue = <<>>
  /\ phase' = "idle" /\ taker' = None /\ lastTrade' = None
  /\ triggered' = <<>> /\ work' = <<>> /\ stopDepth' = 0
  /\ AccountTriggered
  /\ UNCHANGED <<book, placed, acct, ended>>

-----------------------------------------------------------------------------
Place(o)    == PlaceRejected(o) \/ PlaceStop(o) \/ PlaceActive(o)
Fill(p)     == FillMaker(p) \/ FillPart(p)
ApplyStp(p) == \/ StpCancelTaker(p) \/ StpCancelMaker(p)
               \/ StpCutMaker(p) \/ StpCutTaker(p) \/ StpCutBoth(p)
Finalize    == FinalizeRested \/ FinalizeEnded

(* What a command does once it is accepted, to its last event. *)
Step ==
  \/ \E p \in Price : Fill(p) \/ ApplyStp(p)
  \/ Finalize
  \/ \E s \in Side, p \in Price : DrainStops(s, p)
  \/ NextInQueue \/ CommandDone

Next ==
  \/ \E o \in Inputs : Place(o)
  \/ \E i \in Id : CancelOrder(i)
  \/ Step

Spec == Init /\ [][Next]_vars

(* match_order is a synchronous call: once begun it keeps stepping. *)
FairSpec == Spec /\ WF_vars(Step)

-----------------------------------------------------------------------------
Queues  == [Side -> [Price -> Seq(Order)]]
Reason  == {"no_liquidity", "fok_unfilled", "post_only_crossed", "stp", "oco", "admin_cancel"}
Event   == [kind: {"fill"}, taker: Id, maker: Id, price: Price, qty: Nat]
           \cup [kind: {"rested"}, id: Id, remaining: Nat]
           \cup [kind: {"cancelled"}, id: Id, reason: Reason]
           \cup [kind: {"stop_triggered"}, id: Id]
BookType == [level: Queues, index: [Id -> (Side \X Price) \cup {None}],
             stops: Queues, oco: [Id -> Id \cup {None}]]

AcctType == [Id -> [qty: Nat, filled: Nat, cut: Nat]]

(* Type invariant of the book and of the matching run. *)
TypeOK ==
  /\ book \in BookType
  /\ phase \in {"idle", "match", "drain"}
  /\ taker \in Order \cup {None}
  /\ phase # "idle" => taker \in Order
  /\ lastTrade \in Price \cup {None}
  /\ triggered \in Seq(Order) /\ work \in Seq(Order)
  /\ stopDepth \in Nat /\ events \in Seq(Event)
  /\ placed \in 0..MaxOrders
  /\ acct \in AcctType
  /\ ended \subseteq Id /\ dropped \subseteq Id

(* The best bid is below the best ask in every state, also between two     *)
(* fills and between two orders of a stop cascade: finalize_taker rests an *)
(* order only when nothing it could trade with is left (PRD case 3).       *)
NotCrossed == \A p \in Occupied("buy"), q \in Occupied("sell") : p < q

Resting(i, s, p) == Has(book.level[s][p], i)

(* order_index is exact: cancel_order finds every resting order at its     *)
(* level, and no entry survives the order (fills, STP, OCO, cancels).      *)
IndexExact ==
  \A i \in Id, s \in Side, p \in Price : Resting(i, s, p) <=> book.index[i] = <<s, p>>

Spots ==
  (UNION { {<<"level", s, p, k>> : k \in DOMAIN book.level[s][p]} : s \in Side, p \in Price })
  \cup (UNION { {<<"stops", s, p, k>> : k \in DOMAIN book.stops[s][p]} : s \in Side, p \in Price })
  \cup {<<"work", k>> : k \in DOMAIN work} \cup {<<"triggered", k>> : k \in DOMAIN triggered}
  \cup (IF phase = "match" THEN {<<"taker">>} ELSE {})

At(x) == CASE x[1] = "level" -> book.level[x[2]][x[3]][x[4]]
           [] x[1] = "stops" -> book.stops[x[2]][x[3]][x[4]]
           [] x[1] = "work" -> work[x[2]]
           [] x[1] = "triggered" -> triggered[x[2]]
           [] OTHER -> taker

(* An order is in one place at a time: a level, the stop registry, the     *)
(* work queue or the matching loop; a triggered stop leaves the registry.  *)
OnePlace == \A x, y \in Spots : At(x).id = At(y).id => x = y

(* No order trades more than its quantity: wherever an order is kept, what *)
(* it has left is its quantity minus its fills and its STP decrements, and *)
(* nothing with zero remaining stays in the book.                          *)
Conservation ==
  \A x \in Spots :
    LET o == At(x) a == acct[o.id]
    IN o.remaining + a.filled + a.cut = a.qty /\ (x[1] # "taker" => o.remaining > 0)

(* A post-only order never takes: no fill precedes the end of its run.     *)
PostOnlyNeverTakes ==
  phase # "idle" /\ taker.type = "post_only" => lastTrade = None

Live(b) == {i \in Id : InStops(b, i) \/ b.index[i] # None}

(* Between commands every submitted order has exactly one fate: it is live *)
(* in the book, a Cancelled event named it (never after it traded in full) *)
(* trades and STP decrements used it up, or the cascade cap dropped it.    *)
OneFate ==
  phase = "idle" => \A i \in 1..placed :
    /\ i \in ended => acct[i].filled < acct[i].qty
    /\ Cardinality({f \in {"live", "ended", "used_up", "dropped"} :
         \/ f = "live" /\ i \in Live(book)
         \/ f = "ended" /\ i \in ended
         \/ f = "used_up" /\ i \notin ended /\ acct[i].filled + acct[i].cut = acct[i].qty
         \/ f = "dropped" /\ i \in dropped}) = 1

(* The book's own records agree with each other in every state, between    *)
(* the steps of a command too: index, places and fates of the orders.      *)
BookSound == IndexExact /\ OnePlace /\ OneFate /\ PostOnlyNeverTakes

FillsOf(evs) == {k \in DOMAIN evs : evs[k].kind = "fill"}

(* When a command is over, no stop is left in the registry that the price  *)
(* of the command's last trade triggers, however long the cascade was.     *)
StopsSettled ==
  phase = "idle" => \A k \in FillsOf(events) :
    (\A j \in FillsOf(events) : j <= k) =>
      \A s \in Side, p \in Price :
        book.stops[s][p] # <<>> => ~Triggers(s, p, events[k].price)

(* Time priority: two orders of a level change places only when the first  *)
(* is an iceberg whose whole displayed quantity traded in this step.       *)
FifoKept ==
  [][\A s \in Side, p \in Price :
       LET old == book.level[s][p] new == book'.level[s][p]
       IN \A i, j \in DOMAIN old :
            /\ i < j
            /\ Has(new, old[i].id) /\ Has(new, old[j].id)
            /\ Pos(new, old[i].id) > Pos(new, old[j].id)
            => /\ old[i].display # None
               /\ acct'[old[i].id].filled = acct[old[i].id].filled + Effective(old[i])]_vars

(* An order that leaves by trading, or is finalised without resting, takes *)
(* an OCO partner that rests or waits as a stop with it in the same step   *)
(* (maybe_cancel_oco).  A partner in the queue of the cascade is not in    *)
(* the book for cancel_internal to find, and a leg that self-trade         *)
(* prevention ends leaves its partner (OcoLegsTogether below).             *)
(* register_oco lets an order name itself; that one has no partner.        *)
LeavesByTrade(i) ==
  /\ phase = "match"
  /\ i \notin Live(book)'
  /\ \/ i \in Live(book) /\ i \notin ended'
     \/ i = taker.id /\ phase' = "drain" /\ Cancelled(i, "stp") \notin {events'[k] : k \in DOMAIN events'}

OcoPartnerCancelled ==
  [][\A i \in Id : LeavesByTrade(i) /\ book.oco[i] \in Live(book) \ {i}
       => book.oco[i] \in ended' \ Live(book)']_vars

(* Every command terminates: matching, the STP handlers and the stop       *)
(* cascade always use something up.                                        *)
CommandTerminates == phase # "idle" ~> phase = "idle"

-----------------------------------------------------------------------------
(* Statements of the repository that the code does not meet. *)

(* types.rs: FOK "must fill entirely or reject with no state change".      *)
(* can_fully_fill counts the taker's own orders, which STP then removes.   *)
FokAllOrNothing ==
  phase = "idle" => \A k \in FillsOf(events) :
    Cancelled(events[k].taker, "fok_unfilled") \notin {events[j] : j \in DOMAIN events}

(* types.rs: OCO, "when one leg terminates, the other is cancelled".  A    *)
(* leg that self-trade prevention cancels leaves its partner in the book.  *)
OcoLegsTogether ==
  phase = "idle" => \A i \in ended : book.oco[i] # None => book.oco[i] \notin Live(book)
=============================================================================
