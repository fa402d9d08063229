---------------------------- MODULE EngineProofs ----------------------------
(***************************************************************************)
(* The order book and the server around it, for any number of orders,      *)
(* users and prices, any inputs, any cascade cap, any command log and any  *)
(* number of crashes.                                                      *)
(*                                                                         *)
(* First what a step does to the types and the two sides of the book: no   *)
(* resting orders cross, and queues keep their order.                      *)
(*                                                                         *)
(* Then the records of the book agree with each other: the index is exact, *)
(* an order is in one place, trades no more than its quantity, and meets   *)
(* one fate; after a command no stop waits behind its last trade.  That    *)
(* proof looks at the book through its stock, the sets of orders kept in   *)
(* each place, where the position in a queue no longer matters.  Every     *)
(* action is a few moves of the stock: an order arrives, shrinks, ends, is *)
(* used up, is dropped, or moves to another place.                         *)
(*                                                                         *)
(* Last the server: the book is sound through requests, crashes and the    *)
(* replays that follow them, and an order acknowledged as filled or        *)
(* canceled is out of the book.  The first needs to know what the WAL      *)
(* holds: replay_books takes its orders from there and nobody validates    *)
(* them again.  The second needs to know, while match_order runs, that an  *)
(* order which rests has been announced by the events the acknowledgement  *)
(* will be computed from.                                                  *)
(*                                                                         *)
(* On the same ground: orders of a level keep their time priority, an      *)
(* order that trades away takes its OCO partner with it, and open_orders   *)
(* covers every live order.  The last needs the entries as they will be    *)
(* once the events so far are applied, so ApplyUpdates is taken apart      *)
(* first, event by event.                                                  *)
(*                                                                         *)
(* And the length-prefixed file under it: a durable log.                   *)
(***************************************************************************)
EXTENDS Engine, Wal, Sums, SequenceTheorems, FiniteSetTheorems, TLAPS

-----------------------------------------------------------------------------
(* Queues and orders. *)

(* Lowering what an order has left yields an order (fills, decrements). *)
LEMMA RemainingOrder ==
  ASSUME NEW o \in Order, NEW r \in Nat
  PROVE  [o EXCEPT !.remaining = r] \in Order /\ [o EXCEPT !.remaining = r].id = o.id
  BY DEF Order

(* convert_stop yields an order that keeps its identity. *)
LEMMA ConvertOrder ==
  ASSUME NEW o \in Order
  PROVE  Convert(o) \in Order /\ Convert(o).id = o.id
  <1>1. CASE o.type = "stop_limit"   BY <1>1 DEF Order, Convert, OrderType
  <1>2. CASE o.type = "stop_market"  BY <1>2 DEF Order, Convert, OrderType
  <1>3. CASE o.type \notin {"stop_limit", "stop_market"}
    BY <1>3 DEF Order, Convert, OrderType
  <1> QED  BY <1>1, <1>2, <1>3

(* Removing an order from a level gives a queue, empty if the level was. *)
LEMMA RemoveIdType ==
  ASSUME NEW q \in Seq(Order), NEW i
  PROVE  RemoveId(q, i) \in Seq(Order) /\ (q = <<>> => RemoveId(q, i) = <<>>)
  <1>1. CASE Has(q, i)
    <2>1. PICK k \in DOMAIN q : q[k].id = i  BY <1>1 DEF Has
    <2>2. Pos(q, i) \in DOMAIN q             BY <2>1 DEF Pos
    <2>3. Pos(q, i) \in 1..Len(q)            BY <2>2
    <2>4. SubSeq(q, 1, Pos(q, i) - 1) \in Seq(Order)          BY <2>3, SubSeqProperties
    <2>5. SubSeq(q, Pos(q, i) + 1, Len(q)) \in Seq(Order)     BY <2>3, SubSeqProperties
    <2>6. q # <<>>                           BY <2>3
    <2> QED  BY <1>1, <2>4, <2>5, <2>6, ConcatProperties DEF RemoveId
  <1>2. CASE ~Has(q, i)  BY <1>2 DEF RemoveId
  <1> QED  BY <1>1, <1>2

(* StopRegistry::cancel's swap_remove gives a queue of orders. *)
LEMMA SwapRemoveType ==
  ASSUME NEW q \in Seq(Order), NEW i
  PROVE  SwapRemove(q, i) \in Seq(Order)
  <1>1. CASE Has(q, i)
    <2>1. PICK k \in DOMAIN q : q[k].id = i  BY <1>1 DEF Has
    <2>2. Len(q) \in Nat /\ Len(q) # 0       BY <2>1
    <2>3. Len(q) - 1 \in Nat                 BY <2>2
    <2>4. \A j \in 1..(Len(q) - 1) :
            (IF j = Pos(q, i) THEN q[Len(q)] ELSE q[j]) \in Order
      BY <2>2
    <2> QED  BY <1>1, <2>3, <2>4 DEF SwapRemove
  <1>2. CASE ~Has(q, i)  BY <1>2 DEF SwapRemove
  <1> QED  BY <1>1, <1>2

-----------------------------------------------------------------------------
(* Operations on the book. *)

(* A book's parts have their types, and parts of the right types make one. *)
LEMMA BookParts ==
  ASSUME NEW b \in BookType
  PROVE  /\ b.level \in Queues /\ b.stops \in Queues
         /\ b.index \in [Id -> (Side \X Price) \cup {None}]
         /\ b.oco \in [Id -> Id \cup {None}]
         /\ b = [level |-> b.level, index |-> b.index, stops |-> b.stops, oco |-> b.oco]
  BY DEF BookType

(* No bid is at or above an ask. *)
CrossFree(level) ==
  \A p, q \in Price : level["buy"][p] # <<>> /\ level["sell"][q] # <<>> => p < q

(* c is b with orders taken out: no level of c is new. *)
Shrinks(c, b) ==
  \A s \in Side, p \in Price : b[s][p] = <<>> => c[s][p] = <<>>

LEMMA ShrinkCrossFree ==
  ASSUME NEW b, NEW c, Shrinks(c, b), CrossFree(b)
  PROVE  CrossFree(c)
  BY DEF Shrinks, CrossFree, Side

(* Dropping an OCO link touches nothing else. *)
LEMMA UnlinkType ==
  ASSUME NEW b \in BookType, NEW i \in Id
  PROVE  Unlink(b, i) \in BookType /\ Unlink(b, i).level = b.level
  BY BookParts DEF Unlink, BookType

(* Replacing one queue or one index entry keeps the type of the book. *)
LEMMA SetLevelType ==
  ASSUME NEW b \in BookType, NEW s \in Side, NEW p \in Price, NEW q \in Seq(Order)
  PROVE  /\ SetLevel(b, s, p, q) \in BookType
         /\ SetLevel(b, s, p, q).level = [b.level EXCEPT ![s][p] = q]
         /\ (b.level[s][p] = <<>> => q = <<>>) => Shrinks(SetLevel(b, s, p, q).level, b.level)
         /\ SetLevel(b, s, p, q).index = b.index
         /\ SetLevel(b, s, p, q).stops = b.stops
  <1> DEFINE l == [b.level EXCEPT ![s][p] = q]
  <1>1. l \in Queues  BY BookParts DEF Queues
  <1>2. (b.level[s][p] = <<>> => q = <<>>) => Shrinks(l, b.level)
    BY BookParts DEF Queues, Shrinks
  <1> HIDE DEF l
  <1>3. /\ [b EXCEPT !.level = l] \in BookType
        /\ [b EXCEPT !.level = l].level = l
        /\ [b EXCEPT !.level = l].index = b.index
        /\ [b EXCEPT !.level = l].stops = b.stops
    BY <1>1, BookParts DEF BookType
  <1> QED  BY <1>2, <1>3 DEF SetLevel, l

LEMMA SetStopsType ==
  ASSUME NEW b \in BookType, NEW s \in Side, NEW p \in Price, NEW q \in Seq(Order)
  PROVE  SetStops(b, s, p, q) \in BookType /\ SetStops(b, s, p, q).level = b.level
  <1> DEFINE l == [b.stops EXCEPT ![s][p] = q]
  <1>1. l \in Queues  BY BookParts DEF Queues
  <1> HIDE DEF l
  <1>2. [b EXCEPT !.stops = l] \in BookType /\ [b EXCEPT !.stops = l].level = b.level
    BY <1>1, BookParts DEF BookType
  <1> QED  BY <1>2 DEF SetStops, l

LEMMA SetIndexType ==
  ASSUME NEW b \in BookType, NEW i \in Id, NEW e \in (Side \X Price) \cup {None}
  PROVE  /\ SetIndex(b, i, e) \in BookType
         /\ SetIndex(b, i, e).level = b.level /\ SetIndex(b, i, e).stops = b.stops
  <1> DEFINE x == [b.index EXCEPT ![i] = e]
  <1>1. x \in [Id -> (Side \X Price) \cup {None}]  BY BookParts
  <1> HIDE DEF x
  <1>2. /\ [b EXCEPT !.index = x] \in BookType
        /\ [b EXCEPT !.index = x].level = b.level /\ [b EXCEPT !.index = x].stops = b.stops
    BY <1>1, BookParts DEF BookType
  <1> QED  BY <1>2 DEF SetIndex, x

(* cancel_order_internal only takes orders out of the book. *)
LEMMA CancelInternalType ==
  ASSUME NEW b \in BookType, NEW i \in Id
  PROVE  CancelInternal(b, i) \in BookType /\ Shrinks(CancelInternal(b, i).level, b.level)
  <1> DEFINE s0 == b.index[i][1]
             p0 == b.index[i][2]
             t0 == [s \in Side |-> [p \in Price |-> SwapRemove(b.stops[s][p], i)]]
  <1>1. CASE InStops(b, i)
    <2>1. t0 \in Queues  BY BookParts, SwapRemoveType DEF Queues
    <2>2. CancelInternal(b, i) = [b EXCEPT !.stops = t0]  BY <1>1 DEF CancelInternal
    <2> QED  BY <2>1, <2>2, BookParts DEF BookType, Shrinks
  <1>2. CASE ~InStops(b, i) /\ b.index[i] # None
    <2>1. s0 \in Side /\ p0 \in Price  BY <1>2, BookParts
    <2>2. b.level[s0][p0] \in Seq(Order)  BY <2>1, BookParts DEF Queues
    <2> DEFINE q0 == RemoveId(b.level[s0][p0], i)
               c0 == SetIndex(b, i, None)
    <2>3. q0 \in Seq(Order) /\ (b.level[s0][p0] = <<>> => q0 = <<>>)  BY <2>2, RemoveIdType
    <2>4. c0 \in BookType /\ c0.level = b.level  BY SetIndexType
    <2>5. CancelInternal(b, i) = SetLevel(c0, s0, p0, q0)  BY <1>2 DEF CancelInternal
    <2> HIDE DEF q0, c0, s0, p0
    <2>6. (c0.level[s0][p0] = <<>> => q0 = <<>>)  BY <2>3, <2>4
    <2>7. SetLevel(c0, s0, p0, q0) \in BookType /\ Shrinks(SetLevel(c0, s0, p0, q0).level, c0.level)
      BY <2>1, <2>3, <2>4, <2>6, SetLevelType
    <2> QED  BY <2>4, <2>5, <2>7
  <1>3. CASE ~InStops(b, i) /\ b.index[i] = None  BY <1>3 DEF CancelInternal, Shrinks
  <1> QED  BY <1>1, <1>2, <1>3

(* So does maybe_cancel_oco. *)
LEMMA MaybeCancelOcoType ==
  ASSUME NEW b \in BookType, NEW i \in Id
  PROVE  MaybeCancelOco(b, i) \in BookType /\ Shrinks(MaybeCancelOco(b, i).level, b.level)
  <1>1. CASE b.oco[i] = None  BY <1>1 DEF MaybeCancelOco, Shrinks
  <1>2. CASE b.oco[i] # None
    <2>1. b.oco[i] \in Id  BY <1>2, BookParts
    <2> QED  BY <1>2, <2>1, UnlinkType, CancelInternalType DEF MaybeCancelOco
  <1> QED  BY <1>1, <1>2

(* register_oco touches the links only. *)
LEMMA RegisterOcoType ==
  ASSUME NEW b \in BookType, NEW i \in Id, NEW l \in Id \cup {None}
  PROVE  RegisterOco(b, i, l) \in BookType /\ RegisterOco(b, i, l).level = b.level
  BY BookParts DEF RegisterOco, BookType

(* A front maker is popped: the level keeps its other orders. *)
LEMMA PopFrontType ==
  ASSUME NEW b \in BookType, NEW s \in Side, NEW p \in Price, b.level[s][p] # <<>>
  PROVE  /\ PopFrontMaker(b, s, p) \in BookType
         /\ Shrinks(PopFrontMaker(b, s, p).level, b.level)
         /\ Head(b.level[s][p]) \in Order /\ Head(b.level[s][p]).id \in Id
  <1> DEFINE q == b.level[s][p]
             c == SetIndex(b, Head(q).id, None)
  <1>1. q \in Seq(Order)  BY BookParts DEF Queues
  <1>2. Head(q) \in Order /\ Tail(q) \in Seq(Order)  BY <1>1, HeadTailProperties
  <1>3. Head(q).id \in Id  BY <1>2 DEF Order
  <1>4. c \in BookType /\ c.level = b.level  BY <1>3, SetIndexType
  <1>5. PopFrontMaker(b, s, p) = SetLevel(c, s, p, Tail(q))  BY DEF PopFrontMaker
  <1>6. c.level[s][p] # <<>>  BY <1>4
  <1> HIDE DEF c, q
  <1>7. SetLevel(c, s, p, Tail(q)) \in BookType /\ Shrinks(SetLevel(c, s, p, Tail(q)).level, c.level)
    BY <1>2, <1>4, <1>6, SetLevelType
  <1> QED  BY <1>2, <1>3, <1>4, <1>5, <1>7 DEF q

(* The front maker is put back with less: the level stays occupied. *)
LEMMA ReplaceFrontType ==
  ASSUME NEW b \in BookType, NEW s \in Side, NEW p \in Price, b.level[s][p] # <<>>,
         NEW o \in Order
  PROVE  /\ ReplaceFront(b, s, p, o) \in BookType
         /\ Shrinks(ReplaceFront(b, s, p, o).level, b.level)
         /\ Requeue(b, s, p, o) \in BookType
         /\ Shrinks(Requeue(b, s, p, o).level, b.level)
  <1> DEFINE q == b.level[s][p]
  <1>1. q \in Seq(Order)  BY BookParts DEF Queues
  <1>2. Tail(q) \in Seq(Order)  BY <1>1, HeadTailProperties
  <1>3. <<o>> \o Tail(q) \in Seq(Order) /\ Append(Tail(q), o) \in Seq(Order)
    BY <1>2, ConcatProperties, AppendProperties
  <1> QED  BY <1>3, SetLevelType DEF ReplaceFront, Requeue

(* A taker that rests is appended to its own level. *)
LEMMA InsertMakerType ==
  ASSUME NEW b \in BookType, NEW o \in Order, o.price # None
  PROVE  /\ InsertMaker(b, o) \in BookType
         /\ o.side \in Side /\ o.price \in Price
         /\ InsertMaker(b, o).level =
              [b.level EXCEPT ![o.side][o.price] = Append(b.level[o.side][o.price], o)]
  <1> DEFINE c == SetIndex(b, o.id, <<o.side, o.price>>)
             q == Append(b.level[o.side][o.price], o)
  <1>1. o.id \in Id /\ o.side \in Side /\ o.price \in Price  BY DEF Order
  <1>2. c \in BookType /\ c.level = b.level  BY <1>1, SetIndexType
  <1>3. b.level[o.side][o.price] \in Seq(Order)  BY <1>1, BookParts DEF Queues
  <1>4. q \in Seq(Order)  BY <1>3, AppendProperties
  <1>5. InsertMaker(b, o) = SetLevel(c, o.side, o.price, q)  BY DEF InsertMaker
  <1> HIDE DEF c, q
  <1>6. /\ SetLevel(c, o.side, o.price, q) \in BookType
        /\ SetLevel(c, o.side, o.price, q).level = [c.level EXCEPT ![o.side][o.price] = q]
    BY <1>1, <1>2, <1>4, SetLevelType
  <1> QED  BY <1>1, <1>2, <1>5, <1>6 DEF q

-----------------------------------------------------------------------------
(* Events. *)

LEMMA CancelledEvent ==
  ASSUME NEW i \in Id, NEW why \in Reason
  PROVE  Cancelled(i, why) \in Event
  BY DEF Cancelled, Event

LEMMA FilledEvent ==
  ASSUME NEW i \in Id, NEW j \in Id, NEW p \in Price, NEW q \in Nat
  PROVE  Filled(i, j, p, q) \in Event
  BY DEF Filled, Event

LEMMA RestedEvent ==
  ASSUME NEW o \in Order
  PROVE  Rested(o) \in Event
  <1>1. o.id \in Id /\ o.remaining \in Nat  BY DEF Order
  <1> QED  BY <1>1 DEF Rested, Event

LEMMA TriggeredEvent ==
  ASSUME NEW i \in Id
  PROVE  StopTriggered(i) \in Event
  BY DEF StopTriggered, Event

(* Only orders are named by the Cancelled events of a sequence. *)
LEMMA CancelledInType ==
  ASSUME NEW evs \in Seq(Event)
  PROVE  CancelledIn(evs) \subseteq Id
  <1>1. ASSUME NEW e \in Event, e.kind = "cancelled"  PROVE e.id \in Id
    BY <1>1 DEF Event
  <1>2. ASSUME NEW k \in DOMAIN evs  PROVE evs[k] \in Event
    OBVIOUS
  <1> QED  BY <1>1, <1>2 DEF CancelledIn

LEMMA OutputType ==
  ASSUME NEW evs \in Seq(Event), ended \subseteq Id, Output(evs)
  PROVE  events' \in Seq(Event) /\ ended' \subseteq Id
  BY CancelledInType DEF Output

LEMMA EmitType ==
  ASSUME NEW evs \in Seq(Event), events \in Seq(Event), ended \subseteq Id, Emit(evs)
  PROVE  events' \in Seq(Event) /\ ended' \subseteq Id
  <1>1. events \o evs \in Seq(Event)  BY ConcatProperties
  <1> QED  BY <1>1, CancelledInType DEF Emit

LEMMA CancelEventsType ==
  ASSUME NEW b, NEW i \in Id, NEW why \in Reason
  PROVE  CancelEvents(b, i, why) \in Seq(Event)
  BY CancelledEvent DEF CancelEvents

LEMMA OcoEventsType ==
  ASSUME NEW b \in BookType, NEW i \in Id
  PROVE  OcoEvents(b, i) \in Seq(Event)
  <1>1. CASE b.oco[i] = None  BY <1>1 DEF OcoEvents
  <1>2. CASE b.oco[i] # None
    <2>1. b.oco[i] \in Id  BY <1>2, BookParts
    <2> QED  BY <1>2, <2>1, CancelEventsType DEF OcoEvents, Reason
  <1> QED  BY <1>1, <1>2

-----------------------------------------------------------------------------
(* The history of fills and decrements keeps its type. *)
LEMMA AcctUpdate ==
  ASSUME NEW a \in AcctType, NEW i \in Id, NEW n \in Nat
  PROVE  /\ AddFilled(a, i, n) \in AcctType /\ AddCut(a, i, n) \in AcctType
         /\ [a EXCEPT ![i] = [qty |-> n, filled |-> 0, cut |-> 0]] \in AcctType
  <1>1. a[i].qty \in Nat /\ a[i].filled \in Nat /\ a[i].cut \in Nat  BY DEF AcctType
  <1>2. a[i].filled + n \in Nat /\ a[i].cut + n \in Nat  BY <1>1
  <1>3. /\ [qty |-> a[i].qty, filled |-> a[i].filled + n, cut |-> a[i].cut] \in [qty: Nat, filled: Nat, cut: Nat]
        /\ [qty |-> a[i].qty, filled |-> a[i].filled, cut |-> a[i].cut + n] \in [qty: Nat, filled: Nat, cut: Nat]
        /\ [qty |-> n, filled |-> 0, cut |-> 0] \in [qty: Nat, filled: Nat, cut: Nat]
    BY <1>1, <1>2
  <1> QED  BY <1>3 DEF AddFilled, AddCut, AcctType

-----------------------------------------------------------------------------
(* What an iteration of the matching loop finds. *)
LEMMA MatchingFacts ==
  ASSUME TypeOK, NEW p \in Price, Matching(p)
  PROVE  /\ taker \in Order /\ taker.id \in Id /\ taker.remaining \in Nat
         /\ Opposite(taker.side) \in Side
         /\ book \in BookType /\ book.level[Opposite(taker.side)][p] # <<>>
         /\ Maker(p) \in Order /\ Maker(p).id \in Id
         /\ Maker(p).remaining \in Nat /\ Effective(Maker(p)) \in Nat
  <1>1. taker \in Order /\ book \in BookType  BY DEF TypeOK, Matching
  <1>2. taker.id \in Id /\ taker.remaining \in Nat  BY <1>1 DEF Order
  <1>3. Opposite(taker.side) \in Side  BY DEF Opposite, Side
  <1>4. book.level[Opposite(taker.side)][p] # <<>>  BY DEF Matching, Matchable, Occupied
  <1>5. Maker(p) \in Order /\ Maker(p).id \in Id
    BY <1>1, <1>3, <1>4, PopFrontType DEF Maker
  <1>6. Maker(p).remaining \in Nat /\ Maker(p).display \in Nat \cup {None}
    BY <1>5 DEF Order
  <1>7. Effective(Maker(p)) \in Nat  BY <1>6 DEF Effective, MinOf
  <1> QED  BY <1>1, <1>2, <1>3, <1>4, <1>5, <1>6, <1>7

-----------------------------------------------------------------------------
(* Each action keeps the type invariant; all but FinalizeRested take orders *)
(* out of the levels or leave them alone.                                   *)

LEMMA PlaceType ==
  ASSUME TypeOK, NEW o \in Inputs, Place(o)
  PROVE  TypeOK' /\ Shrinks(book'.level, book.level)
  <1>1. o \in Order /\ o.id \in Id /\ o.oco \in Id \cup {None} /\ o.quantity \in Nat
    BY ConstantsAssumption DEF Order
  <1> DEFINE b == RegisterOco(book, o.id, o.oco)
  <1>2. b \in BookType /\ b.level = book.level  BY <1>1, RegisterOcoType DEF TypeOK
  <1>3. acct' \in AcctType /\ placed' \in 0..MaxOrders
    <2>1. Submit(o)  BY DEF Place, PlaceRejected, PlaceStop, PlaceActive
    <2>2. acct' \in AcctType  BY <1>1, <2>1, AcctUpdate DEF Submit, TypeOK
    <2>3. placed' = o.id  BY <2>1 DEF Submit
    <2> QED  BY <1>1, <2>2, <2>3, ConstantsAssumption DEF Id
  <1>4. Shrinks(book.level, book.level)  BY DEF Shrinks
  <1>5. CASE PlaceRejected(o)
    <2>1. RejectReason(o) \in Reason  BY DEF RejectReason, Reason
    <2>2. <<Cancelled(o.id, RejectReason(o))>> \in Seq(Event)  BY <1>1, <2>1, CancelledEvent
    <2>3. events' \in Seq(Event) /\ ended' \subseteq Id
      BY <1>5, <2>2, OutputType DEF PlaceRejected, TypeOK
    <2>4. book' = b  BY <1>5 DEF PlaceRejected
    <2> HIDE DEF b
    <2> QED  BY <1>2, <1>3, <1>4, <1>5, <2>3, <2>4 DEF PlaceRejected, Submit, TypeOK
  <1>6. CASE PlaceStop(o)
    <2>1. o.side \in Side /\ o.stop \in Price
      BY <1>1, <1>6, ConstantsAssumption DEF Order, PlaceStop, ValidateWireOrder
    <2>2. b.stops[o.side][o.stop] \in Seq(Order)  BY <1>2, <2>1, BookParts DEF Queues
    <2>3. Append(b.stops[o.side][o.stop], o) \in Seq(Order)  BY <1>1, <2>2, AppendProperties
    <2>4. book' = SetStops(b, o.side, o.stop, Append(b.stops[o.side][o.stop], o))
      BY <1>6 DEF PlaceStop
    <2>5. <<Rested(o)>> \in Seq(Event)  BY <1>1, RestedEvent
    <2>6. events' \in Seq(Event) /\ ended' \subseteq Id
      BY <1>6, <2>5, OutputType DEF PlaceStop, TypeOK
    <2> HIDE DEF b
    <2>7. book' \in BookType /\ book'.level = book.level
      BY <1>2, <2>1, <2>3, <2>4, SetStopsType
    <2> QED  BY <1>3, <1>4, <1>6, <2>6, <2>7 DEF PlaceStop, Submit, TypeOK
  <1>7. CASE PlaceActive(o)
    <2>1. book' = b  BY <1>7 DEF PlaceActive
    <2>2. events' \in Seq(Event) /\ ended' \subseteq Id
      <3>1. <<>> \in Seq(Event)  OBVIOUS
      <3> QED  BY <1>7, <3>1, OutputType DEF PlaceActive, TypeOK
    <2> HIDE DEF b
    <2> QED  BY <1>1, <1>2, <1>3, <1>4, <1>7, <2>1, <2>2 DEF PlaceActive, Submit, TypeOK
  <1> QED  BY <1>5, <1>6, <1>7 DEF Place

LEMMA CancelOrderType ==
  ASSUME TypeOK, NEW i \in Id, CancelOrder(i)
  PROVE  TypeOK' /\ Shrinks(book'.level, book.level)
  <1> DEFINE b == Unlink(book, i)
             c == CancelInternal(b, i)
             l == book.oco[i]
             e == CancelEvents(b, i, "admin_cancel")
             f == IF l = None THEN <<>> ELSE CancelEvents(c, l, "oco")
  <1>1. book \in BookType /\ l \in Id \cup {None}  BY BookParts DEF TypeOK
  <1>2. b \in BookType /\ b.level = book.level  BY <1>1, UnlinkType
  <1>3. c \in BookType /\ Shrinks(c.level, b.level)  BY <1>2, CancelInternalType
  <1>4. l # None => CancelInternal(c, l) \in BookType /\ Shrinks(CancelInternal(c, l).level, c.level)
    BY <1>1, <1>3, CancelInternalType
  <1>5. book' = IF l = None THEN c ELSE CancelInternal(c, l)  BY DEF CancelOrder
  <1>6. e \in Seq(Event)  BY CancelEventsType DEF Reason
  <1>7. f \in Seq(Event)  BY <1>1, CancelEventsType DEF Reason
  <1>8. Output(e \o f)  BY DEF CancelOrder
  <1> HIDE DEF b, c, l, e, f
  <1>9. e \o f \in Seq(Event)  BY <1>6, <1>7, ConcatProperties
  <1>10. events' \in Seq(Event) /\ ended' \subseteq Id  BY <1>8, <1>9, OutputType DEF TypeOK
  <1>11. book' \in BookType /\ Shrinks(book'.level, book.level)
    BY <1>2, <1>3, <1>4, <1>5 DEF Shrinks
  <1> QED  BY <1>10, <1>11 DEF CancelOrder, ctl, TypeOK

LEMMA FillType ==
  ASSUME TypeOK, NEW p \in Price, Fill(p)
  PROVE  TypeOK' /\ Shrinks(book'.level, book.level)
  <1> DEFINE s == Opposite(taker.side)
             m == Maker(p)
             qty == MinOf(taker.remaining, Effective(m))
             b == PopFrontMaker(book, s, p)
             left == [m EXCEPT !.remaining = @ - qty]
  <1>1. Matching(p)  BY DEF Fill, FillMaker, FillPart
  <1>2. /\ taker \in Order /\ taker.id \in Id /\ taker.remaining \in Nat
        /\ s \in Side /\ book \in BookType /\ book.level[s][p] # <<>>
        /\ m \in Order /\ m.id \in Id /\ m.remaining \in Nat /\ Effective(m) \in Nat
    BY <1>1, MatchingFacts
  <1>3. qty \in Nat /\ taker.remaining - qty \in Nat  BY <1>2 DEF MinOf
  <1>4. Trade(p, qty)  BY DEF Fill, FillMaker, FillPart
  <1>5. b \in BookType /\ Shrinks(b.level, book.level)  BY <1>2, PopFrontType
  <1>6. Filled(taker.id, m.id, p, qty) \in Event  BY <1>2, <1>3, FilledEvent
  <1>7. \/ FillMaker(p)
        \/ FillPart(p)
    BY DEF Fill
  <1>8. ASSUME FillMaker(p)
        PROVE  /\ book' = MaybeCancelOco(b, m.id)
               /\ Emit(<<Filled(taker.id, m.id, p, qty)>> \o OcoEvents(b, m.id))
    BY <1>8 DEF FillMaker
  <1>9. ASSUME FillPart(p)
        PROVE  /\ qty < m.remaining
               /\ book' = IF m.display # None /\ qty = Effective(m)
                          THEN Requeue(book, s, p, left) ELSE ReplaceFront(book, s, p, left)
               /\ Emit(<<Filled(taker.id, m.id, p, qty)>>)
    BY <1>9 DEF FillPart
  <1>10. phase = "match"  BY <1>1 DEF Matching
  <1>11. left = [m EXCEPT !.remaining = m.remaining - qty]  OBVIOUS
  <1> HIDE DEF s, m, qty, b, left
  <1>12. [taker EXCEPT !.remaining = taker.remaining - qty] \in Order  BY <1>2, <1>3, RemainingOrder
  <1>13. taker' \in Order /\ lastTrade' \in Price /\ UNCHANGED <<phase, triggered, work, stopDepth, placed, dropped>>
    BY <1>4, <1>12 DEF Trade
  <1>14. acct' \in AcctType
    <2>1. AddFilled(acct, taker.id, qty) \in AcctType  BY <1>2, <1>3, AcctUpdate DEF TypeOK
    <2> QED  BY <1>2, <1>3, <1>4, <2>1, AcctUpdate DEF Trade, m
  <1>15. CASE FillMaker(p)
    <2>1. book' \in BookType /\ Shrinks(book'.level, b.level)
      BY <1>2, <1>5, <1>8, <1>15, MaybeCancelOcoType
    <2>2. Shrinks(book'.level, book.level)  BY <1>5, <2>1 DEF Shrinks
    <2>3. <<Filled(taker.id, m.id, p, qty)>> \o OcoEvents(b, m.id) \in Seq(Event)
      BY <1>2, <1>5, <1>6, OcoEventsType, ConcatProperties
    <2>4. events' \in Seq(Event) /\ ended' \subseteq Id
      BY <1>8, <1>15, <2>3, EmitType DEF TypeOK
    <2> QED  BY <1>13, <1>14, <2>1, <2>2, <2>4 DEF TypeOK
  <1>16. CASE FillPart(p)
    <2>1. m.remaining - qty \in Nat  BY <1>2, <1>3, <1>9, <1>16
    <2>2. left \in Order  BY <1>2, <1>11, <2>1, RemainingOrder
    <2>3. book' \in BookType /\ Shrinks(book'.level, book.level)
      BY <1>2, <1>9, <1>16, <2>2, ReplaceFrontType
    <2>4. <<Filled(taker.id, m.id, p, qty)>> \in Seq(Event)  BY <1>6
    <2>5. events' \in Seq(Event) /\ ended' \subseteq Id
      BY <1>9, <1>16, <2>4, EmitType DEF TypeOK
    <2> QED  BY <1>13, <1>14, <2>3, <2>5 DEF TypeOK
  <1> QED  BY <1>7, <1>15, <1>16

LEMMA ApplyStpType ==
  ASSUME TypeOK, NEW p \in Price, ApplyStp(p)
  PROVE  TypeOK' /\ Shrinks(book'.level, book.level)
  <1> DEFINE s == Opposite(taker.side)
             m == Maker(p)
             b == PopFrontMaker(book, s, p)
  <1>1. /\ Matching(p) /\ phase = "match"
        /\ UNCHANGED <<lastTrade, triggered, work, stopDepth, placed, dropped>>
    BY DEF ApplyStp, StpCancelTaker, StpCancelMaker, StpCutMaker, StpCutTaker, StpCutBoth,
           SelfMatch, Matching
  <1>2. /\ taker \in Order /\ taker.id \in Id /\ taker.remaining \in Nat
        /\ s \in Side /\ book \in BookType /\ book.level[s][p] # <<>>
        /\ m \in Order /\ m.id \in Id /\ m.remaining \in Nat
    BY <1>1, MatchingFacts
  <1>3. b \in BookType /\ Shrinks(b.level, book.level)  BY <1>2, PopFrontType
  <1>4. Cancelled(taker.id, "stp") \in Event /\ Cancelled(m.id, "stp") \in Event
    BY <1>2, CancelledEvent DEF Reason
  <1>5. /\ <<Cancelled(taker.id, "stp")>> \in Seq(Event)
        /\ <<Cancelled(m.id, "stp")>> \in Seq(Event)
        /\ <<Cancelled(m.id, "stp"), Cancelled(taker.id, "stp")>> \in Seq(Event)
    BY <1>4
  <1>6. /\ [taker EXCEPT !.remaining = 0] \in Order
        /\ \A r \in Nat : [taker EXCEPT !.remaining = r] \in Order /\ [m EXCEPT !.remaining = r] \in Order
    BY <1>2, RemainingOrder
  <1>7. events \in Seq(Event) /\ ended \subseteq Id /\ acct \in AcctType  BY DEF TypeOK
  <1>8. CASE StpCancelTaker(p)
    <2>1. Emit(<<Cancelled(taker.id, "stp")>>) /\ phase' = "drain" /\ UNCHANGED <<book, taker, acct>>
      BY <1>8 DEF StpCancelTaker
    <2>2. events' \in Seq(Event) /\ ended' \subseteq Id  BY <1>5, <1>7, <2>1, EmitType
    <2> QED  BY <1>1, <1>2, <2>1, <2>2 DEF TypeOK, Shrinks
  <1>9. CASE StpCancelMaker(p)
    <2>1. Emit(<<Cancelled(m.id, "stp")>>) /\ book' = b /\ UNCHANGED <<phase, taker, acct>>
      BY <1>9 DEF StpCancelMaker
    <2>2. events' \in Seq(Event) /\ ended' \subseteq Id  BY <1>5, <1>7, <2>1, EmitType
    <2> HIDE DEF b
    <2> QED  BY <1>1, <1>2, <1>3, <2>1, <2>2 DEF TypeOK
  <1>10. CASE StpCutMaker(p)
    <2> DEFINE left == [m EXCEPT !.remaining = m.remaining - taker.remaining]
    <2>1. /\ taker.remaining < m.remaining
          /\ book' = ReplaceFront(book, s, p, left)
          /\ taker' = [taker EXCEPT !.remaining = 0] /\ phase' = "drain"
          /\ acct' = AddCut(AddCut(acct, taker.id, taker.remaining), m.id, taker.remaining)
          /\ Emit(<<Cancelled(taker.id, "stp")>>)
      BY <1>10 DEF StpCutMaker
    <2>2. m.remaining - taker.remaining \in Nat  BY <1>2, <2>1
    <2>3. left \in Order  BY <1>6, <2>2
    <2> HIDE DEF left, m, s
    <2>4. book' \in BookType /\ Shrinks(book'.level, book.level)  BY <1>2, <2>1, <2>3, ReplaceFrontType
    <2>5. AddCut(acct, taker.id, taker.remaining) \in AcctType  BY <1>2, <1>7, AcctUpdate
    <2>6. acct' \in AcctType  BY <1>2, <2>1, <2>5, AcctUpdate
    <2>7. events' \in Seq(Event) /\ ended' \subseteq Id  BY <1>5, <1>7, <2>1, EmitType
    <2>8. taker' \in Order  BY <1>6, <2>1
    <2> QED  BY <1>1, <2>1, <2>4, <2>6, <2>7, <2>8 DEF TypeOK
  <1>11. CASE StpCutTaker(p)
    <2>1. /\ taker.remaining > m.remaining
          /\ book' = b
          /\ taker' = [taker EXCEPT !.remaining = taker.remaining - m.remaining]
          /\ acct' = AddCut(acct, taker.id, m.remaining)
          /\ Emit(<<Cancelled(m.id, "stp")>>) /\ UNCHANGED phase
      BY <1>11 DEF StpCutTaker
    <2>2. taker.remaining - m.remaining \in Nat  BY <1>2, <2>1
    <2> HIDE DEF b, m, s
    <2>3. taker' \in Order  BY <1>6, <2>1, <2>2
    <2>4. acct' \in AcctType  BY <1>2, <1>7, <2>1, AcctUpdate
    <2>5. events' \in Seq(Event) /\ ended' \subseteq Id  BY <1>5, <1>7, <2>1, EmitType
    <2> QED  BY <1>1, <1>3, <2>1, <2>3, <2>4, <2>5 DEF TypeOK
  <1>12. CASE StpCutBoth(p)
    <2>1. /\ book' = b
          /\ taker' = [taker EXCEPT !.remaining = 0] /\ phase' = "drain"
          /\ acct' = AddCut(acct, taker.id, taker.remaining)
          /\ Emit(<<Cancelled(m.id, "stp"), Cancelled(taker.id, "stp")>>)
      BY <1>12 DEF StpCutBoth
    <2> HIDE DEF b, m, s
    <2>2. taker' \in Order  BY <1>6, <2>1
    <2>3. acct' \in AcctType  BY <1>2, <1>7, <2>1, AcctUpdate
    <2>4. events' \in Seq(Event) /\ ended' \subseteq Id  BY <1>5, <1>7, <2>1, EmitType
    <2> QED  BY <1>1, <1>3, <2>1, <2>2, <2>3, <2>4 DEF TypeOK
  <1> QED  BY <1>8, <1>9, <1>10, <1>11, <1>12 DEF ApplyStp

(* A taker that rests finds no order it could trade with, so its own level *)
(* does not cross the other side.                                          *)
LEMMA FinalizeRestedType ==
  ASSUME TypeOK, FinalizeRested
  PROVE  TypeOK' /\ (CrossFree(book.level) => CrossFree(book'.level))
  <1>1. /\ phase = "match" /\ phase' = "drain" /\ MayRest(taker)
        /\ book' = InsertMaker(book, taker) /\ Emit(<<Rested(taker)>>)
        /\ UNCHANGED <<taker, lastTrade, triggered, work, stopDepth, placed, acct, dropped>>
    BY DEF FinalizeRested, LoopDone
  <1>2. taker \in Order /\ book \in BookType  BY <1>1 DEF TypeOK
  <1>3. taker.price # None  BY <1>1, <1>2 DEF MayRest, Order
  <1>4. /\ book' \in BookType /\ taker.side \in Side /\ taker.price \in Price
        /\ book'.level = [book.level EXCEPT ![taker.side][taker.price] =
                            Append(book.level[taker.side][taker.price], taker)]
    BY <1>1, <1>2, <1>3, InsertMakerType
  <1>5. events' \in Seq(Event) /\ ended' \subseteq Id
    <2>1. <<Rested(taker)>> \in Seq(Event)  BY <1>2, RestedEvent
    <2> QED  BY <1>1, <2>1, EmitType DEF TypeOK
  <1>6. TypeOK'  BY <1>1, <1>2, <1>4, <1>5 DEF TypeOK
  <1>7. taker.remaining > 0  BY <1>1 DEF MayRest
  <1>8. Matchable(taker) = {}
    <2>1. taker.remaining = 0 \/ Matchable(taker) = {}  BY DEF FinalizeRested, LoopDone
    <2> QED  BY <1>7, <2>1
  <1>9. ASSUME NEW q \in Price, book.level[Opposite(taker.side)][q] # <<>>
        PROVE  ~PriceSatisfied(taker, q)
    BY <1>8, <1>9 DEF Matchable, Occupied
  <1>10. ASSUME CrossFree(book.level)  PROVE CrossFree(book'.level)
    <2>1. book.level \in Queues  BY <1>2, BookParts
    <2>2. Price \subseteq Nat  BY ConstantsAssumption
    <2>3. CASE taker.side = "buy"
      <3>0. Opposite(taker.side) = "sell"  BY <2>3 DEF Opposite
      <3>1. ASSUME NEW q \in Price, book.level["sell"][q] # <<>>  PROVE taker.price < q
        <4>1. ~PriceSatisfied(taker, q)  BY <1>9, <3>0, <3>1
        <4>2. q \in Nat /\ taker.price \in Nat  BY <1>4, <2>2
        <4> QED  BY <1>3, <2>3, <4>1, <4>2 DEF PriceSatisfied
      <3>2. /\ book'.level["sell"] = book.level["sell"]
            /\ \A x \in Price : x # taker.price => book'.level["buy"][x] = book.level["buy"][x]
        BY <1>4, <2>1, <2>3 DEF Queues, Side
      <3> QED  BY <1>4, <1>10, <3>1, <3>2 DEF CrossFree
    <2>4. CASE taker.side = "sell"
      <3>0. Opposite(taker.side) = "buy"  BY <2>4 DEF Opposite
      <3>1. ASSUME NEW q \in Price, book.level["buy"][q] # <<>>  PROVE q < taker.price
        <4>1. ~PriceSatisfied(taker, q)  BY <1>9, <3>0, <3>1
        <4>2. q \in Nat /\ taker.price \in Nat  BY <1>4, <2>2
        <4> QED  BY <1>3, <2>4, <4>1, <4>2 DEF PriceSatisfied
      <3>2. /\ book'.level["buy"] = book.level["buy"]
            /\ \A x \in Price : x # taker.price => book'.level["sell"][x] = book.level["sell"][x]
        BY <1>4, <2>1, <2>4 DEF Queues, Side
      <3> QED  BY <1>4, <1>10, <3>1, <3>2 DEF CrossFree
    <2> QED  BY <1>4, <2>3, <2>4 DEF Side
  <1> QED  BY <1>6, <1>10

LEMMA FinalizeEndedType ==
  ASSUME TypeOK, FinalizeEnded
  PROVE  TypeOK' /\ Shrinks(book'.level, book.level)
  <1> DEFINE e == IF taker.remaining = 0 THEN <<>> ELSE <<Cancelled(taker.id, FinalReason(taker))>>
  <1>1. /\ phase = "match" /\ phase' = "drain"
        /\ book' = MaybeCancelOco(book, taker.id) /\ Emit(e \o OcoEvents(book, taker.id))
        /\ UNCHANGED <<taker, lastTrade, triggered, work, stopDepth, placed, acct, dropped>>
    BY DEF FinalizeEnded, LoopDone
  <1>2. taker \in Order /\ book \in BookType  BY <1>1 DEF TypeOK
  <1>3. taker.id \in Id  BY <1>2 DEF Order
  <1>4. book' \in BookType /\ Shrinks(book'.level, book.level)
    BY <1>1, <1>2, <1>3, MaybeCancelOcoType
  <1>5. FinalReason(taker) \in Reason  BY DEF FinalReason, Reason
  <1>6. Cancelled(taker.id, FinalReason(taker)) \in Event  BY <1>3, <1>5, CancelledEvent
  <1>7. e \in Seq(Event)  BY <1>6
  <1> HIDE DEF e
  <1>8. e \o OcoEvents(book, taker.id) \in Seq(Event)
    BY <1>2, <1>3, <1>7, OcoEventsType, ConcatProperties
  <1>9. events' \in Seq(Event) /\ ended' \subseteq Id  BY <1>1, <1>8, EmitType DEF TypeOK
  <1> QED  BY <1>1, <1>2, <1>4, <1>9 DEF TypeOK

LEMMA DrainStopsType ==
  ASSUME TypeOK, NEW s \in Side, NEW p \in Price, DrainStops(s, p)
  PROVE  TypeOK' /\ book'.level = book.level
  <1> DEFINE q == book.stops[s][p]
             r == [k \in 1..Len(q) |-> Convert(q[k])]
  <1>1. /\ phase = "drain" /\ triggered' = triggered \o r /\ book' = SetStops(book, s, p, <<>>)
        /\ UNCHANGED <<phase, taker, lastTrade, work, stopDepth, events, placed, hist>>
    BY DEF DrainStops
  <1>2. q \in Seq(Order)  BY BookParts DEF TypeOK, Queues
  <1>3. r \in Seq(Order)
    <2>1. \A k \in 1..Len(q) : Convert(q[k]) \in Order  BY <1>2, ConvertOrder
    <2> QED  BY <1>2, <2>1
  <1> HIDE DEF q, r
  <1>4. triggered' \in Seq(Order)  BY <1>1, <1>3, ConcatProperties DEF TypeOK
  <1>5. book' \in BookType /\ book'.level = book.level
    <2>1. <<>> \in Seq(Order)  OBVIOUS
    <2> QED  BY <1>1, <2>1, SetStopsType DEF TypeOK
  <1> QED  BY <1>1, <1>4, <1>5 DEF TypeOK, hist

(* The end of a run: the triggered stops are queued or dropped. *)
LEMMA AccountTriggeredType ==
  ASSUME TypeOK, phase = "drain", AccountTriggered
  PROVE  /\ Queue \in Seq(Order) /\ events' \in Seq(Event)
         /\ dropped' \subseteq Id
  <1> DEFINE e == [k \in 1..Len(triggered) |-> StopTriggered(triggered[k].id)]
  <1>1. triggered \in Seq(Order) /\ work \in Seq(Order) /\ events \in Seq(Event)
    BY DEF TypeOK
  <1>2. \A k \in 1..Len(triggered) : triggered[k].id \in Id  BY <1>1 DEF Order
  <1>3. e \in Seq(Event)
    <2>1. \A k \in 1..Len(triggered) : StopTriggered(triggered[k].id) \in Event
      BY <1>2, TriggeredEvent
    <2> QED  BY <1>1, <2>1
  <1>4. Queue \in Seq(Order)  BY <1>1, ConcatProperties DEF Queue
  <1>5. Ids(triggered) \subseteq Id  BY <1>1, <1>2 DEF Ids
  <1>6. dropped \subseteq Id  BY DEF TypeOK
  <1>8. CASE Cascade
    <2>1. events' = events \o e /\ dropped' = dropped  BY <1>8 DEF AccountTriggered
    <2> HIDE DEF e
    <2>2. events' \in Seq(Event)  BY <1>1, <1>3, <2>1, ConcatProperties
    <2> QED  BY <1>4, <1>6, <2>1, <2>2
  <1>9. CASE ~Cascade
    BY <1>1, <1>4, <1>5, <1>6, <1>9 DEF AccountTriggered
  <1> QED  BY <1>8, <1>9

LEMMA RunEndType ==
  ASSUME TypeOK, NextInQueue \/ CommandDone
  PROVE  TypeOK' /\ book' = book
  <1>1. phase = "drain" /\ AccountTriggered /\ UNCHANGED <<book, placed, acct, ended>>
    BY DEF NextInQueue, CommandDone, RunDone
  <1>2. /\ Queue \in Seq(Order) /\ events' \in Seq(Event)
        /\ dropped' \subseteq Id
    BY <1>1, AccountTriggeredType
  <1>3. <<>> \in Seq(Order)  OBVIOUS
  <1>4. CASE NextInQueue
    <2>1. /\ Queue # <<>> /\ taker' = Last(Queue) /\ work' = Front(Queue)
          /\ phase' = "match" /\ lastTrade' = None /\ triggered' = <<>>
          /\ stopDepth' = IF Cascade THEN stopDepth + Len(triggered) ELSE stopDepth
      BY <1>4 DEF NextInQueue
    <2>2. Last(Queue) \in Order /\ Front(Queue) \in Seq(Order)
      <3>1. Len(Queue) \in Nat /\ Len(Queue) # 0  BY <1>2, <2>1, EmptySeq
      <3>2. Len(Queue) \in 1..Len(Queue)  BY <3>1
      <3>3. \A k \in 1..(Len(Queue) - 1) : Queue[k] \in Order  BY <1>2, <3>1
      <3> QED  BY <1>2, <3>1, <3>2, <3>3, SubSeqProperties DEF Last, Front
    <2>3. stopDepth' \in Nat
      <3>1. stopDepth \in Nat /\ Len(triggered) \in Nat  BY DEF TypeOK
      <3> QED  BY <2>1, <3>1
    <2> QED  BY <1>1, <1>2, <1>3, <2>1, <2>2, <2>3 DEF TypeOK
  <1>5. CASE CommandDone
    BY <1>1, <1>2, <1>3, <1>5 DEF CommandDone, TypeOK
  <1> QED  BY <1>4, <1>5

-----------------------------------------------------------------------------
(* Both invariants together are inductive. *)
LEMMA InitOK ==
  ASSUME Init
  PROVE  TypeOK /\ CrossFree(book.level)
  <1>1. EmptyQueues \in Queues
    <2>1. <<>> \in Seq(Order)  OBVIOUS
    <2> QED  BY <2>1 DEF EmptyQueues, Queues
  <1>2. book \in BookType /\ book.level = EmptyQueues  BY <1>1 DEF Init, EmptyBook, BookType
  <1>3. acct \in AcctType  BY DEF Init, EmptyAcct, AcctType
  <1>4. <<>> \in Seq(Order) /\ <<>> \in Seq(Event)  OBVIOUS
  <1>5. placed \in 0..MaxOrders  BY ConstantsAssumption DEF Init
  <1>6. TypeOK  BY <1>2, <1>3, <1>4, <1>5 DEF Init, TypeOK
  <1> QED  BY <1>2, <1>6 DEF CrossFree, EmptyQueues, Side

LEMMA NextOK ==
  ASSUME TypeOK, CrossFree(book.level), [Next]_vars
  PROVE  TypeOK' /\ CrossFree(book'.level)
  <1>1. ASSUME NEW o \in Inputs, Place(o)  PROVE TypeOK' /\ CrossFree(book'.level)
    BY <1>1, PlaceType, ShrinkCrossFree
  <1>2. ASSUME NEW i \in Id, CancelOrder(i)  PROVE TypeOK' /\ CrossFree(book'.level)
    BY <1>2, CancelOrderType, ShrinkCrossFree
  <1>3. ASSUME NEW p \in Price, Fill(p)  PROVE TypeOK' /\ CrossFree(book'.level)
    BY <1>3, FillType, ShrinkCrossFree
  <1>4. ASSUME NEW p \in Price, ApplyStp(p)  PROVE TypeOK' /\ CrossFree(book'.level)
    BY <1>4, ApplyStpType, ShrinkCrossFree
  <1>5. CASE FinalizeRested  BY <1>5, FinalizeRestedType
  <1>6. CASE FinalizeEnded  BY <1>6, FinalizeEndedType, ShrinkCrossFree
  <1>7. ASSUME NEW s \in Side, NEW p \in Price, DrainStops(s, p)
        PROVE  TypeOK' /\ CrossFree(book'.level)
    BY <1>7, DrainStopsType
  <1>8. CASE NextInQueue \/ CommandDone  BY <1>8, RunEndType
  <1>9. CASE UNCHANGED vars  BY <1>9 DEF vars, TypeOK
  <1> QED  BY <1>1, <1>2, <1>3, <1>4, <1>5, <1>6, <1>7, <1>8, <1>9 DEF Next, Step, Finalize

(* Every reachable state of the book is well typed, for all inputs that    *)
(* validate_wire_order lets through.                                       *)
THEOREM TypeCorrect == Spec => []TypeOK
  <1>1. Init => TypeOK /\ CrossFree(book.level)  BY InitOK
  <1>2. TypeOK /\ CrossFree(book.level) /\ [Next]_vars => TypeOK' /\ CrossFree(book.level)'
    BY NextOK
  <1> QED  BY <1>1, <1>2, PTL DEF Spec

(* The book is never crossed (PRD 14, case 3), not even in the middle of a *)
(* match_order call.                                                       *)
THEOREM NeverCrossed == Spec => []NotCrossed
  <1>1. Init => TypeOK /\ CrossFree(book.level)  BY InitOK
  <1>2. TypeOK /\ CrossFree(book.level) /\ [Next]_vars => TypeOK' /\ CrossFree(book.level)'
    BY NextOK
  <1>3. CrossFree(book.level) => NotCrossed  BY DEF CrossFree, NotCrossed, Occupied
  <1> QED  BY <1>1, <1>2, <1>3, PTL DEF Spec

-----------------------------------------------------------------------------
(* Queues as sets of orders. *)

Distinct(q) == \A j, k \in DOMAIN q : q[j].id = q[k].id => j = k
Orders(q) == {q[k] : k \in DOMAIN q}
Others(X, i) == {o \in X : o.id # i}

LEMMA SeqFacts ==
  ASSUME NEW q \in Seq(Order)
  PROVE  /\ Len(q) \in Nat /\ DOMAIN q = 1..Len(q)
         /\ q = <<>> <=> Len(q) = 0
         /\ \A k \in 1..Len(q) : q[k] \in Order
         /\ Orders(q) \subseteq Order
         /\ q = <<>> <=> Orders(q) = {}
  <1>1. Len(q) \in Nat /\ DOMAIN q = 1..Len(q) /\ \A k \in 1..Len(q) : q[k] \in Order
    OBVIOUS
  <1>2. q = <<>> <=> Len(q) = 0  BY EmptySeq
  <1>3. Orders(q) \subseteq Order  BY <1>1 DEF Orders
  <1>4. Len(q) = 0 <=> Orders(q) = {}
    <2>1. Len(q) # 0 => 1 \in 1..Len(q)  BY <1>1
    <2> QED BY <1>1, <2>1 DEF Orders
  <1> QED BY <1>1, <1>2, <1>3, <1>4

LEMMA HasOrders ==
  ASSUME NEW q, NEW i
  PROVE  Has(q, i) <=> \E o \in Orders(q) : o.id = i
  BY DEF Has, Orders

(* Both ways to take an order out of a queue leave the others. *)
(* What is where once an order has been taken out. *)
LEMMA RemoveIdAt ==
  ASSUME NEW q \in Seq(Order), NEW i, Has(q, i)
  PROVE  \E m \in 1..Len(q) :
           /\ q[m].id = i
           /\ RemoveId(q, i) \in Seq(Order) /\ Len(RemoveId(q, i)) = Len(q) - 1
           /\ \A k \in 1..(Len(q) - 1) : RemoveId(q, i)[k] = IF k < m THEN q[k] ELSE q[k + 1]
  <1> DEFINE n == Len(q)
  <1>1. n \in Nat /\ DOMAIN q = 1..n  BY SeqFacts
  <1>2. PICK m \in 1..n : q[m].id = i /\ m = Pos(q, i)  BY <1>1 DEF Has, Pos
  <1>0. m \in Nat /\ 1 <= m /\ m <= n  BY <1>1
  <1> DEFINE a == SubSeq(q, 1, m - 1)
             b == SubSeq(q, m + 1, n)
             r == a \o b
  <1>3. r = RemoveId(q, i)  BY <1>2 DEF RemoveId
  <1>4. a \in Seq(Order) /\ Len(a) = m - 1 /\ \A k \in 1..(m - 1) : a[k] = q[k]
    BY <1>1, <1>2, SubSeqProperties
  <1>5. b \in Seq(Order) /\ Len(b) = n - m /\ \A k \in 1..(n - m) : b[k] = q[m + k]
    BY <1>1, <1>2, SubSeqProperties
  <1> HIDE DEF a, b, n
  <1>6. r \in Seq(Order) /\ Len(r) = n - 1
    <2>1. r \in Seq(Order) /\ Len(r) = Len(a) + Len(b)  BY <1>4, <1>5, ConcatProperties
    <2> QED BY <1>0, <1>1, <1>4, <1>5, <2>1
  <1>7. \A k \in 1..(n - 1) : r[k] = IF k < m THEN q[k] ELSE q[k + 1]
    <2> SUFFICES ASSUME NEW k \in 1..(n - 1) PROVE r[k] = IF k < m THEN q[k] ELSE q[k + 1]
      OBVIOUS
    <2>1. r[k] = IF k <= Len(a) THEN a[k] ELSE b[k - Len(a)]
      <3>1. Len(a) + Len(b) = n - 1  BY <1>0, <1>1, <1>4, <1>5
      <3> QED BY <1>4, <1>5, <3>1, ConcatProperties
    <2>2. CASE k < m  BY <1>1, <1>2, <1>4, <2>1, <2>2
    <2>3. CASE k >= m
      <3>1. k - (m - 1) \in 1..(n - m) /\ m + (k - (m - 1)) = k + 1  BY <1>1, <1>2, <2>3
      <3>2. b[k - (m - 1)] = q[k + 1]  BY <1>5, <3>1
      <3> QED BY <1>1, <1>2, <1>4, <2>1, <2>3, <3>2
    <2>4. k < m \/ k >= m  BY <1>0, <1>1
    <2> QED BY <2>2, <2>3, <2>4
  <1> HIDE DEF r
  <1> QED BY <1>2, <1>3, <1>6, <1>7 DEF n

LEMMA RemoveIdSet ==
  ASSUME NEW q \in Seq(Order), Distinct(q), NEW i
  PROVE  Distinct(RemoveId(q, i)) /\ Orders(RemoveId(q, i)) = Others(Orders(q), i)
  <1>1. CASE ~Has(q, i)
    BY <1>1, HasOrders DEF RemoveId, Others
  <1>2. CASE Has(q, i)
    <2>1. PICK n \in Nat : n = Len(q) /\ DOMAIN q = 1..n  BY SeqFacts
    <2>2. PICK m \in 1..n :
            /\ q[m].id = i
            /\ RemoveId(q, i) \in Seq(Order) /\ Len(RemoveId(q, i)) = n - 1
            /\ \A k \in 1..(n - 1) : RemoveId(q, i)[k] = IF k < m THEN q[k] ELSE q[k + 1]
      BY <1>2, <2>1, RemoveIdAt
    <2>3. PICK r : r = RemoveId(q, i)  OBVIOUS
    <2>6. r \in Seq(Order) /\ Len(r) = n - 1  BY <2>2, <2>3
    <2>7. \A k \in 1..(n - 1) : r[k] = IF k < m THEN q[k] ELSE q[k + 1]  BY <2>2, <2>3
    <2>8. DOMAIN r = 1..(n - 1)  BY <2>6, SeqFacts
    <2>9. Distinct(r)
      <3> SUFFICES ASSUME NEW j \in 1..(n - 1), NEW k \in 1..(n - 1), r[j].id = r[k].id
                   PROVE  j = k
        BY <2>8 DEF Distinct
      <3>1. /\ j \in 1..n /\ k \in 1..n /\ j + 1 \in 1..n /\ k + 1 \in 1..n  BY <2>1
      <3> QED BY <2>1, <2>2, <2>7, <3>1, SMTT(30) DEF Distinct
    <2>10. ASSUME NEW o \in Orders(r) PROVE o \in Others(Orders(q), i)
      <3>1. PICK k \in 1..(n - 1) : o = r[k]  BY <2>8 DEF Orders
      <3>2. k \in 1..n /\ k + 1 \in 1..n  BY <2>1
      <3>3. PICK j \in 1..n : o = q[j] /\ j # m  BY <2>1, <2>2, <2>7, <3>1, <3>2
      <3>4. o.id # i  BY <2>1, <2>2, <3>3 DEF Distinct
      <3> QED BY <2>1, <3>3, <3>4 DEF Orders, Others
    <2>11. ASSUME NEW o \in Others(Orders(q), i) PROVE o \in Orders(r)
      <3>1. PICK j \in 1..n : o = q[j]  BY <2>1, <2>11 DEF Orders, Others
      <3>2. j # m  BY <2>2, <2>11, <3>1 DEF Others
      <3>3. CASE j < m
        <4>1. j \in 1..(n - 1) /\ r[j] = q[j]  BY <2>1, <2>2, <2>7, <3>3
        <4> QED BY <2>8, <3>1, <4>1 DEF Orders
      <3>4. CASE j > m
        <4>1. j - 1 \in 1..(n - 1) /\ r[j - 1] = q[j]  BY <2>1, <2>2, <2>7, <3>4
        <4> QED BY <2>8, <3>1, <4>1 DEF Orders
      <3> QED BY <2>1, <2>2, <3>2, <3>3, <3>4
    <2>12. Orders(r) = Others(Orders(q), i)  BY <2>10, <2>11
    <2> QED BY <2>3, <2>9, <2>12
  <1> QED BY <1>1, <1>2

LEMMA SwapRemoveSet ==
  ASSUME NEW q \in Seq(Order), Distinct(q), NEW i
  PROVE  Distinct(SwapRemove(q, i)) /\ Orders(SwapRemove(q, i)) = Others(Orders(q), i)
  <1>1. CASE ~Has(q, i)
    BY <1>1, HasOrders DEF SwapRemove, Others
  <1>2. CASE Has(q, i)
    <2> DEFINE n == Len(q)
    <2>1. n \in Nat /\ DOMAIN q = 1..n  BY SeqFacts
    <2>2. PICK m \in 1..n : q[m].id = i /\ m = Pos(q, i)  BY <1>2, <2>1 DEF Has, Pos
    <2>3. PICK r : r = SwapRemove(q, i)  OBVIOUS
    <2>4. DOMAIN r = 1..(n - 1) /\ \A k \in 1..(n - 1) : r[k] = IF k = m THEN q[n] ELSE q[k]
      BY <1>2, <2>2, <2>3 DEF SwapRemove
    <2> HIDE DEF n
    <2>5. n \in 1..n /\ \A k \in 1..(n - 1) : k \in 1..n /\ k # n  BY <2>1, <2>2
    <2>6. Distinct(r)
      BY <2>1, <2>2, <2>4, <2>5 DEF Distinct
    <2>10. ASSUME NEW o \in Orders(r) PROVE o \in Others(Orders(q), i)
      <3>1. PICK k \in 1..(n - 1) : o = r[k]  BY <2>4 DEF Orders
      <3>2. PICK j \in 1..n : o = q[j] /\ j # m  BY <2>4, <2>5, <3>1
      <3>3. o.id # i  BY <2>1, <2>2, <3>2 DEF Distinct
      <3> QED BY <2>1, <3>2, <3>3 DEF Orders, Others
    <2>11. ASSUME NEW o \in Others(Orders(q), i) PROVE o \in Orders(r)
      <3>1. PICK j \in 1..n : o = q[j]  BY <2>1, <2>11 DEF Orders, Others
      <3>2. j # m  BY <2>2, <2>11, <3>1 DEF Others
      <3>3. CASE j = n
        <4>1. m \in 1..(n - 1) /\ r[m] = q[n]  BY <2>1, <2>2, <2>4, <3>2, <3>3
        <4> QED BY <2>4, <3>1, <3>3, <4>1 DEF Orders
      <3>4. CASE j # n
        <4>1. j \in 1..(n - 1) /\ r[j] = q[j]  BY <2>1, <2>4, <3>2, <3>4
        <4> QED BY <2>4, <3>1, <4>1 DEF Orders
      <3> QED BY <3>3, <3>4
    <2>12. Orders(r) = Others(Orders(q), i)  BY <2>10, <2>11
    <2> QED BY <2>3, <2>6, <2>12
  <1> QED BY <1>1, <1>2

(* The front maker is popped. *)
LEMMA TailSet ==
  ASSUME NEW q \in Seq(Order), Distinct(q), q # <<>>
  PROVE  /\ Head(q) \in Orders(q)
         /\ Tail(q) \in Seq(Order)
         /\ Distinct(Tail(q)) /\ Orders(Tail(q)) = Others(Orders(q), Head(q).id)
  <1> DEFINE n == Len(q)
  <1>1. n \in Nat /\ n # 0 /\ DOMAIN q = 1..n  BY SeqFacts
  <1>2. PICK r : r = Tail(q)  OBVIOUS
  <1>3. r \in Seq(Order) /\ Len(r) = n - 1 /\ \A k \in 1..(n - 1) : r[k] = q[k + 1]
    BY <1>1, <1>2, HeadTailProperties
  <1>4. DOMAIN r = 1..(n - 1)  BY <1>3, SeqFacts
  <1>5. Head(q) = q[1] /\ 1 \in 1..n  BY <1>1
  <1>6. \A k \in 1..(n - 1) : k + 1 \in 1..n /\ k + 1 # 1  BY <1>1
  <1>7. Distinct(r)
    <2> SUFFICES ASSUME NEW j \in 1..(n - 1), NEW k \in 1..(n - 1), r[j].id = r[k].id PROVE j = k
      BY <1>4 DEF Distinct
    <2>1. j + 1 = k + 1  BY <1>1, <1>3, <1>6 DEF Distinct
    <2> QED BY <1>1, <2>1
  <1>10. ASSUME NEW o \in Orders(r) PROVE o \in Others(Orders(q), Head(q).id)
    <2>1. PICK k \in 1..(n - 1) : o = r[k]  BY <1>4 DEF Orders
    <2>2. o = q[k + 1] /\ k + 1 \in 1..n /\ k + 1 # 1  BY <1>3, <1>6, <2>1
    <2>3. o.id # Head(q).id  BY <1>1, <1>5, <2>2 DEF Distinct
    <2> QED BY <1>1, <2>2, <2>3 DEF Orders, Others
  <1>11. ASSUME NEW o \in Others(Orders(q), Head(q).id) PROVE o \in Orders(r)
    <2>1. PICK j \in 1..n : o = q[j]  BY <1>1, <1>11 DEF Orders, Others
    <2>2. j # 1  BY <1>5, <1>11, <2>1 DEF Others
    <2>3. j - 1 \in 1..(n - 1) /\ r[j - 1] = q[j]  BY <1>1, <1>3, <2>2
    <2> QED BY <1>4, <2>1, <2>3 DEF Orders
  <1>12. Orders(r) = Others(Orders(q), Head(q).id)  BY <1>10, <1>11
  <1> QED BY <1>1, <1>2, <1>3, <1>5, <1>7, <1>12 DEF Orders

(* An order joins a queue that does not have it, at either end. *)
LEMMA JoinSet ==
  ASSUME NEW q \in Seq(Order), Distinct(q), NEW o \in Order,
         \A u \in Orders(q) : u.id # o.id
  PROVE  /\ Append(q, o) \in Seq(Order) /\ Distinct(Append(q, o))
         /\ Orders(Append(q, o)) = Orders(q) \cup {o}
         /\ <<o>> \o q \in Seq(Order) /\ Distinct(<<o>> \o q)
         /\ Orders(<<o>> \o q) = Orders(q) \cup {o}
  <1> DEFINE n == Len(q)
  <1>1. n \in Nat /\ DOMAIN q = 1..n  BY SeqFacts
  <1>2. \A k \in 1..n : q[k].id # o.id  BY <1>1 DEF Orders
  <1>3. PICK r : r = Append(q, o)  OBVIOUS
  <1>4. /\ r \in Seq(Order) /\ Len(r) = n + 1 /\ r[n + 1] = o
        /\ \A k \in 1..n : r[k] = q[k]
    BY <1>1, <1>3, AppendProperties
  <1>5. DOMAIN r = 1..(n + 1)  BY <1>4, SeqFacts
  <1>6. \A k \in 1..(n + 1) : k \in 1..n \/ k = n + 1  BY <1>1
  <1>7. 1..n \subseteq 1..(n + 1) /\ n + 1 \in 1..(n + 1)  BY <1>1
  <1>8. Distinct(r)  BY <1>1, <1>2, <1>4, <1>5, <1>6 DEF Distinct
  <1>9. Orders(r) = Orders(q) \cup {o}
    <2>1. ASSUME NEW u \in Orders(r) PROVE u \in Orders(q) \cup {o}
      BY <1>1, <1>4, <1>5, <1>6 DEF Orders
    <2>2. ASSUME NEW u \in Orders(q) PROVE u \in Orders(r)
      <3>1. PICK k \in 1..n : u = q[k]  BY <1>1 DEF Orders
      <3>2. k \in 1..(n + 1) /\ u = r[k]  BY <1>4, <1>7, <3>1
      <3> QED BY <1>5, <3>2 DEF Orders
    <2>3. o \in Orders(r)  BY <1>4, <1>5, <1>7 DEF Orders
    <2> QED BY <2>1, <2>2, <2>3
  <1>10. PICK t : t = <<o>> \o q  OBVIOUS
  <1>11. /\ t \in Seq(Order) /\ Len(t) = n + 1
         /\ \A k \in 1..(n + 1) : t[k] = IF k <= 1 THEN <<o>>[k] ELSE q[k - 1]
    <2>1. <<o>> \in Seq(Order) /\ Len(<<o>>) = 1  OBVIOUS
    <2> QED BY <1>1, <1>10, <2>1, ConcatProperties
  <1>12. t[1] = o /\ \A k \in 1..n : t[k + 1] = q[k]
    <2>1. t[1] = <<o>>[1]  BY <1>1, <1>11
    <2>2. ASSUME NEW k \in 1..n PROVE t[k + 1] = q[k]
      <3>1. k + 1 \in 1..(n + 1) /\ ~(k + 1 <= 1) /\ (k + 1) - 1 = k  BY <1>1
      <3> QED BY <1>11, <3>1
    <2> QED BY <2>1, <2>2
  <1>13. DOMAIN t = 1..(n + 1)  BY <1>11, SeqFacts
  <1>14. \A k \in 1..(n + 1) : k = 1 \/ (k - 1 \in 1..n /\ t[k] = q[k - 1])
    <2> SUFFICES ASSUME NEW k \in 1..(n + 1), k # 1 PROVE k - 1 \in 1..n /\ t[k] = q[k - 1]
      OBVIOUS
    <2>1. k - 1 \in 1..n /\ ~(k <= 1)  BY <1>1
    <2> QED BY <1>11, <2>1
  <1>15. Distinct(t)
    <2> SUFFICES ASSUME NEW j \in 1..(n + 1), NEW k \in 1..(n + 1), t[j].id = t[k].id PROVE j = k
      BY <1>13 DEF Distinct
    <2>1. CASE j = 1 \/ k = 1  BY <1>2, <1>12, <1>14, <2>1
    <2>2. CASE j # 1 /\ k # 1
      <3>1. j - 1 = k - 1  BY <1>1, <1>14, <2>2 DEF Distinct
      <3> QED BY <1>1, <3>1
    <2> QED BY <2>1, <2>2
  <1>16. Orders(t) = Orders(q) \cup {o}
    <2>1. ASSUME NEW u \in Orders(t) PROVE u \in Orders(q) \cup {o}
      BY <1>1, <1>12, <1>13, <1>14 DEF Orders
    <2>2. ASSUME NEW u \in Orders(q) PROVE u \in Orders(t)
      <3>1. PICK k \in 1..n : u = q[k]  BY <1>1 DEF Orders
      <3>2. k + 1 \in 1..(n + 1) /\ u = t[k + 1]  BY <1>1, <1>12, <3>1
      <3> QED BY <1>13, <3>2 DEF Orders
    <2>3. o \in Orders(t)
      <3>1. 1 \in 1..(n + 1)  BY <1>1
      <3> QED BY <1>12, <1>13, <3>1 DEF Orders
    <2> QED BY <2>1, <2>2, <2>3
  <1> QED BY <1>3, <1>4, <1>8, <1>9, <1>10, <1>11, <1>15, <1>16

LEMMA ConcatSet ==
  ASSUME NEW q \in Seq(Order), NEW r \in Seq(Order), Distinct(q), Distinct(r),
         \A o \in Orders(q), u \in Orders(r) : o.id # u.id
  PROVE  q \o r \in Seq(Order) /\ Distinct(q \o r) /\ Orders(q \o r) = Orders(q) \cup Orders(r)
  <1>1. PICK m, n, t : m = Len(q) /\ n = Len(r) /\ t = q \o r  OBVIOUS
  <1>2. m \in Nat /\ n \in Nat /\ DOMAIN q = 1..m /\ DOMAIN r = 1..n  BY <1>1, SeqFacts
  <1>3. t \in Seq(Order) /\ Len(t) = m + n
        /\ \A k \in 1..(m + n) : t[k] = IF k <= m THEN q[k] ELSE r[k - m]
    BY <1>1, ConcatProperties
  <1>4. DOMAIN t = 1..(m + n)  BY <1>3, SeqFacts
  <1>5. \A k \in 1..(m + n) : (k \in 1..m /\ t[k] = q[k])
                              \/ (k > m /\ k - m \in 1..n /\ t[k] = r[k - m])
    <2> SUFFICES ASSUME NEW k \in 1..(m + n)
                 PROVE  (k \in 1..m /\ t[k] = q[k]) \/ (k > m /\ k - m \in 1..n /\ t[k] = r[k - m])
      OBVIOUS
    <2>1. CASE k <= m  BY <1>2, <1>3, <2>1
    <2>2. CASE ~(k <= m)  BY <1>2, <1>3, <2>2
    <2> QED BY <2>1, <2>2
  <1>6. \A j \in 1..m, k \in 1..n : q[j].id # r[k].id  BY <1>2 DEF Orders
  <1>7. Distinct(t)
    <2> SUFFICES ASSUME NEW j \in 1..(m + n), NEW k \in 1..(m + n), t[j].id = t[k].id PROVE j = k
      BY <1>4 DEF Distinct
    <2>1. CASE j \in 1..m /\ t[j] = q[j] /\ k \in 1..m /\ t[k] = q[k]
      BY <1>2, <2>1 DEF Distinct
    <2>2. CASE j > m /\ j - m \in 1..n /\ t[j] = r[j - m] /\ k > m /\ k - m \in 1..n /\ t[k] = r[k - m]
      <3>1. j - m = k - m  BY <1>2, <2>2 DEF Distinct
      <3> QED BY <1>2, <3>1
    <2> QED BY <1>5, <1>6, <2>1, <2>2
  <1>8. Orders(t) = Orders(q) \cup Orders(r)
    <2>1. ASSUME NEW u \in Orders(t) PROVE u \in Orders(q) \cup Orders(r)
      BY <1>2, <1>4, <1>5 DEF Orders
    <2>2. ASSUME NEW u \in Orders(q) PROVE u \in Orders(t)
      <3>1. PICK k \in 1..m : u = q[k]  BY <1>2 DEF Orders
      <3>2. k \in 1..(m + n) /\ u = t[k]  BY <1>2, <1>3, <3>1
      <3> QED BY <1>4, <3>2 DEF Orders
    <2>3. ASSUME NEW u \in Orders(r) PROVE u \in Orders(t)
      <3>1. PICK k \in 1..n : u = r[k]  BY <1>2 DEF Orders
      <3>2. k + m \in 1..(m + n) /\ ~(k + m <= m) /\ (k + m) - m = k  BY <1>2
      <3>3. u = t[k + m]  BY <1>3, <3>1, <3>2
      <3> QED BY <1>4, <3>2, <3>3 DEF Orders
    <2> QED BY <2>1, <2>2, <2>3
  <1> QED BY <1>1, <1>3, <1>7, <1>8

(* The next order of the work queue, from its end. *)
LEMMA LastSet ==
  ASSUME NEW q \in Seq(Order), Distinct(q), q # <<>>
  PROVE  /\ Last(q) \in Orders(q) /\ Front(q) \in Seq(Order) /\ Distinct(Front(q))
         /\ Orders(Front(q)) = Others(Orders(q), Last(q).id)
  <1>1. PICK n, f : n = Len(q) /\ f = Front(q)  OBVIOUS
  <1>2. n \in Nat /\ n # 0 /\ DOMAIN q = 1..n /\ n \in 1..n  BY <1>1, SeqFacts
  <1>3. f \in Seq(Order) /\ Len(f) = n - 1 /\ \A k \in 1..(n - 1) : f[k] = q[k]
    <2>1. \A k \in 1..(n - 1) : q[k] \in Order  BY <1>1, <1>2, SeqFacts
    <2>2. 1 \in Nat /\ n - 1 \in Nat /\ f = SubSeq(q, 1, n - 1)  BY <1>1, <1>2 DEF Front
    <2> QED BY <1>2, <2>1, <2>2, SubSeqProperties
  <1>4. DOMAIN f = 1..(n - 1) /\ Last(q) = q[n]  BY <1>1, <1>3, SeqFacts DEF Last
  <1>5. \A k \in 1..(n - 1) : k \in 1..n /\ k # n  BY <1>2
  <1>6. \A k \in 1..n : k # n => k \in 1..(n - 1)  BY <1>2
  <1>7. Distinct(f)  BY <1>2, <1>3, <1>4, <1>5 DEF Distinct
  <1>8. \A u \in Orders(f) : u \in Others(Orders(q), q[n].id)
    BY <1>2, <1>3, <1>4, <1>5 DEF Orders, Others, Distinct
  <1>9. \A u \in Others(Orders(q), q[n].id) : u \in Orders(f)
    BY <1>2, <1>3, <1>4, <1>6 DEF Orders, Others
  <1> QED BY <1>1, <1>2, <1>3, <1>4, <1>7, <1>8, <1>9 DEF Orders

(* Triggered stops, converted. *)
LEMMA ConvertSet ==
  ASSUME NEW q \in Seq(Order), Distinct(q)
  PROVE  LET r == [k \in 1..Len(q) |-> Convert(q[k])] IN
         r \in Seq(Order) /\ Distinct(r) /\ Orders(r) = {Convert(o) : o \in Orders(q)}
  <1>1. PICK n, r : n = Len(q) /\ r = [k \in 1..Len(q) |-> Convert(q[k])]  OBVIOUS
  <1>2. n \in Nat /\ DOMAIN q = 1..n /\ \A k \in 1..n : q[k] \in Order  BY <1>1, SeqFacts
  <1>3. \A k \in 1..n : Convert(q[k]) \in Order /\ Convert(q[k]).id = q[k].id
    BY <1>2, ConvertOrder
  <1>4. r \in Seq(Order)  BY <1>1, <1>2, <1>3
  <1>5. DOMAIN r = 1..n /\ \A k \in 1..n : r[k] = Convert(q[k])  BY <1>1
  <1>6. Distinct(r)  BY <1>2, <1>3, <1>5 DEF Distinct
  <1>7. Orders(r) = {Convert(o) : o \in Orders(q)}  BY <1>2, <1>5 DEF Orders
  <1> QED BY <1>1, <1>4, <1>6, <1>7

LEMMA ConvertKeeps ==
  ASSUME NEW o \in Order
  PROVE  /\ Convert(o) \in Order /\ Convert(o).id = o.id /\ Convert(o).remaining = o.remaining
         /\ IsStop(o.type) => Convert(o).type \in {"limit", "market"}
  <1>1. Convert(o) \in Order /\ Convert(o).id = o.id  BY ConvertOrder
  <1>2. Convert(o).remaining = o.remaining  BY DEF Convert, Order
  <1>3. IsStop(o.type) => Convert(o).type \in {"limit", "market"}
    BY DEF Convert, Order, IsStop
  <1> QED BY <1>1, <1>2, <1>3

-----------------------------------------------------------------------------
(* The stock and its moves. *)

WK == <<"work", "none", 0>>
TR == <<"triggered", "none", 0>>
TK == <<"taker", "none", 0>>
LV(s, p) == <<"level", s, p>>
ST(s, p) == <<"stops", s, p>>
Places == {LV(s, p) : s \in Side, p \in Price} \cup {ST(s, p) : s \in Side, p \in Price}
          \cup {WK, TR, TK}
Stocks == [Places -> SUBSET Order]

(* An order is in one place. *)
Unique(S) == \A x, y \in Places : \A o \in S[x], u \in S[y] : o.id = u.id => x = y /\ o = u

(* Only the order in the matching loop may have nothing left. *)
Positive(S) == \A x \in Places \ {TK} : \A o \in S[x] : o.remaining > 0

Held(S, i) == \E x \in Places : \E o \in S[x] : o.id = i
Balanced(o, a) == o.remaining + a[o.id].filled + a[o.id].cut = a[o.id].qty
UsedUp(i, a) == a[i].filled + a[i].cut = a[i].qty

(* A submitted order is kept, and then neither cancelled nor dropped; or   *)
(* it is cancelled, dropped or used up.                                    *)
Fates(S, a, e, d, n) ==
  /\ \A x \in Places : \A o \in S[x] :
       o.id \in 1..n /\ o.id \notin e /\ o.id \notin d /\ Balanced(o, a)
  /\ \A i \in 1..n : Held(S, i) \/ i \in e \/ i \in d \/ UsedUp(i, a)
  /\ \A i \in e : i \in 1..n /\ i \notin d /\ a[i].filled < a[i].qty
  /\ \A i \in d : i \in 1..n /\ a[i].filled + a[i].cut < a[i].qty

(* T is S without the order i. *)
Without(S, T, i) == \A x \in Places : T[x] = Others(S[x], i)

LEMMA WithoutFacts ==
  ASSUME NEW S \in Stocks, NEW T \in Stocks, NEW i, Without(S, T, i), Unique(S)
  PROVE  /\ Unique(T)
         /\ Positive(S) => Positive(T)
         /\ \A j : Held(T, j) <=> Held(S, j) /\ j # i
         /\ \A x \in Places : T[x] \subseteq S[x]
  <1>1. \A x \in Places : T[x] \subseteq S[x]  BY DEF Without, Others
  <1>2. Unique(T)  BY <1>1 DEF Unique
  <1>3. Positive(S) => Positive(T)  BY <1>1 DEF Positive
  <1>4. \A j : Held(T, j) <=> Held(S, j) /\ j # i  BY DEF Held, Without, Others
  <1> QED BY <1>1, <1>2, <1>3, <1>4

LEMMA AcctNat ==
  ASSUME NEW a \in AcctType, NEW i \in Id
  PROVE  a[i].qty \in Nat /\ a[i].filled \in Nat /\ a[i].cut \in Nat
  BY DEF AcctType

LEMMA OrderNat ==
  ASSUME NEW S \in Stocks, NEW x \in Places, NEW o \in S[x]
  PROVE  o \in Order /\ o.id \in Id /\ o.id \in Nat /\ o.remaining \in Nat
  <1>1. o \in Order  BY DEF Stocks
  <1> QED BY <1>1, ConstantsAssumption DEF Order, Id

(* A cancelled order had something left. *)
LEMMA Ends ==
  ASSUME NEW S \in Stocks, NEW T \in Stocks, NEW a \in AcctType, NEW e, NEW d, NEW n \in 0..MaxOrders,
         Unique(S), Fates(S, a, e, d, n), NEW i, Without(S, T, i), Held(S, i),
         \A x \in Places : \A o \in S[x] : o.id = i => o.remaining > 0
  PROVE  Fates(T, a, e \cup {i}, d, n)
  <1>1. PICK x \in Places, o \in Order : o \in S[x] /\ o.id = i
    BY OrderNat DEF Held
  <1>2. i \in Id /\ o.remaining \in Nat /\ o.remaining > 0  BY <1>1, OrderNat
  <1>3. i \in 1..n /\ i \notin d /\ Balanced(o, a)  BY <1>1 DEF Fates
  <1>4. a[i].filled < a[i].qty
    BY <1>1, <1>2, <1>3, AcctNat DEF Balanced
  <1>5. \A y \in Places : \A u \in T[y] : u \in S[y] /\ u.id # i  BY DEF Without, Others
  <1>6. \A j : Held(T, j) <=> Held(S, j) /\ j # i  BY WithoutFacts
  <1> QED BY <1>3, <1>4, <1>5, <1>6 DEF Fates

(* Nothing to cancel. *)
LEMMA EndsNothing ==
  ASSUME NEW S \in Stocks, NEW T \in Stocks, NEW i, Without(S, T, i), ~Held(S, i)
  PROVE  T = S
  <1>1. \A x \in Places : T[x] = S[x]  BY DEF Without, Others, Held
  <1> QED BY <1>1 DEF Stocks

LEMMA IsUsedUp ==
  ASSUME NEW S \in Stocks, NEW T \in Stocks, NEW a \in AcctType, NEW e, NEW d, NEW n \in 0..MaxOrders,
         Unique(S), Fates(S, a, e, d, n), NEW x \in Places, NEW o \in S[x], o.remaining = 0,
         Without(S, T, o.id)
  PROVE  Fates(T, a, e, d, n)
  <1>1. UsedUp(o.id, a)
    <2>1. Balanced(o, a) /\ o.id \in Id  BY OrderNat DEF Fates
    <2>2. a[o.id].qty \in Nat /\ a[o.id].filled \in Nat /\ a[o.id].cut \in Nat  BY <2>1, AcctNat
    <2> QED BY <2>1, <2>2 DEF Balanced, UsedUp
  <1>2. \A y \in Places : \A u \in T[y] : u \in S[y] /\ u.id # o.id  BY DEF Without, Others
  <1>3. \A j : Held(T, j) <=> Held(S, j) /\ j # o.id  BY WithoutFacts
  <1> QED BY <1>1, <1>2, <1>3 DEF Fates

(* The order at x is replaced by one with less left. *)
Shrunk(S, T, x, o, u) ==
  /\ T[x] = Others(S[x], o.id) \cup {u}
  /\ \A y \in Places : y # x => T[y] = S[y]

LEMMA Shrinks1 ==
  ASSUME NEW S \in Stocks, NEW T \in Stocks, NEW a \in AcctType, NEW e, NEW d, NEW n \in 0..MaxOrders,
         Unique(S), Fates(S, a, e, d, n), NEW x \in Places, NEW o \in S[x], NEW u \in Order,
         NEW m \in Nat, NEW b \in AcctType, u.id = o.id, u.remaining + m = o.remaining,
         Shrunk(S, T, x, o, u),
         \A i \in Id : i # o.id => b[i] = a[i],
         b[o.id].qty = a[o.id].qty,
         b[o.id].filled + b[o.id].cut = a[o.id].filled + a[o.id].cut + m
  PROVE  Unique(T) /\ Fates(T, b, e, d, n)
  <1>1. o.id \in Id /\ o.remaining \in Nat /\ u.remaining \in Nat  BY OrderNat DEF Order
  <1>2. \A y \in Places : \A v \in T[y] : (v \in S[y] /\ v.id # o.id) \/ (y = x /\ v = u)
    <2> SUFFICES ASSUME NEW y \in Places, NEW v \in T[y]
                 PROVE  (v \in S[y] /\ v.id # o.id) \/ (y = x /\ v = u)
      OBVIOUS
    <2>1. CASE y = x  BY <2>1 DEF Shrunk, Others
    <2>2. CASE y # x  BY <2>2 DEF Shrunk, Unique
    <2> QED BY <2>1, <2>2
  <1>3. Unique(T)  BY <1>2 DEF Unique
  <1>4. Balanced(u, b)
    <2>1. Balanced(o, a)  BY DEF Fates
    <2>2. a[o.id].qty \in Nat /\ a[o.id].filled \in Nat /\ a[o.id].cut \in Nat
          /\ b[o.id].filled \in Nat /\ b[o.id].cut \in Nat
      BY <1>1, AcctNat
    <2> QED BY <1>1, <2>1, <2>2 DEF Balanced
  <1>5. \A j : Held(S, j) => Held(T, j)
    <2> SUFFICES ASSUME NEW j, NEW y \in Places, NEW v \in S[y], v.id = j PROVE Held(T, j)
      BY DEF Held
    <2>1. CASE v.id = o.id
      BY <2>1 DEF Held, Shrunk
    <2>2. CASE v.id # o.id
      BY <2>2 DEF Held, Shrunk, Others
    <2> QED BY <2>1, <2>2
  <1>6. \A y \in Places : \A v \in T[y] : v.id \in 1..n /\ v.id \notin e /\ v.id \notin d /\ Balanced(v, b)
    <2> SUFFICES ASSUME NEW y \in Places, NEW v \in T[y]
                 PROVE  v.id \in 1..n /\ v.id \notin e /\ v.id \notin d /\ Balanced(v, b)
      OBVIOUS
    <2>1. CASE v = u
      BY <1>4, <2>1 DEF Fates
    <2>2. CASE v \in S[y] /\ v.id # o.id
      <3>1. v.id \in Id  BY <2>2, OrderNat
      <3> QED BY <2>2, <3>1 DEF Fates, Balanced
    <2> QED BY <1>2, <2>1, <2>2
  <1>7. o.id \notin e /\ o.id \notin d /\ Held(S, o.id)  BY DEF Fates, Held
  <1> QED
    <2>1. \A i \in 1..n : Held(T, i) \/ i \in e \/ i \in d \/ UsedUp(i, b)
      <3> SUFFICES ASSUME NEW i \in 1..n, ~Held(T, i), i \notin e, i \notin d PROVE UsedUp(i, b)
        OBVIOUS
      <3>1. ~Held(S, i) /\ UsedUp(i, a)  BY <1>5 DEF Fates
      <3>2. i # o.id  BY <1>7, <3>1
      <3>3. i \in Id  BY ConstantsAssumption DEF Id
      <3> QED BY <3>1, <3>2, <3>3 DEF UsedUp
    <2>2. \A i \in e : i \in 1..n /\ i \notin d /\ b[i].filled < b[i].qty
      <3> SUFFICES ASSUME NEW i \in e PROVE i \in 1..n /\ i \notin d /\ b[i].filled < b[i].qty
        OBVIOUS
      <3>1. i \in 1..n /\ i \notin d /\ a[i].filled < a[i].qty  BY DEF Fates
      <3>2. i \in Id /\ i # o.id  BY <1>7, <3>1, ConstantsAssumption DEF Id
      <3> QED BY <3>1, <3>2
    <2>3. \A i \in d : i \in 1..n /\ b[i].filled + b[i].cut < b[i].qty
      <3> SUFFICES ASSUME NEW i \in d PROVE i \in 1..n /\ b[i].filled + b[i].cut < b[i].qty
        OBVIOUS
      <3>1. i \in 1..n /\ a[i].filled + a[i].cut < a[i].qty  BY DEF Fates
      <3>2. i \in Id /\ i # o.id  BY <1>7, <3>1, ConstantsAssumption DEF Id
      <3> QED BY <3>1, <3>2
    <2> QED BY <1>3, <1>6, <2>1, <2>2, <2>3 DEF Fates

(* An ended order is decremented (its own STP cut). *)
LEMMA CutEnded ==
  ASSUME NEW S \in Stocks, NEW a \in AcctType, NEW e, NEW d, NEW n \in 0..MaxOrders,
         Fates(S, a, e, d, n), NEW i \in e, NEW b \in AcctType,
         \A j \in Id : j # i => b[j] = a[j],
         b[i].qty = a[i].qty, b[i].filled = a[i].filled
  PROVE  Fates(S, b, e, d, n)
  <1>1. \A j \in 1..n : j \in Id  BY ConstantsAssumption DEF Id
  <1>2. \A x \in Places : \A o \in S[x] : Balanced(o, b)
    BY <1>1 DEF Fates, Balanced
  <1>3. i \notin d  BY DEF Fates
  <1>4. \A j \in 1..n : j # i => (UsedUp(j, a) <=> UsedUp(j, b))  BY <1>1 DEF UsedUp
  <1>5. \A j \in e : b[j].filled < b[j].qty
    <2> SUFFICES ASSUME NEW j \in e PROVE b[j].filled < b[j].qty  OBVIOUS
    <2>1. j \in Id /\ a[j].filled < a[j].qty  BY <1>1 DEF Fates
    <2>2. CASE j = i  BY <2>1, <2>2
    <2>3. CASE j # i  BY <2>1, <2>3
    <2> QED BY <2>2, <2>3
  <1>6. \A j \in d : b[j].filled + b[j].cut < b[j].qty
    <2> SUFFICES ASSUME NEW j \in d PROVE b[j].filled + b[j].cut < b[j].qty  OBVIOUS
    <2>1. j \in Id /\ a[j].filled + a[j].cut < a[j].qty /\ j # i  BY <1>1, <1>3 DEF Fates
    <2> QED BY <2>1
  <1> QED BY <1>2, <1>4, <1>5, <1>6 DEF Fates

(* The same orders with the same quantities, in other places. *)
LEMMA Rearranged ==
  ASSUME NEW S \in Stocks, NEW T \in Stocks, NEW a \in AcctType, NEW e, NEW d, NEW n \in Nat,
         Fates(S, a, e, d, n),
         \A y \in Places : \A v \in T[y] :
           \E x \in Places : \E o \in S[x] : o.id = v.id /\ o.remaining = v.remaining,
         \A i : Held(S, i) => Held(T, i)
  PROVE  Fates(T, a, e, d, n)
  <1>1. ASSUME NEW y \in Places, NEW v \in T[y]
        PROVE  v.id \in 1..n /\ v.id \notin e /\ v.id \notin d /\ Balanced(v, a)
    <2>1. PICK x \in Places : \E o \in S[x] : o.id = v.id /\ o.remaining = v.remaining  OBVIOUS
    <2>2. PICK o \in S[x] : o.id = v.id /\ o.remaining = v.remaining  BY <2>1
    <2>3. o.id \in 1..n /\ o.id \notin e /\ o.id \notin d /\ Balanced(o, a)  BY DEF Fates
    <2> QED BY <2>2, <2>3 DEF Balanced
  <1> QED BY <1>1 DEF Fates

(* An order comes into the place x. *)
Joined(S, T, x, o) ==
  /\ T[x] = S[x] \cup {o}
  /\ \A y \in Places : y # x => T[y] = S[y]

(* A new order is kept at x, with nothing traded. *)
LEMMA Arrives ==
  ASSUME NEW S \in Stocks, NEW T \in Stocks, NEW a \in AcctType, NEW e, NEW d,
         NEW n \in 0..MaxOrders, Unique(S), Fates(S, a, e, d, n),
         NEW x \in Places, NEW o \in Order, Joined(S, T, x, o), o.id = n + 1,
         NEW b \in AcctType, \A j \in Id : j # n + 1 => b[j] = a[j],
         b[n + 1] = [qty |-> o.remaining, filled |-> 0, cut |-> 0]
  PROVE  Unique(T) /\ Fates(T, b, e, d, n + 1)
  <1>1. \A j \in 1..n : j \in Id /\ j # n + 1 /\ j \in 1..(n + 1)  BY ConstantsAssumption DEF Id
  <1>2. n + 1 \in 1..(n + 1) /\ n + 1 \notin 1..n  BY ConstantsAssumption
  <1>3. \A y \in Places : \A v \in T[y] : (v \in S[y] /\ v.id \in 1..n) \/ (y = x /\ v = o)
    BY DEF Joined, Fates
  <1>4. Unique(T)  BY <1>2, <1>3 DEF Unique
  <1>5. n + 1 \notin e /\ n + 1 \notin d  BY <1>2 DEF Fates
  <1>6. Balanced(o, b)
    <2>1. o.remaining \in Nat  BY DEF Order
    <2>2. b[o.id].qty = o.remaining /\ b[o.id].filled = 0 /\ b[o.id].cut = 0  OBVIOUS
    <2> QED BY <2>1, <2>2 DEF Balanced
  <1>7. ASSUME NEW y \in Places, NEW v \in T[y]
        PROVE  v.id \in 1..(n + 1) /\ v.id \notin e /\ v.id \notin d /\ Balanced(v, b)
    <2>1. CASE v = o  BY <1>2, <1>5, <1>6, <2>1
    <2>2. CASE v \in S[y] /\ v.id \in 1..n
      <3>1. v.id \notin e /\ v.id \notin d /\ Balanced(v, a)  BY <2>2 DEF Fates
      <3> QED BY <1>1, <2>2, <3>1 DEF Balanced
    <2> QED BY <1>3, <2>1, <2>2
  <1>8. \A i : Held(S, i) => Held(T, i)  BY DEF Held, Joined
  <1>9. Held(T, n + 1)  BY DEF Held, Joined
  <1>10. \A i \in 1..(n + 1) : i \in 1..n \/ i = n + 1  BY ConstantsAssumption
  <1>11. \A i \in 1..n : UsedUp(i, a) => UsedUp(i, b)  BY <1>1 DEF UsedUp
  <1>12. \A i \in 1..(n + 1) : Held(T, i) \/ i \in e \/ i \in d \/ UsedUp(i, b)
    BY <1>8, <1>9, <1>10, <1>11 DEF Fates
  <1>13. \A i \in e : i \in 1..(n + 1) /\ i \notin d /\ b[i].filled < b[i].qty
    BY <1>1 DEF Fates
  <1>14. \A i \in d : i \in 1..(n + 1) /\ b[i].filled + b[i].cut < b[i].qty
    BY <1>1 DEF Fates
  <1> QED BY <1>4, <1>7, <1>12, <1>13, <1>14 DEF Fates

(* A new order is refused. *)
LEMMA Refused ==
  ASSUME NEW S \in Stocks, NEW a \in AcctType, NEW e, NEW d,
         NEW n \in 0..MaxOrders, Fates(S, a, e, d, n),
         NEW b \in AcctType, \A j \in Id : j # n + 1 => b[j] = a[j],
         b[n + 1].filled < b[n + 1].qty
  PROVE  Fates(S, b, e \cup {n + 1}, d, n + 1)
  <1>1. \A j \in 1..n : j \in Id /\ j # n + 1 /\ j \in 1..(n + 1)  BY ConstantsAssumption DEF Id
  <1>2. n + 1 \in 1..(n + 1) /\ n + 1 \notin 1..n  BY ConstantsAssumption
  <1>3. \A y \in Places : \A v \in S[y] :
          v.id \in 1..(n + 1) /\ v.id \notin e \cup {n + 1} /\ v.id \notin d /\ Balanced(v, b)
    BY <1>1 DEF Fates, Balanced
  <1>4. \A i \in 1..(n + 1) : i \in 1..n \/ i = n + 1  BY ConstantsAssumption
  <1>5. \A i \in 1..n : UsedUp(i, a) => UsedUp(i, b)  BY <1>1 DEF UsedUp
  <1>6. \A i \in 1..(n + 1) : Held(S, i) \/ i \in e \cup {n + 1} \/ i \in d \/ UsedUp(i, b)
    BY <1>4, <1>5 DEF Fates
  <1>7. \A i \in e \cup {n + 1} : i \in 1..(n + 1) /\ i \notin d /\ b[i].filled < b[i].qty
    BY <1>1, <1>2 DEF Fates
  <1>8. \A i \in d : i \in 1..(n + 1) /\ b[i].filled + b[i].cut < b[i].qty
    BY <1>1 DEF Fates
  <1> QED BY <1>3, <1>6, <1>7, <1>8 DEF Fates

(* The triggered orders are thrown away. *)
LEMMA ThrownAway ==
  ASSUME NEW S \in Stocks, NEW T \in Stocks, NEW a \in AcctType, NEW e, NEW d,
         NEW n \in 0..MaxOrders, Unique(S), Positive(S), Fates(S, a, e, d, n),
         TR \in Places, TR # TK,
         T[TR] = {}, \A y \in Places : y # TR => T[y] = S[y]
  PROVE  Fates(T, a, e, d \cup {o.id : o \in S[TR]}, n)
  <1> DEFINE f == d \cup {o.id : o \in S[TR]}
  <1>1. \A y \in Places : \A v \in T[y] : y # TR /\ v \in S[y]  OBVIOUS
  <1>2. \A y \in Places : \A v \in T[y] : v.id \notin f  BY <1>1 DEF Fates, Unique
  <1>3. \A i : Held(S, i) => Held(T, i) \/ i \in f  BY DEF Held
  <1>4. ASSUME NEW i \in f
        PROVE  i \in 1..n /\ i \notin e /\ a[i].filled + a[i].cut < a[i].qty
    <2>1. CASE i \in d  BY <2>1 DEF Fates
    <2>2. CASE i \notin d
      <3>1. PICK o \in S[TR] : o.id = i  BY <2>2
      <3>2. i \in Id /\ o.remaining \in Nat /\ o.remaining > 0  BY <3>1, OrderNat DEF Positive
      <3>3. i \in 1..n /\ i \notin e /\ Balanced(o, a)  BY <3>1 DEF Fates
      <3>4. a[i].qty \in Nat /\ a[i].filled \in Nat /\ a[i].cut \in Nat  BY <3>2, AcctNat
      <3>5. o.remaining + a[i].filled + a[i].cut = a[i].qty  BY <3>1, <3>3 DEF Balanced
      <3> QED BY <3>2, <3>3, <3>4, <3>5
    <2> QED BY <2>1, <2>2
  <1>5. \A i \in e : i \in 1..n /\ i \notin f /\ a[i].filled < a[i].qty  BY <1>4 DEF Fates
  <1>6. \A i \in 1..n : Held(T, i) \/ i \in e \/ i \in f \/ UsedUp(i, a)  BY <1>3 DEF Fates
  <1> HIDE DEF f
  <1>7. Fates(T, a, e, f, n)  BY <1>1, <1>2, <1>4, <1>5, <1>6 DEF Fates
  <1> QED BY <1>7 DEF f

-----------------------------------------------------------------------------
(* The stock of a book, a work queue, triggered stops and a taker. *)

Stock(b, w, t, ph, tk) ==
  [x \in Places |->
     CASE x[1] = "level" -> Orders(b.level[x[2]][x[3]])
       [] x[1] = "stops" -> Orders(b.stops[x[2]][x[3]])
       [] x[1] = "work"  -> Orders(w)
       [] x[1] = "triggered" -> Orders(t)
       [] OTHER -> IF ph = "match" THEN {tk} ELSE {}]

LEMMA PlaceNames ==
  /\ WK \in Places /\ TR \in Places /\ TK \in Places
  /\ WK # TR /\ WK # TK /\ TR # TK
  /\ \A s \in Side, p \in Price :
       /\ LV(s, p) \in Places /\ ST(s, p) \in Places
       /\ LV(s, p) # WK /\ LV(s, p) # TR /\ LV(s, p) # TK
       /\ ST(s, p) # WK /\ ST(s, p) # TR /\ ST(s, p) # TK
       /\ \A r \in Side, q \in Price :
            /\ LV(s, p) # ST(r, q)
            /\ LV(s, p) = LV(r, q) <=> s = r /\ p = q
            /\ ST(s, p) = ST(r, q) <=> s = r /\ p = q
  <1>1. WK \in Places /\ TR \in Places /\ TK \in Places  BY DEF Places
  <1>2. WK # TR /\ WK # TK /\ TR # TK  BY DEF WK, TR, TK
  <1>3. ASSUME NEW s \in Side, NEW p \in Price
        PROVE  /\ LV(s, p) \in Places /\ ST(s, p) \in Places
               /\ LV(s, p) # WK /\ LV(s, p) # TR /\ LV(s, p) # TK
               /\ ST(s, p) # WK /\ ST(s, p) # TR /\ ST(s, p) # TK
    <2>1. LV(s, p) \in Places /\ ST(s, p) \in Places  BY DEF Places
    <2>2. LV(s, p)[1] = "level" /\ ST(s, p)[1] = "stops"  BY DEF LV, ST
    <2>3. WK[1] = "work" /\ TR[1] = "triggered" /\ TK[1] = "taker"  BY DEF WK, TR, TK
    <2> QED BY <2>1, <2>2, <2>3
  <1>4. ASSUME NEW s \in Side, NEW p \in Price, NEW r \in Side, NEW q \in Price
        PROVE  /\ LV(s, p) # ST(r, q)
               /\ LV(s, p) = LV(r, q) <=> s = r /\ p = q
               /\ ST(s, p) = ST(r, q) <=> s = r /\ p = q
    BY DEF LV, ST
  <1> QED BY <1>1, <1>2, <1>3, <1>4

Shows(S, b, w, t, ph, tk) ==
  /\ S \in Stocks
  /\ \A s \in Side, p \in Price :
       S[LV(s, p)] = Orders(b.level[s][p]) /\ S[ST(s, p)] = Orders(b.stops[s][p])
  /\ S[WK] = Orders(w) /\ S[TR] = Orders(t)
  /\ S[TK] = IF ph = "match" THEN {tk} ELSE {}

LEMMA StockShows ==
  ASSUME NEW b \in BookType, NEW w \in Seq(Order), NEW t \in Seq(Order), NEW ph, NEW tk,
         ph = "match" => tk \in Order
  PROVE  Shows(Stock(b, w, t, ph, tk), b, w, t, ph, tk)
  <1>1. PICK S : S = Stock(b, w, t, ph, tk)  OBVIOUS
  <1>2. DOMAIN S = Places /\ S = [x \in Places |-> S[x]]  BY <1>1 DEF Stock
  <1>3. ASSUME NEW s \in Side, NEW p \in Price
        PROVE  /\ S[LV(s, p)] = Orders(b.level[s][p]) /\ S[ST(s, p)] = Orders(b.stops[s][p])
               /\ Orders(b.level[s][p]) \subseteq Order /\ Orders(b.stops[s][p]) \subseteq Order
    <2>1. LV(s, p) \in Places /\ ST(s, p) \in Places  BY PlaceNames
    <2>2. LV(s, p)[1] = "level" /\ LV(s, p)[2] = s /\ LV(s, p)[3] = p  BY DEF LV
    <2>3. ST(s, p)[1] = "stops" /\ ST(s, p)[2] = s /\ ST(s, p)[3] = p  BY DEF ST
    <2>4. S[LV(s, p)] = Orders(b.level[s][p])  BY <1>1, <2>1, <2>2 DEF Stock
    <2>5. S[ST(s, p)] = Orders(b.stops[s][p])  BY <1>1, <2>1, <2>3 DEF Stock
    <2>6. b.level[s][p] \in Seq(Order) /\ b.stops[s][p] \in Seq(Order)  BY BookParts DEF Queues
    <2> QED BY <2>4, <2>5, <2>6, SeqFacts
  <1>4. S[WK] = Orders(w)  BY <1>1, PlaceNames DEF Stock, WK
  <1>5. S[TR] = Orders(t)  BY <1>1, PlaceNames DEF Stock, TR
  <1>6. S[TK] = IF ph = "match" THEN {tk} ELSE {}  BY <1>1, PlaceNames DEF Stock, TK
  <1>7. S[WK] \subseteq Order /\ S[TR] \subseteq Order /\ S[TK] \subseteq Order
    BY <1>4, <1>5, <1>6, SeqFacts
  <1>8. \A x \in Places : S[x] \in SUBSET Order  BY <1>3, <1>7 DEF Places
  <1>9. S \in Stocks  BY <1>2, <1>8 DEF Stocks
  <1> QED BY <1>1, <1>3, <1>4, <1>5, <1>6, <1>9 DEF Shows

-----------------------------------------------------------------------------
(* Operations on the book, seen as sets. *)

Kept(b, i, s, p) == \E o \in Orders(b.level[s][p]) : o.id = i
Parked(b, i, s, p) == \E o \in Orders(b.stops[s][p]) : o.id = i
InBook(b, i) == \E s \in Side, p \in Price : Kept(b, i, s, p) \/ Parked(b, i, s, p)

(* The index names exactly the orders in the levels, none of the stops. *)
Good(b) ==
  /\ b \in BookType
  /\ \A s \in Side, p \in Price : Distinct(b.level[s][p]) /\ Distinct(b.stops[s][p])
  /\ \A i \in Id, s \in Side, p \in Price : Kept(b, i, s, p) <=> b.index[i] = <<s, p>>
  /\ \A i \in Id, s \in Side, p \in Price : Parked(b, i, s, p) => b.index[i] = None

BookWithout(b, c, i) ==
  \A s \in Side, p \in Price :
    /\ Orders(c.level[s][p]) = Others(Orders(b.level[s][p]), i)
    /\ Orders(c.stops[s][p]) = Others(Orders(b.stops[s][p]), i)

LEMMA BookQueues ==
  ASSUME NEW b \in BookType, NEW s \in Side, NEW p \in Price
  PROVE  b.level[s][p] \in Seq(Order) /\ b.stops[s][p] \in Seq(Order)
  BY BookParts DEF Queues

LEMMA SetLevelAt ==
  ASSUME NEW b \in BookType, NEW s \in Side, NEW p \in Price, NEW q \in Seq(Order)
  PROVE  LET c == SetLevel(b, s, p, q) IN
         /\ c \in BookType /\ c.stops = b.stops /\ c.index = b.index
         /\ c.level[s][p] = q
         /\ \A r \in Side, u \in Price : r # s \/ u # p => c.level[r][u] = b.level[r][u]
  <1>1. PICK c : c = SetLevel(b, s, p, q)  OBVIOUS
  <1>2. /\ c \in BookType /\ c.stops = b.stops /\ c.index = b.index
        /\ c.level = [b.level EXCEPT ![s][p] = q]
    BY <1>1, SetLevelType
  <1>3. b.level \in [Side -> [Price -> Seq(Order)]]  BY BookParts DEF Queues
  <1>4. c.level[s][p] = q /\ \A r \in Side, u \in Price : r # s \/ u # p => c.level[r][u] = b.level[r][u]
    BY <1>2, <1>3
  <1> QED BY <1>1, <1>2, <1>4

LEMMA SetStopsAt ==
  ASSUME NEW b \in BookType, NEW s \in Side, NEW p \in Price, NEW q \in Seq(Order)
  PROVE  LET c == SetStops(b, s, p, q) IN
         /\ c \in BookType /\ c.level = b.level /\ c.index = b.index
         /\ c.stops[s][p] = q
         /\ \A r \in Side, u \in Price : r # s \/ u # p => c.stops[r][u] = b.stops[r][u]
  <1>1. PICK c : c = SetStops(b, s, p, q)  OBVIOUS
  <1>2. PICK l : l = [b.stops EXCEPT ![s][p] = q]  OBVIOUS
  <1>3. l \in Queues  BY <1>2, BookParts DEF Queues
  <1>4. c \in BookType /\ c.level = b.level /\ c.index = b.index /\ c.stops = l
    BY <1>1, <1>2, <1>3, BookParts DEF SetStops, BookType
  <1>5. b.stops \in [Side -> [Price -> Seq(Order)]]  BY BookParts DEF Queues
  <1>6. l[s][p] = q /\ \A r \in Side, u \in Price : r # s \/ u # p => l[r][u] = b.stops[r][u]
    BY <1>2, <1>5
  <1> QED BY <1>1, <1>4, <1>6

LEMMA SetIndexAt ==
  ASSUME NEW b \in BookType, NEW i \in Id, NEW e \in (Side \X Price) \cup {None}
  PROVE  LET c == SetIndex(b, i, e) IN
         /\ c \in BookType /\ c.level = b.level /\ c.stops = b.stops
         /\ c.index[i] = e /\ \A j \in Id : j # i => c.index[j] = b.index[j]
  <1>1. PICK c : c = SetIndex(b, i, e)  OBVIOUS
  <1>2. PICK x : x = [b.index EXCEPT ![i] = e]  OBVIOUS
  <1>3. x \in [Id -> (Side \X Price) \cup {None}]  BY <1>2, BookParts
  <1>4. c \in BookType /\ c.level = b.level /\ c.stops = b.stops /\ c.index = x
    BY <1>1, <1>2, <1>3, BookParts DEF SetIndex, BookType
  <1>5. x[i] = e /\ \A j \in Id : j # i => x[j] = b.index[j]  BY <1>2, BookParts
  <1> QED BY <1>1, <1>4, <1>5

(* An order taken out of the levels, its index entry cleared. *)
LEMMA LevelOut ==
  ASSUME NEW b, Good(b), NEW i \in Id, NEW s \in Side, NEW p \in Price, b.index[i] = <<s, p>>,
         NEW q \in Seq(Order), Distinct(q), Orders(q) = Others(Orders(b.level[s][p]), i)
  PROVE  LET c == SetLevel(SetIndex(b, i, None), s, p, q) IN Good(c) /\ BookWithout(b, c, i)
  <1>1. b \in BookType  BY DEF Good
  <1>2. PICK d : d = SetIndex(b, i, None)  OBVIOUS
  <1>3. /\ d \in BookType /\ d.level = b.level /\ d.stops = b.stops
        /\ d.index[i] = None /\ \A j \in Id : j # i => d.index[j] = b.index[j]
    BY <1>1, <1>2, SetIndexAt
  <1>4. PICK c : c = SetLevel(d, s, p, q)  OBVIOUS
  <1>5. /\ c \in BookType /\ c.stops = b.stops /\ c.index = d.index /\ c.level[s][p] = q
        /\ \A r \in Side, u \in Price : r # s \/ u # p => c.level[r][u] = b.level[r][u]
    BY <1>3, <1>4, SetLevelAt
  <1>6. \A r \in Side, u \in Price : r # s \/ u # p => ~Kept(b, i, r, u)
    <2> SUFFICES ASSUME NEW r \in Side, NEW u \in Price, r # s \/ u # p, Kept(b, i, r, u)
                 PROVE  FALSE
      OBVIOUS
    <2>1. b.index[i] = <<r, u>>  BY DEF Good
    <2> QED BY <2>1
  <1>7. \A r \in Side, u \in Price : ~Parked(b, i, r, u)
    <2>1. <<s, p>> # None  BY ConstantsAssumption
    <2> QED BY <2>1 DEF Good
  <1>8. ASSUME NEW r \in Side, NEW u \in Price
        PROVE  /\ Orders(c.level[r][u]) = Others(Orders(b.level[r][u]), i)
               /\ Orders(c.stops[r][u]) = Others(Orders(b.stops[r][u]), i)
    <2>1. CASE r = s /\ u = p
      BY <1>5, <1>7, <2>1 DEF Others, Parked
    <2>2. CASE r # s \/ u # p
      BY <1>5, <1>6, <1>7, <2>2 DEF Others, Kept, Parked
    <2> QED BY <2>1, <2>2
  <1>9. BookWithout(b, c, i)  BY <1>8 DEF BookWithout
  <1>10. \A r \in Side, u \in Price : Distinct(c.level[r][u]) /\ Distinct(c.stops[r][u])
    BY <1>5 DEF Good
  <1>11. \A j \in Id, r \in Side, u \in Price :
           /\ Kept(c, j, r, u) <=> Kept(b, j, r, u) /\ j # i
           /\ Parked(c, j, r, u) <=> Parked(b, j, r, u) /\ j # i
    BY <1>8 DEF Others, Kept, Parked
  <1>12. \A r \in Side, u \in Price : <<r, u>> # None  BY ConstantsAssumption
  <1>13. \A j \in Id, r \in Side, u \in Price : Kept(c, j, r, u) <=> c.index[j] = <<r, u>>
    <2> SUFFICES ASSUME NEW j \in Id, NEW r \in Side, NEW u \in Price
                 PROVE  Kept(c, j, r, u) <=> c.index[j] = <<r, u>>
      OBVIOUS
    <2>1. CASE j = i  BY <1>3, <1>5, <1>11, <1>12, <2>1
    <2>2. CASE j # i  BY <1>3, <1>5, <1>11, <2>2 DEF Good
    <2> QED BY <2>1, <2>2
  <1>14. \A j \in Id, r \in Side, u \in Price : Parked(c, j, r, u) => c.index[j] = None
    BY <1>3, <1>5, <1>11 DEF Good
  <1>15. Good(c)  BY <1>5, <1>10, <1>13, <1>14 DEF Good
  <1> QED BY <1>2, <1>4, <1>9, <1>15

LEMMA CancelGood ==
  ASSUME NEW b, Good(b), NEW i \in Id
  PROVE  LET c == CancelInternal(b, i) IN Good(c) /\ BookWithout(b, c, i)
  <1>1. b \in BookType  BY DEF Good
  <1>2. PICK c : c = CancelInternal(b, i)  OBVIOUS
  <1>3. InStops(b, i) <=> \E s \in Side, p \in Price : Parked(b, i, s, p)
    BY HasOrders DEF InStops, Parked
  <1>4. CASE InStops(b, i)
    <2>1. PICK t : t = [s \in Side |-> [p \in Price |-> SwapRemove(b.stops[s][p], i)]]  OBVIOUS
    <2>2. t \in Queues  BY <1>1, <2>1, BookQueues, SwapRemoveType DEF Queues
    <2>3. c = [b EXCEPT !.stops = t]  BY <1>2, <1>4, <2>1 DEF CancelInternal
    <2>4. c \in BookType /\ c.level = b.level /\ c.index = b.index /\ c.stops = t
      BY <1>1, <2>2, <2>3, BookParts DEF BookType
    <2>5. ASSUME NEW s \in Side, NEW p \in Price
          PROVE  Distinct(c.stops[s][p]) /\ Orders(c.stops[s][p]) = Others(Orders(b.stops[s][p]), i)
      <3>1. b.stops[s][p] \in Seq(Order) /\ Distinct(b.stops[s][p])  BY <1>1, BookQueues DEF Good
      <3>2. c.stops[s][p] = SwapRemove(b.stops[s][p], i)  BY <2>1, <2>4
      <3> QED BY <3>1, <3>2, SwapRemoveSet
    <2>6. b.index[i] = None  BY <1>3, <1>4 DEF Good
    <2>7. \A s \in Side, p \in Price : ~Kept(b, i, s, p)
      <3>1. \A s \in Side, p \in Price : <<s, p>> # None  BY ConstantsAssumption
      <3> QED BY <2>6, <3>1 DEF Good
    <2>8. BookWithout(b, c, i)
      BY <2>4, <2>5, <2>7 DEF BookWithout, Others, Kept
    <2>9. \A j \in Id, s \in Side, p \in Price :
            (Kept(c, j, s, p) <=> Kept(b, j, s, p)) /\ (Parked(c, j, s, p) => Parked(b, j, s, p))
      BY <2>4, <2>5 DEF Kept, Parked, Others
    <2>10. Good(c)  BY <2>4, <2>5, <2>9 DEF Good
    <2> QED BY <1>2, <2>8, <2>10
  <1>5. CASE ~InStops(b, i) /\ b.index[i] # None
    <2>1. b.index[i] \in Side \X Price  BY <1>1, <1>5, BookParts
    <2>2. PICK s \in Side, p \in Price : b.index[i] = <<s, p>>  BY <2>1
    <2>3. b.level[s][p] \in Seq(Order) /\ Distinct(b.level[s][p])  BY <1>1, BookQueues DEF Good
    <2>4. PICK q : q = RemoveId(b.level[s][p], i)  OBVIOUS
    <2>5. q \in Seq(Order) /\ Distinct(q) /\ Orders(q) = Others(Orders(b.level[s][p]), i)
      BY <2>3, <2>4, RemoveIdType, RemoveIdSet
    <2>6. c = SetLevel(SetIndex(b, i, None), s, p, q)
      BY <1>2, <1>5, <2>2, <2>4 DEF CancelInternal
    <2> QED BY <1>2, <2>2, <2>5, <2>6, LevelOut
  <1>6. CASE ~InStops(b, i) /\ b.index[i] = None
    <2>1. c = b  BY <1>2, <1>6 DEF CancelInternal
    <2>2. \A s \in Side, p \in Price : ~Kept(b, i, s, p)
      <3>1. \A s \in Side, p \in Price : <<s, p>> # None  BY ConstantsAssumption
      <3> QED BY <1>6, <3>1 DEF Good
    <2>3. BookWithout(b, c, i)  BY <1>3, <1>6, <2>1, <2>2 DEF BookWithout, Others, Kept, Parked
    <2> QED BY <1>2, <2>1, <2>3
  <1> QED BY <1>4, <1>5, <1>6

(* The Cancelled event names the order exactly when it was in the book. *)
LEMMA CancelNames ==
  ASSUME NEW b, Good(b), NEW i \in Id, NEW why
  PROVE  /\ (InStops(b, i) \/ b.index[i] # None) <=> InBook(b, i)
         /\ CancelEvents(b, i, why) = IF InBook(b, i) THEN <<Cancelled(i, why)>> ELSE <<>>
  <1>1. InStops(b, i) <=> \E s \in Side, p \in Price : Parked(b, i, s, p)
    BY HasOrders DEF InStops, Parked
  <1>2. b.index[i] # None <=> \E s \in Side, p \in Price : Kept(b, i, s, p)
    <2>1. b.index[i] # None => \E s \in Side, p \in Price : b.index[i] = <<s, p>>
      BY BookParts DEF Good
    <2>2. \A s \in Side, p \in Price : <<s, p>> # None  BY ConstantsAssumption
    <2> QED BY <2>1, <2>2 DEF Good
  <1>3. (InStops(b, i) \/ b.index[i] # None) <=> InBook(b, i)  BY <1>1, <1>2 DEF InBook
  <1> QED BY <1>3 DEF CancelEvents

LEMMA SameGood ==
  ASSUME NEW b, Good(b), NEW c \in BookType,
         c.level = b.level, c.stops = b.stops, c.index = b.index
  PROVE  Good(c)
  BY DEF Good, Kept, Parked

LEMMA UnlinkSame ==
  ASSUME NEW b \in BookType, NEW i \in Id
  PROVE  LET c == Unlink(b, i) IN
         c \in BookType /\ c.level = b.level /\ c.stops = b.stops /\ c.index = b.index
  BY BookParts DEF Unlink, BookType

LEMMA RegisterSame ==
  ASSUME NEW b \in BookType, NEW i \in Id, NEW l \in Id \cup {None}
  PROVE  LET c == RegisterOco(b, i, l) IN
         c \in BookType /\ c.level = b.level /\ c.stops = b.stops /\ c.index = b.index
  BY BookParts DEF RegisterOco, BookType

(* The front maker of a level is popped. *)
LEMMA PopGood ==
  ASSUME NEW b, Good(b), NEW s \in Side, NEW p \in Price, b.level[s][p] # <<>>
  PROVE  LET m == Head(b.level[s][p])
             c == PopFrontMaker(b, s, p)
         IN  /\ m \in Order /\ m.id \in Id /\ m \in Orders(b.level[s][p])
             /\ Good(c) /\ BookWithout(b, c, m.id) /\ c.oco = b.oco
  <1>1. b \in BookType  BY DEF Good
  <1>2. PICK q : q = b.level[s][p]  OBVIOUS
  <1>3. q \in Seq(Order) /\ Distinct(q) /\ q # <<>>  BY <1>1, <1>2, BookQueues DEF Good
  <1>4. /\ Head(q) \in Orders(q) /\ Tail(q) \in Seq(Order) /\ Distinct(Tail(q))
        /\ Orders(Tail(q)) = Others(Orders(q), Head(q).id)
    BY <1>3, TailSet
  <1>5. Head(q) \in Order /\ Head(q).id \in Id
    <2>1. Head(q) \in Order  BY <1>3, <1>4, SeqFacts
    <2> QED BY <2>1 DEF Order
  <1>6. b.index[Head(q).id] = <<s, p>>  BY <1>2, <1>4, <1>5 DEF Good, Kept
  <1>7. PopFrontMaker(b, s, p) = SetLevel(SetIndex(b, Head(q).id, None), s, p, Tail(q))
    BY <1>2 DEF PopFrontMaker
  <1>8. PICK i \in Id, t \in Seq(Order) : i = Head(q).id /\ t = Tail(q)  BY <1>4, <1>5
  <1>9. PICK c : c = SetLevel(SetIndex(b, i, None), s, p, t)  OBVIOUS
  <1>10. Good(c) /\ BookWithout(b, c, i)  BY <1>2, <1>4, <1>6, <1>8, <1>9, LevelOut
  <1>11. c.oco = b.oco
    BY <1>1, <1>9, BookParts DEF SetLevel, SetIndex, BookType
  <1> QED BY <1>2, <1>4, <1>5, <1>7, <1>8, <1>9, <1>10, <1>11

(* One level changes, the orders it names stay the same. *)
LevelSet(b, c, s, p, X) ==
  /\ c.stops = b.stops
  /\ Orders(c.level[s][p]) = X
  /\ \A r \in Side, u \in Price : r # s \/ u # p => c.level[r][u] = b.level[r][u]

(* The maker is put back with less left, at the front or at the back. *)
LEMMA ReplaceGood ==
  ASSUME NEW b, Good(b), NEW s \in Side, NEW p \in Price, b.level[s][p] # <<>>,
         NEW o \in Order, o.id = Head(b.level[s][p]).id,
         NEW c, c = ReplaceFront(b, s, p, o) \/ c = Requeue(b, s, p, o)
  PROVE  /\ Good(c) /\ LevelSet(b, c, s, p, Others(Orders(b.level[s][p]), o.id) \cup {o})
  <1>1. b \in BookType  BY DEF Good
  <1>2. PICK q : q = b.level[s][p]  OBVIOUS
  <1>3. q \in Seq(Order) /\ Distinct(q) /\ q # <<>>  BY <1>1, <1>2, BookQueues DEF Good
  <1>4. /\ Head(q) \in Orders(q) /\ Tail(q) \in Seq(Order) /\ Distinct(Tail(q))
        /\ Orders(Tail(q)) = Others(Orders(q), o.id)
    BY <1>2, <1>3, TailSet
  <1>5. PICK t \in Seq(Order) : t = Tail(q)  BY <1>4
  <1>6. \A u \in Orders(t) : u.id # o.id  BY <1>4, <1>5 DEF Others
  <1>7. /\ Append(t, o) \in Seq(Order) /\ Distinct(Append(t, o))
        /\ Orders(Append(t, o)) = Orders(t) \cup {o}
        /\ <<o>> \o t \in Seq(Order) /\ Distinct(<<o>> \o t)
        /\ Orders(<<o>> \o t) = Orders(t) \cup {o}
    BY <1>4, <1>5, <1>6, JoinSet
  <1>8. PICK r \in Seq(Order) : /\ Distinct(r) /\ Orders(r) = Others(Orders(q), o.id) \cup {o}
                                /\ c = SetLevel(b, s, p, r)
    <2>1. CASE c = ReplaceFront(b, s, p, o)
      <3>1. c = SetLevel(b, s, p, <<o>> \o t)  BY <1>2, <1>5, <2>1 DEF ReplaceFront
      <3> QED BY <1>4, <1>5, <1>7, <3>1
    <2>2. CASE c = Requeue(b, s, p, o)
      <3>1. c = SetLevel(b, s, p, Append(t, o))  BY <1>2, <1>5, <2>2 DEF Requeue
      <3> QED BY <1>4, <1>5, <1>7, <3>1
    <2> QED BY <2>1, <2>2
  <1>9. /\ c \in BookType /\ c.stops = b.stops /\ c.index = b.index /\ c.level[s][p] = r
        /\ \A x \in Side, u \in Price : x # s \/ u # p => c.level[x][u] = b.level[x][u]
    BY <1>1, <1>8, SetLevelAt
  <1>10. LevelSet(b, c, s, p, Others(Orders(q), o.id) \cup {o})  BY <1>8, <1>9 DEF LevelSet
  <1>11. \E v \in Orders(q) : v.id = o.id  BY <1>2, <1>4
  <1>12. \A j \in Id, x \in Side, u \in Price :
           (Kept(c, j, x, u) <=> Kept(b, j, x, u)) /\ (Parked(c, j, x, u) <=> Parked(b, j, x, u))
    <2> SUFFICES ASSUME NEW j \in Id, NEW x \in Side, NEW u \in Price
                 PROVE  /\ Kept(c, j, x, u) <=> Kept(b, j, x, u)
                        /\ Parked(c, j, x, u) <=> Parked(b, j, x, u)
      OBVIOUS
    <2>1. CASE x = s /\ u = p
      BY <1>2, <1>8, <1>9, <1>11, <2>1 DEF Kept, Parked, Others
    <2>2. CASE x # s \/ u # p
      BY <1>9, <2>2 DEF Kept, Parked
    <2> QED BY <2>1, <2>2
  <1>13. \A x \in Side, u \in Price : Distinct(c.level[x][u]) /\ Distinct(c.stops[x][u])
    BY <1>8, <1>9 DEF Good
  <1> QED BY <1>2, <1>9, <1>10, <1>12, <1>13 DEF Good

(* A taker rests: the book did not have it. *)
LEMMA InsertGood ==
  ASSUME NEW b, Good(b), NEW o \in Order, o.price # None, ~InBook(b, o.id)
  PROVE  LET c == InsertMaker(b, o) IN
         /\ Good(c) /\ o.side \in Side /\ o.price \in Price
         /\ LevelSet(b, c, o.side, o.price, Orders(b.level[o.side][o.price]) \cup {o})
  <1>1. b \in BookType  BY DEF Good
  <1>2. PICK i \in Id, s \in Side, p \in Price : i = o.id /\ s = o.side /\ p = o.price
    BY DEF Order
  <1>3. PICK q \in Seq(Order) : q = b.level[s][p] /\ Distinct(q)  BY <1>1, BookQueues DEF Good
  <1>4. \A u \in Orders(q) : u.id # o.id  BY <1>2, <1>3 DEF InBook, Kept
  <1>5. PICK t : t = Append(q, o)  OBVIOUS
  <1>6. t \in Seq(Order) /\ Distinct(t) /\ Orders(t) = Orders(q) \cup {o}
    BY <1>3, <1>4, <1>5, JoinSet
  <1>7. PICK d : d = SetIndex(b, i, <<s, p>>)  OBVIOUS
  <1>8. /\ d \in BookType /\ d.level = b.level /\ d.stops = b.stops
        /\ d.index[i] = <<s, p>> /\ \A j \in Id : j # i => d.index[j] = b.index[j]
    BY <1>1, <1>7, SetIndexAt
  <1>9. PICK c : c = SetLevel(d, s, p, t)  OBVIOUS
  <1>10. /\ c \in BookType /\ c.stops = b.stops /\ c.index = d.index /\ c.level[s][p] = t
         /\ \A x \in Side, u \in Price : x # s \/ u # p => c.level[x][u] = b.level[x][u]
    BY <1>6, <1>8, <1>9, SetLevelAt, SMTT(30)
  <1>11. c = InsertMaker(b, o)  BY <1>2, <1>3, <1>5, <1>7, <1>9 DEF InsertMaker
  <1>12. LevelSet(b, c, s, p, Orders(b.level[s][p]) \cup {o})
    BY <1>3, <1>6, <1>10 DEF LevelSet
  <1>13. \A x \in Side, u \in Price : ~Kept(b, i, x, u) /\ ~Parked(b, i, x, u)
    BY <1>2 DEF InBook
  <1>14. ASSUME NEW j \in Id, NEW x \in Side, NEW u \in Price
         PROVE  /\ Kept(c, j, x, u) <=> c.index[j] = <<x, u>>
                /\ Parked(c, j, x, u) => c.index[j] = None
    <2>1. Parked(c, j, x, u) <=> Parked(b, j, x, u)  BY <1>10 DEF Parked
    <2>2. CASE j = i
      <3>1. Kept(c, i, x, u) <=> x = s /\ u = p
        <4>1. CASE x = s /\ u = p  BY <1>2, <1>6, <1>10, <4>1 DEF Kept
        <4>2. CASE x # s \/ u # p  BY <1>10, <1>13, <4>2 DEF Kept
        <4> QED BY <4>1, <4>2
      <3> QED BY <1>8, <1>10, <1>13, <2>1, <2>2, <3>1
    <2>3. CASE j # i
      <3>1. Kept(c, j, x, u) <=> Kept(b, j, x, u)
        <4>1. CASE x = s /\ u = p  BY <1>2, <1>3, <1>6, <1>10, <2>3, <4>1 DEF Kept
        <4>2. CASE x # s \/ u # p  BY <1>10, <4>2 DEF Kept
        <4> QED BY <4>1, <4>2
      <3> QED BY <1>8, <1>10, <2>1, <2>3, <3>1 DEF Good
    <2> QED BY <2>2, <2>3
  <1>15. \A x \in Side, u \in Price : Distinct(c.level[x][u]) /\ Distinct(c.stops[x][u])
    BY <1>6, <1>10 DEF Good
  <1>16. Good(c)  BY <1>10, <1>14, <1>15 DEF Good
  <1> QED BY <1>2, <1>11, <1>12, <1>16

StopsSet(b, c, s, p, X) ==
  /\ c.level = b.level
  /\ Orders(c.stops[s][p]) = X
  /\ \A r \in Side, u \in Price : r # s \/ u # p => c.stops[r][u] = b.stops[r][u]

(* A stop is registered, or a bucket is drained. *)
LEMMA StopsGood ==
  ASSUME NEW b, Good(b), NEW s \in Side, NEW p \in Price
  PROVE  /\ Good(SetStops(b, s, p, <<>>)) /\ StopsSet(b, SetStops(b, s, p, <<>>), s, p, {})
         /\ \A o \in Order : ~InBook(b, o.id) =>
              LET c == SetStops(b, s, p, Append(b.stops[s][p], o)) IN
              Good(c) /\ StopsSet(b, c, s, p, Orders(b.stops[s][p]) \cup {o})
  <1>1. b \in BookType  BY DEF Good
  <1>2. PICK q \in Seq(Order) : q = b.stops[s][p] /\ Distinct(q)  BY <1>1, BookQueues DEF Good
  <1>3. ASSUME NEW t \in Seq(Order), Distinct(t),
               \A u \in Orders(t) : u \in Orders(q) \/ b.index[u.id] = None
        PROVE  Good(SetStops(b, s, p, t)) /\ StopsSet(b, SetStops(b, s, p, t), s, p, Orders(t))
    <2>1. PICK c : c = SetStops(b, s, p, t)  OBVIOUS
    <2>2. /\ c \in BookType /\ c.level = b.level /\ c.index = b.index /\ c.stops[s][p] = t
          /\ \A r \in Side, u \in Price : r # s \/ u # p => c.stops[r][u] = b.stops[r][u]
      BY <1>1, <2>1, SetStopsAt
    <2>3. \A j \in Id, x \in Side, u \in Price : Kept(c, j, x, u) <=> Kept(b, j, x, u)
      BY <2>2 DEF Kept
    <2>4. ASSUME NEW j \in Id, NEW x \in Side, NEW u \in Price, Parked(c, j, x, u)
          PROVE  c.index[j] = None
      <3>1. CASE x = s /\ u = p
        BY <1>2, <1>3, <2>2, <2>4, <3>1 DEF Parked, Good
      <3>2. CASE x # s \/ u # p
        BY <2>2, <2>4, <3>2 DEF Parked, Good
      <3> QED BY <3>1, <3>2
    <2>5. \A x \in Side, u \in Price : Distinct(c.level[x][u]) /\ Distinct(c.stops[x][u])
      BY <1>3, <2>2 DEF Good
    <2>6. Good(c)  BY <2>2, <2>3, <2>4, <2>5 DEF Good
    <2>7. StopsSet(b, c, s, p, Orders(t))  BY <2>2 DEF StopsSet
    <2> QED BY <2>1, <2>6, <2>7
  <1>4. <<>> \in Seq(Order) /\ Orders(<<>>) = {} /\ Distinct(<<>>)
    BY DEF Orders, Distinct
  <1>5. ASSUME NEW o \in Order, ~InBook(b, o.id)
        PROVE  LET c == SetStops(b, s, p, Append(b.stops[s][p], o)) IN
               Good(c) /\ StopsSet(b, c, s, p, Orders(b.stops[s][p]) \cup {o})
    <2>1. \A u \in Orders(q) : u.id # o.id  BY <1>2, <1>5 DEF InBook, Parked
    <2>2. PICK t : t = Append(q, o)  OBVIOUS
    <2>3. t \in Seq(Order) /\ Distinct(t) /\ Orders(t) = Orders(q) \cup {o}
      BY <1>2, <2>1, <2>2, JoinSet
    <2>4. o.id \in Id  BY DEF Order
    <2>5. b.index[o.id] = None  BY <1>5, <2>4, CancelNames
    <2>6. \A u \in Orders(t) : u \in Orders(q) \/ b.index[u.id] = None  BY <2>3, <2>5
    <2> QED BY <1>2, <1>3, <2>2, <2>3, <2>6
  <1> QED BY <1>3, <1>4, <1>5

-----------------------------------------------------------------------------
(* The inductive invariant. *)

(* A stock in which every order is once, with something left, accounted.   *)
Sound(S, a, e, d, n) == Unique(S) /\ Positive(S) /\ Fates(S, a, e, d, n)

(* Only stops are parked; converted stops wait for the matching loop. *)
Kinds(b, w, t) ==
  /\ \A s \in Side, p \in Price : \A o \in Orders(b.stops[s][p]) : IsStop(o.type)
  /\ \A o \in Orders(w) \cup Orders(t) : o.type \in {"limit", "market"}

(* What the command in progress has in its hands. *)
Control ==
  /\ phase = "idle" => work = <<>> /\ lastTrade = None
  /\ phase # "drain" => triggered = <<>>
  /\ phase # "idle" /\ taker.type = "post_only" => lastTrade = None
  /\ phase = "match" /\ taker.type = "post_only" => Matchable(taker) = {}

BookInv ==
  /\ TypeOK /\ Good(book) /\ Distinct(work) /\ Distinct(triggered)
  /\ Sound(Stock(book, work, triggered, phase, taker), acct, ended, dropped, placed)
  /\ Kinds(book, work, triggered)
  /\ Control

-----------------------------------------------------------------------------
(* The moves, on the stock of the book and the command in progress. *)

(* n more of order i traded or was decremented. *)
Adds(a, b, i, n) ==
  /\ b \in AcctType
  /\ \A j \in Id : j # i => b[j] = a[j]
  /\ b[i].qty = a[i].qty
  /\ b[i].filled + b[i].cut = a[i].filled + a[i].cut + n

LEMMA AddsFacts ==
  ASSUME NEW a \in AcctType, NEW i \in Id, NEW n \in Nat
  PROVE  /\ Adds(a, AddFilled(a, i, n), i, n)
         /\ Adds(a, AddCut(a, i, n), i, n)
         /\ AddCut(a, i, n)[i].filled = a[i].filled
  <1>1. PICK b, c : b = AddFilled(a, i, n) /\ c = AddCut(a, i, n)  OBVIOUS
  <1>2. b \in AcctType /\ c \in AcctType  BY <1>1, AcctUpdate
  <1>3. a \in [Id -> [qty: Nat, filled: Nat, cut: Nat]]  BY DEF AcctType
  <1>4. \A j \in Id : j # i => b[j] = a[j] /\ c[j] = a[j]
    BY <1>1, <1>3 DEF AddFilled, AddCut
  <1>5. b[i] = [qty |-> a[i].qty, filled |-> a[i].filled + n, cut |-> a[i].cut]
    BY <1>1, <1>3 DEF AddFilled
  <1>6. c[i] = [qty |-> a[i].qty, filled |-> a[i].filled, cut |-> a[i].cut + n]
    BY <1>1, <1>3 DEF AddCut
  <1>7. a[i].qty \in Nat /\ a[i].filled \in Nat /\ a[i].cut \in Nat  BY AcctNat
  <1>8. /\ b[i].qty = a[i].qty /\ b[i].filled = a[i].filled + n /\ b[i].cut = a[i].cut
        /\ c[i].qty = a[i].qty /\ c[i].filled = a[i].filled /\ c[i].cut = a[i].cut + n
    BY <1>5, <1>6
  <1>9. /\ b[i].filled + b[i].cut = a[i].filled + a[i].cut + n
        /\ c[i].filled + c[i].cut = a[i].filled + a[i].cut + n
    BY <1>7, <1>8
  <1> QED BY <1>1, <1>2, <1>4, <1>8, <1>9 DEF Adds

(* All of an order is used up at once. *)
LEMMA UsesUp ==
  ASSUME NEW S \in Stocks, NEW T \in Stocks, NEW a \in AcctType, NEW e, NEW d,
         NEW n \in 0..MaxOrders, Unique(S), Fates(S, a, e, d, n),
         NEW x \in Places, NEW o \in S[x], Without(S, T, o.id),
         NEW b, Adds(a, b, o.id, o.remaining)
  PROVE  Unique(T) /\ Fates(T, b, e, d, n)
  <1>1. o \in Order /\ o.remaining \in Nat /\ b \in AcctType  BY OrderNat DEF Adds
  <1>2. PICK z \in Order : z = [o EXCEPT !.remaining = 0]  BY <1>1, RemainingOrder
  <1>3. z.id = o.id /\ z.remaining = 0  BY <1>1, <1>2 DEF Order
  <1>4. PICK M : M = [S EXCEPT ![x] = Others(S[x], o.id) \cup {z}]  OBVIOUS
  <1>5. M \in Stocks /\ Shrunk(S, M, x, o, z)
    <2>1. S[x] \subseteq Order  BY DEF Stocks
    <2>2. Others(S[x], o.id) \cup {z} \in SUBSET Order  BY <2>1 DEF Others
    <2> QED BY <1>4, <2>2 DEF Stocks, Shrunk
  <1>6. z.remaining + o.remaining = o.remaining  BY <1>1, <1>3
  <1>7. Unique(M) /\ Fates(M, b, e, d, n)
    BY <1>1, <1>3, <1>5, <1>6, Shrinks1 DEF Adds
  <1>8. z \in M[x]  BY <1>5 DEF Shrunk
  <1>9. Without(M, T, z.id)
    <2> SUFFICES ASSUME NEW y \in Places PROVE T[y] = Others(M[y], o.id)
      BY <1>3 DEF Without
    <2>1. T[y] = Others(S[y], o.id)  BY DEF Without
    <2>2. CASE y = x  BY <1>3, <1>5, <2>1, <2>2 DEF Shrunk, Others
    <2>3. CASE y # x  BY <1>5, <2>1, <2>3 DEF Shrunk
    <2> QED BY <2>2, <2>3
  <1>10. Fates(T, b, e, d, n)  BY <1>1, <1>3, <1>5, <1>7, <1>8, <1>9, IsUsedUp
  <1>11. Unique(T)  BY WithoutFacts
  <1> QED BY <1>10, <1>11

(* An order that is in the book is nowhere else. *)
LEMMA BookPart ==
  ASSUME NEW b \in BookType, NEW w \in Seq(Order), NEW t \in Seq(Order), NEW ph, NEW tk,
         ph = "match" => tk \in Order, Unique(Stock(b, w, t, ph, tk)),
         NEW i, InBook(b, i)
  PROVE  /\ Held(Stock(b, w, t, ph, tk), i)
         /\ \A o \in Orders(w) \cup Orders(t) : o.id # i
         /\ ph = "match" => tk.id # i
         /\ \A x \in Places, o \in Order : o \in Stock(b, w, t, ph, tk)[x] /\ o.id = i => x # TK
  <1>1. PICK S : S = Stock(b, w, t, ph, tk)  OBVIOUS
  <1>0. Shows(S, b, w, t, ph, tk)  BY <1>1, StockShows
  <1>2. /\ S \in Stocks
        /\ \A s \in Side, p \in Price :
             S[LV(s, p)] = Orders(b.level[s][p]) /\ S[ST(s, p)] = Orders(b.stops[s][p])
        /\ S[WK] = Orders(w) /\ S[TR] = Orders(t)
        /\ S[TK] = IF ph = "match" THEN {tk} ELSE {}
    BY <1>0 DEF Shows
  <1>3. PICK x \in Places : x \notin {WK, TR, TK} /\ \E o \in S[x] : o.id = i
    <2>1. PICK s \in Side, p \in Price : Kept(b, i, s, p) \/ Parked(b, i, s, p)  BY DEF InBook
    <2>2. CASE Kept(b, i, s, p)
      <3>1. \E o \in S[LV(s, p)] : o.id = i  BY <1>2, <2>2 DEF Kept
      <3> QED BY <3>1, PlaceNames
    <2>3. CASE Parked(b, i, s, p)
      <3>1. \E o \in S[ST(s, p)] : o.id = i  BY <1>2, <2>3 DEF Parked
      <3> QED BY <3>1, PlaceNames
    <2> QED BY <2>1, <2>2, <2>3
  <1>4. \A y \in Places : \A o \in S[y] : o.id = i => y = x  BY <1>1, <1>3 DEF Unique
  <1>5. Held(S, i)  BY <1>3 DEF Held
  <1>6. \A o \in S[WK] \cup S[TR] \cup S[TK] : o.id # i  BY <1>3, <1>4, PlaceNames
  <1> QED BY <1>1, <1>2, <1>3, <1>4, <1>5, <1>6

LEMMA StockWithout ==
  ASSUME NEW b \in BookType, NEW c \in BookType, NEW w \in Seq(Order), NEW t \in Seq(Order),
         NEW ph, NEW tk, ph = "match" => tk \in Order,
         NEW i, BookWithout(b, c, i),
         \A o \in Orders(w) \cup Orders(t) : o.id # i, ph = "match" => tk.id # i
  PROVE  Without(Stock(b, w, t, ph, tk), Stock(c, w, t, ph, tk), i)
  <1>1. PICK S, T : S = Stock(b, w, t, ph, tk) /\ T = Stock(c, w, t, ph, tk)  OBVIOUS
  <1>2. Shows(S, b, w, t, ph, tk)  BY <1>1, StockShows
  <1>3. Shows(T, c, w, t, ph, tk)  BY <1>1, StockShows
  <1>4. \A s \in Side, p \in Price : /\ T[LV(s, p)] = Others(S[LV(s, p)], i)
                                     /\ T[ST(s, p)] = Others(S[ST(s, p)], i)
    BY <1>2, <1>3 DEF Shows, BookWithout
  <1>5. T[WK] = Others(S[WK], i) /\ T[TR] = Others(S[TR], i) /\ T[TK] = Others(S[TK], i)
    BY <1>2, <1>3 DEF Shows, Others
  <1>6. \A x \in Places : T[x] = Others(S[x], i)  BY <1>4, <1>5 DEF Places
  <1> QED BY <1>1, <1>6 DEF Without

(* An order is cancelled in the book, if it is there. *)
LEMMA CancelStock ==
  ASSUME NEW b \in BookType, NEW c \in BookType, NEW w \in Seq(Order), NEW t \in Seq(Order),
         NEW ph, NEW tk, ph = "match" => tk \in Order,
         NEW a \in AcctType, NEW e, NEW d, NEW n \in 0..MaxOrders,
         Sound(Stock(b, w, t, ph, tk), a, e, d, n),
         NEW i, BookWithout(b, c, i)
  PROVE  Sound(Stock(c, w, t, ph, tk), a, IF InBook(b, i) THEN e \cup {i} ELSE e, d, n)
  <1>1. PICK S, T : S = Stock(b, w, t, ph, tk) /\ T = Stock(c, w, t, ph, tk)  OBVIOUS
  <1>2. S \in Stocks /\ T \in Stocks  BY <1>1, StockShows DEF Shows
  <1>3. Unique(S) /\ Positive(S) /\ Fates(S, a, e, d, n)  BY <1>1 DEF Sound
  <1>4. CASE InBook(b, i)
    <2>1. /\ Held(S, i) /\ \A o \in Orders(w) \cup Orders(t) : o.id # i
          /\ ph = "match" => tk.id # i
          /\ \A x \in Places, o \in Order : o \in S[x] /\ o.id = i => x # TK
      BY <1>1, <1>3, <1>4, BookPart
    <2>2. Without(S, T, i)  BY <1>1, <2>1, StockWithout
    <2>3. \A x \in Places : \A o \in S[x] : o.id = i => o.remaining > 0
      BY <1>2, <1>3, <2>1 DEF Positive, Stocks
    <2>4. Fates(T, a, e \cup {i}, d, n)  BY <1>2, <1>3, <2>1, <2>2, <2>3, Ends
    <2>5. Unique(T) /\ Positive(T)  BY <1>2, <1>3, <2>2, WithoutFacts
    <2> QED BY <1>1, <1>4, <2>4, <2>5 DEF Sound
  <1>5. CASE ~InBook(b, i)
    <2>1. \A s \in Side, p \in Price : /\ Orders(c.level[s][p]) = Orders(b.level[s][p])
                                       /\ Orders(c.stops[s][p]) = Orders(b.stops[s][p])
      <3> SUFFICES ASSUME NEW s \in Side, NEW p \in Price
                   PROVE  /\ Orders(c.level[s][p]) = Orders(b.level[s][p])
                          /\ Orders(c.stops[s][p]) = Orders(b.stops[s][p])
        OBVIOUS
      <3>1. \A o \in Orders(b.level[s][p]) \cup Orders(b.stops[s][p]) : o.id # i
        BY <1>5 DEF InBook, Kept, Parked
      <3>2. /\ Others(Orders(b.level[s][p]), i) = Orders(b.level[s][p])
            /\ Others(Orders(b.stops[s][p]), i) = Orders(b.stops[s][p])
        BY <3>1 DEF Others
      <3> QED BY <3>2 DEF BookWithout
    <2>2. \A x \in Places : T[x] = S[x]
      <3>0. Shows(S, b, w, t, ph, tk) /\ Shows(T, c, w, t, ph, tk)  BY <1>1, StockShows
      <3>1. \A s \in Side, p \in Price : T[LV(s, p)] = S[LV(s, p)] /\ T[ST(s, p)] = S[ST(s, p)]
        BY <2>1, <3>0 DEF Shows
      <3>2. T[WK] = S[WK] /\ T[TR] = S[TR] /\ T[TK] = S[TK]  BY <3>0 DEF Shows
      <3> QED BY <3>1, <3>2 DEF Places
    <2>3. T = S  BY <1>2, <2>2 DEF Stocks
    <2> QED BY <1>1, <1>5, <2>3
  <1> QED BY <1>4, <1>5

(* The stock depends on the levels and the stops only. *)
LEMMA StockSame ==
  ASSUME NEW b, NEW c, NEW w, NEW t, NEW ph, NEW tk, c.level = b.level, c.stops = b.stops
  PROVE  Stock(c, w, t, ph, tk) = Stock(b, w, t, ph, tk)
  BY DEF Stock

LEMMA KindsWithout ==
  ASSUME NEW b, NEW c, NEW w, NEW t, NEW i, BookWithout(b, c, i), Kinds(b, w, t)
  PROVE  Kinds(c, w, t)
  BY DEF BookWithout, Kinds, Others

(* Every stock is told apart by what it shows. *)
LEMMA PlaceWise ==
  ASSUME NEW x \in Places
  PROVE  \/ x \in {WK, TR, TK}
         \/ \E s \in Side, p \in Price : x = LV(s, p) \/ x = ST(s, p)
  BY DEF Places

(* The taker has less left. *)
LEMMA TakerCut ==
  ASSUME NEW b \in BookType, NEW w \in Seq(Order), NEW t \in Seq(Order),
         NEW o \in Order, NEW u \in Order, NEW m \in Nat, u.id = o.id,
         u.remaining + m = o.remaining,
         NEW a \in AcctType, NEW e, NEW d, NEW n \in 0..MaxOrders,
         Sound(Stock(b, w, t, "match", o), a, e, d, n), NEW c, Adds(a, c, o.id, m)
  PROVE  Sound(Stock(b, w, t, "match", u), c, e, d, n)
  <1>1. PICK S, T : S = Stock(b, w, t, "match", o) /\ T = Stock(b, w, t, "match", u)  OBVIOUS
  <1>2. Shows(S, b, w, t, "match", o) /\ Shows(T, b, w, t, "match", u)  BY <1>1, StockShows
  <1>3. S \in Stocks /\ T \in Stocks /\ S[TK] = {o} /\ T[TK] = {u}  BY <1>2 DEF Shows
  <1>4. \A x \in Places : x # TK => T[x] = S[x]
    <2>1. T[WK] = S[WK] /\ T[TR] = S[TR]  BY <1>2 DEF Shows
    <2>2. \A s \in Side, p \in Price : T[LV(s, p)] = S[LV(s, p)] /\ T[ST(s, p)] = S[ST(s, p)]
      BY <1>2 DEF Shows
    <2> QED BY <2>1, <2>2, PlaceWise
  <1>5. Shrunk(S, T, TK, o, u)  BY <1>3, <1>4 DEF Shrunk, Others
  <1>6. Unique(S) /\ Positive(S) /\ Fates(S, a, e, d, n)  BY <1>1 DEF Sound
  <1>7. o \in S[TK] /\ TK \in Places  BY <1>3, PlaceNames
  <1>8. Unique(T) /\ Fates(T, c, e, d, n)
    BY <1>3, <1>5, <1>6, <1>7, Shrinks1 DEF Adds
  <1>9. Positive(T)  BY <1>4, <1>6 DEF Positive
  <1> QED BY <1>1, <1>8, <1>9 DEF Sound

(* A maker has less left, and something still. *)
LEMMA MakerCut ==
  ASSUME NEW b \in BookType, NEW c \in BookType, NEW w \in Seq(Order), NEW t \in Seq(Order),
         NEW ph, NEW tk, ph = "match" => tk \in Order,
         NEW s \in Side, NEW p \in Price, NEW o \in Orders(b.level[s][p]), NEW u \in Order,
         NEW m \in Nat, u.id = o.id, u.remaining + m = o.remaining, u.remaining > 0,
         LevelSet(b, c, s, p, Others(Orders(b.level[s][p]), o.id) \cup {u}),
         NEW a \in AcctType, NEW e, NEW d, NEW n \in 0..MaxOrders,
         Sound(Stock(b, w, t, ph, tk), a, e, d, n), NEW f, Adds(a, f, o.id, m)
  PROVE  Sound(Stock(c, w, t, ph, tk), f, e, d, n)
  <1>1. PICK S, T : S = Stock(b, w, t, ph, tk) /\ T = Stock(c, w, t, ph, tk)  OBVIOUS
  <1>2. Shows(S, b, w, t, ph, tk) /\ Shows(T, c, w, t, ph, tk)  BY <1>1, StockShows
  <1>3. S \in Stocks /\ T \in Stocks  BY <1>2 DEF Shows
  <1>4. LV(s, p) \in Places /\ LV(s, p) # TK /\ S[LV(s, p)] = Orders(b.level[s][p])
    BY <1>2, PlaceNames DEF Shows
  <1>5. T[LV(s, p)] = Others(S[LV(s, p)], o.id) \cup {u}
    BY <1>2, <1>4 DEF Shows, LevelSet
  <1>6. \A x \in Places : x # LV(s, p) => T[x] = S[x]
    <2>1. T[WK] = S[WK] /\ T[TR] = S[TR] /\ T[TK] = S[TK]  BY <1>2 DEF Shows
    <2>2. \A r \in Side, v \in Price : T[ST(r, v)] = S[ST(r, v)]
      BY <1>2 DEF Shows, LevelSet
    <2>3. \A r \in Side, v \in Price : r # s \/ v # p => T[LV(r, v)] = S[LV(r, v)]
      BY <1>2 DEF Shows, LevelSet
    <2> QED BY <2>1, <2>2, <2>3, PlaceWise
  <1>7. Shrunk(S, T, LV(s, p), o, u)  BY <1>5, <1>6 DEF Shrunk
  <1>8. Unique(S) /\ Positive(S) /\ Fates(S, a, e, d, n)  BY <1>1 DEF Sound
  <1>9. o \in S[LV(s, p)]  BY <1>4
  <1>10. PICK x \in Places : x = LV(s, p)  BY <1>4
  <1>11. Unique(T) /\ Fates(T, f, e, d, n)
    BY <1>3, <1>7, <1>8, <1>9, <1>10, Shrinks1 DEF Adds
  <1>12. Positive(T)
    <2>1. \A v \in T[LV(s, p)] : v \in S[LV(s, p)] \/ v = u  BY <1>5 DEF Others
    <2> QED BY <1>4, <1>6, <1>8, <2>1 DEF Positive
  <1> QED BY <1>1, <1>11, <1>12 DEF Sound

(* A maker trades in full and leaves the book. *)
LEMMA MakerUsedUp ==
  ASSUME NEW b \in BookType, NEW c \in BookType, NEW w \in Seq(Order), NEW t \in Seq(Order),
         NEW ph, NEW tk, ph = "match" => tk \in Order,
         NEW s \in Side, NEW p \in Price, NEW o \in Orders(b.level[s][p]),
         BookWithout(b, c, o.id),
         NEW a \in AcctType, NEW e, NEW d, NEW n \in 0..MaxOrders,
         Sound(Stock(b, w, t, ph, tk), a, e, d, n), NEW f, Adds(a, f, o.id, o.remaining)
  PROVE  Sound(Stock(c, w, t, ph, tk), f, e, d, n)
  <1>1. PICK S, T : S = Stock(b, w, t, ph, tk) /\ T = Stock(c, w, t, ph, tk)  OBVIOUS
  <1>2. Shows(S, b, w, t, ph, tk) /\ Shows(T, c, w, t, ph, tk)  BY <1>1, StockShows
  <1>3. S \in Stocks /\ T \in Stocks  BY <1>2 DEF Shows
  <1>4. PICK x \in Places : o \in S[x]  BY <1>2, PlaceNames DEF Shows
  <1>5. Unique(S) /\ Positive(S) /\ Fates(S, a, e, d, n)  BY <1>1 DEF Sound
  <1>6. InBook(b, o.id)  BY DEF InBook, Kept
  <1>7. (\A v \in Orders(w) \cup Orders(t) : v.id # o.id) /\ (ph = "match" => tk.id # o.id)
    BY <1>1, <1>5, <1>6, BookPart
  <1>8. Without(S, T, o.id)  BY <1>1, <1>7, StockWithout
  <1>9. Unique(T) /\ Fates(T, f, e, d, n)  BY <1>3, <1>4, <1>5, <1>8, UsesUp
  <1>10. Positive(T)  BY <1>3, <1>5, <1>8, WithoutFacts
  <1> QED BY <1>1, <1>9, <1>10 DEF Sound

(* The matching loop lets go of the taker. *)
LEMMA TakerOut ==
  ASSUME NEW b \in BookType, NEW w \in Seq(Order), NEW t \in Seq(Order),
         NEW o \in Order, NEW ph, NEW tk, ph # "match",
         Unique(Stock(b, w, t, "match", o))
  PROVE  /\ Without(Stock(b, w, t, "match", o), Stock(b, w, t, ph, tk), o.id)
         /\ \A i : Held(Stock(b, w, t, "match", o), i) /\ i # o.id
                     => Held(Stock(b, w, t, ph, tk), i)
         /\ Held(Stock(b, w, t, "match", o), o.id)
         /\ \A x \in Places : \A v \in Stock(b, w, t, "match", o)[x] : v.id = o.id => v = o
  <1>1. PICK S, T : S = Stock(b, w, t, "match", o) /\ T = Stock(b, w, t, ph, tk)  OBVIOUS
  <1>2. Shows(S, b, w, t, "match", o) /\ Shows(T, b, w, t, ph, tk)  BY <1>1, StockShows
  <1>3. S \in Stocks /\ T \in Stocks /\ S[TK] = {o} /\ T[TK] = {}  BY <1>2 DEF Shows
  <1>4. \A x \in Places : x # TK => T[x] = S[x]
    <2>1. T[WK] = S[WK] /\ T[TR] = S[TR]  BY <1>2 DEF Shows
    <2>2. \A s \in Side, p \in Price : T[LV(s, p)] = S[LV(s, p)] /\ T[ST(s, p)] = S[ST(s, p)]
      BY <1>2 DEF Shows
    <2> QED BY <2>1, <2>2, PlaceWise
  <1>5. \A x \in Places : \A v \in S[x] : v.id = o.id => x = TK /\ v = o
    BY <1>1, <1>3, PlaceNames DEF Unique
  <1>6. Without(S, T, o.id)
    <2> SUFFICES ASSUME NEW x \in Places PROVE T[x] = Others(S[x], o.id)  BY DEF Without
    <2>1. CASE x = TK  BY <1>3, <2>1 DEF Others
    <2>2. CASE x # TK  BY <1>4, <1>5, <2>2 DEF Others
    <2> QED BY <2>1, <2>2
  <1>7. Held(S, o.id)  BY <1>3, PlaceNames DEF Held
  <1>8. \A i : Held(S, i) /\ i # o.id => Held(T, i)  BY <1>1, <1>3, <1>6, WithoutFacts
  <1> QED BY <1>1, <1>5, <1>6, <1>7, <1>8

LEMMA TakerEnds ==
  ASSUME NEW b \in BookType, NEW w \in Seq(Order), NEW t \in Seq(Order),
         NEW o \in Order, NEW ph, NEW tk, ph # "match",
         NEW a \in AcctType, NEW e, NEW d, NEW n \in 0..MaxOrders,
         Sound(Stock(b, w, t, "match", o), a, e, d, n)
  PROVE  /\ o.remaining > 0 => Sound(Stock(b, w, t, ph, tk), a, e \cup {o.id}, d, n)
         /\ o.remaining = 0 => Sound(Stock(b, w, t, ph, tk), a, e, d, n)
  <1>1. PICK S, T : S = Stock(b, w, t, "match", o) /\ T = Stock(b, w, t, ph, tk)  OBVIOUS
  <1>2. Shows(S, b, w, t, "match", o) /\ Shows(T, b, w, t, ph, tk)  BY <1>1, StockShows
  <1>3. S \in Stocks /\ T \in Stocks /\ o \in S[TK] /\ TK \in Places  BY <1>2, PlaceNames DEF Shows
  <1>4. Unique(S) /\ Positive(S) /\ Fates(S, a, e, d, n)  BY <1>1 DEF Sound
  <1>5. /\ Without(S, T, o.id) /\ Held(S, o.id)
        /\ \A x \in Places : \A v \in S[x] : v.id = o.id => v = o
    BY <1>1, <1>4, TakerOut
  <1>6. Unique(T) /\ Positive(T)  BY <1>3, <1>4, <1>5, WithoutFacts
  <1>7. ASSUME o.remaining > 0 PROVE Fates(T, a, e \cup {o.id}, d, n)
    <2>1. \A x \in Places : \A v \in S[x] : v.id = o.id => v.remaining > 0  BY <1>5, <1>7
    <2> QED BY <1>3, <1>4, <1>5, <2>1, Ends
  <1>8. ASSUME o.remaining = 0 PROVE Fates(T, a, e, d, n)
    BY <1>3, <1>4, <1>5, <1>8, IsUsedUp
  <1> QED BY <1>1, <1>6, <1>7, <1>8 DEF Sound

-----------------------------------------------------------------------------
(* Which orders the events of a step cancel. *)

LEMMA NamesNothing ==
  /\ CancelledIn(<<>>) = {}
  /\ \A i, j, p, q : CancelledIn(<<Filled(i, j, p, q)>>) = {}
  /\ \A o : CancelledIn(<<Rested(o)>>) = {}
  <1>1. CancelledIn(<<>>) = {}  BY DEF CancelledIn
  <1>2. \A i, j, p, q : CancelledIn(<<Filled(i, j, p, q)>>) = {}  BY DEF CancelledIn, Filled
  <1>3. \A o : CancelledIn(<<Rested(o)>>) = {}  BY DEF CancelledIn, Rested
  <1> QED BY <1>1, <1>2, <1>3

LEMMA NamesOne ==
  ASSUME NEW i, NEW why
  PROVE  CancelledIn(<<Cancelled(i, why)>>) = {i}
  BY DEF CancelledIn, Cancelled

LEMMA NamesTwo ==
  ASSUME NEW i, NEW j, NEW why
  PROVE  CancelledIn(<<Cancelled(i, why), Cancelled(j, why)>>) = {i, j}
  <1>1. PICK q : q = <<Cancelled(i, why), Cancelled(j, why)>>  OBVIOUS
  <1>2. DOMAIN q = {1, 2} /\ q[1] = Cancelled(i, why) /\ q[2] = Cancelled(j, why)  BY <1>1
  <1>3. q[1].kind = "cancelled" /\ q[1].id = i /\ q[2].kind = "cancelled" /\ q[2].id = j
    BY <1>2 DEF Cancelled
  <1> QED BY <1>1, <1>2, <1>3 DEF CancelledIn

LEMMA NamesJoin ==
  ASSUME NEW q \in Seq(Event), NEW r \in Seq(Event)
  PROVE  CancelledIn(q \o r) = CancelledIn(q) \cup CancelledIn(r)
  <1>1. PICK m, n, t : m = Len(q) /\ n = Len(r) /\ t = q \o r  OBVIOUS
  <1>2. m \in Nat /\ n \in Nat /\ DOMAIN q = 1..m /\ DOMAIN r = 1..n  BY <1>1
  <1>3. t \in Seq(Event) /\ Len(t) = m + n
        /\ \A k \in 1..(m + n) : t[k] = IF k <= m THEN q[k] ELSE r[k - m]
    BY <1>1, ConcatProperties
  <1>4. DOMAIN t = 1..(m + n)  BY <1>3
  <1>5. \A k \in 1..(m + n) : (k \in 1..m /\ t[k] = q[k]) \/ (k - m \in 1..n /\ t[k] = r[k - m])
    <2> SUFFICES ASSUME NEW k \in 1..(m + n)
                 PROVE  (k \in 1..m /\ t[k] = q[k]) \/ (k - m \in 1..n /\ t[k] = r[k - m])
      OBVIOUS
    <2>1. CASE k <= m  BY <1>2, <1>3, <2>1
    <2>2. CASE ~(k <= m)  BY <1>2, <1>3, <2>2
    <2> QED BY <2>1, <2>2
  <1>6. ASSUME NEW i \in CancelledIn(t) PROVE i \in CancelledIn(q) \cup CancelledIn(r)
    <2>1. PICK k \in 1..(m + n) : t[k].kind = "cancelled" /\ t[k].id = i
      BY <1>4, <1>6 DEF CancelledIn
    <2> QED BY <1>2, <1>5, <2>1 DEF CancelledIn
  <1>7. ASSUME NEW i \in CancelledIn(q) PROVE i \in CancelledIn(t)
    <2>1. PICK k \in 1..m : q[k].kind = "cancelled" /\ q[k].id = i
      BY <1>2, <1>7 DEF CancelledIn
    <2>2. k \in 1..(m + n) /\ t[k] = q[k]  BY <1>2, <1>3
    <2> QED BY <1>4, <2>1, <2>2 DEF CancelledIn
  <1>8. ASSUME NEW i \in CancelledIn(r) PROVE i \in CancelledIn(t)
    <2>1. PICK k \in 1..n : r[k].kind = "cancelled" /\ r[k].id = i
      BY <1>2, <1>8 DEF CancelledIn
    <2>2. k + m \in 1..(m + n) /\ ~(k + m <= m) /\ (k + m) - m = k  BY <1>2
    <2>3. t[k + m] = r[k]  BY <1>3, <2>2
    <2> QED BY <1>4, <2>1, <2>2, <2>3 DEF CancelledIn
  <1> QED BY <1>1, <1>6, <1>7, <1>8

(* What cancel_order_internal says is what it does. *)
LEMMA CancelSound ==
  ASSUME NEW b, Good(b), NEW w \in Seq(Order), NEW t \in Seq(Order),
         NEW ph, NEW tk, ph = "match" => tk \in Order,
         NEW a \in AcctType, NEW e, NEW d, NEW n \in 0..MaxOrders,
         Sound(Stock(b, w, t, ph, tk), a, e, d, n), Kinds(b, w, t),
         NEW i \in Id, NEW why
  PROVE  LET c == CancelInternal(b, i) IN
         /\ Good(c) /\ Kinds(c, w, t)
         /\ Sound(Stock(c, w, t, ph, tk), a, e \cup CancelledIn(CancelEvents(b, i, why)), d, n)
  <1>1. PICK c : c = CancelInternal(b, i)  OBVIOUS
  <1>2. Good(c) /\ BookWithout(b, c, i)  BY <1>1, CancelGood
  <1>3. b \in BookType /\ c \in BookType  BY <1>2 DEF Good
  <1>4. Kinds(c, w, t)  BY <1>2, KindsWithout
  <1>5. Sound(Stock(c, w, t, ph, tk), a, IF InBook(b, i) THEN e \cup {i} ELSE e, d, n)
    BY <1>2, <1>3, CancelStock
  <1>6. CancelledIn(CancelEvents(b, i, why)) = IF InBook(b, i) THEN {i} ELSE {}
    BY CancelNames, NamesOne, NamesNothing
  <1>7. e \cup CancelledIn(CancelEvents(b, i, why)) = IF InBook(b, i) THEN e \cup {i} ELSE e
    BY <1>6
  <1> QED BY <1>1, <1>2, <1>4, <1>5, <1>7

LEMMA OcoSound ==
  ASSUME NEW b, Good(b), NEW w \in Seq(Order), NEW t \in Seq(Order),
         NEW ph, NEW tk, ph = "match" => tk \in Order,
         NEW a \in AcctType, NEW e, NEW d, NEW n \in 0..MaxOrders,
         Sound(Stock(b, w, t, ph, tk), a, e, d, n), Kinds(b, w, t),
         NEW i \in Id
  PROVE  LET c == MaybeCancelOco(b, i) IN
         /\ Good(c) /\ Kinds(c, w, t)
         /\ Sound(Stock(c, w, t, ph, tk), a, e \cup CancelledIn(OcoEvents(b, i)), d, n)
  <1>1. b \in BookType  BY DEF Good
  <1>2. CASE b.oco[i] = None
    <2>1. MaybeCancelOco(b, i) = b /\ OcoEvents(b, i) = <<>>  BY <1>2 DEF MaybeCancelOco, OcoEvents
    <2>2. e \cup CancelledIn(OcoEvents(b, i)) = e  BY <2>1, NamesNothing
    <2> QED BY <2>1, <2>2
  <1>3. CASE b.oco[i] # None
    <2>1. PICK j \in Id : j = b.oco[i]  BY <1>1, <1>3, BookParts
    <2>2. PICK u : u = Unlink(b, i)  OBVIOUS
    <2>3. u \in BookType /\ u.level = b.level /\ u.stops = b.stops /\ u.index = b.index
      BY <1>1, <2>2, UnlinkSame
    <2>4. Good(u)  BY <2>3, SameGood
    <2>5. Stock(u, w, t, ph, tk) = Stock(b, w, t, ph, tk)  BY <2>3, StockSame
    <2>6. Kinds(u, w, t)  BY <2>3 DEF Kinds
    <2>7. MaybeCancelOco(b, i) = CancelInternal(u, j) /\ OcoEvents(b, i) = CancelEvents(u, j, "oco")
      BY <1>3, <2>1, <2>2 DEF MaybeCancelOco, OcoEvents
    <2>8. Sound(Stock(u, w, t, ph, tk), a, e, d, n)  BY <2>5
    <2>9. PICK c : c = CancelInternal(u, j)  OBVIOUS
    <2>10. /\ Good(c) /\ Kinds(c, w, t)
           /\ Sound(Stock(c, w, t, ph, tk), a, e \cup CancelledIn(CancelEvents(u, j, "oco")), d, n)
      BY <2>4, <2>6, <2>8, <2>9, CancelSound
    <2> QED BY <2>7, <2>9, <2>10
  <1> QED BY <1>2, <1>3

-----------------------------------------------------------------------------
(* The actions. *)

LEMMA InvFacts ==
  ASSUME BookInv
  PROVE  /\ TypeOK /\ Good(book) /\ book \in BookType
         /\ work \in Seq(Order) /\ triggered \in Seq(Order)
         /\ phase = "match" => taker \in Order
         /\ acct \in AcctType /\ placed \in 0..MaxOrders
         /\ Sound(Stock(book, work, triggered, phase, taker), acct, ended, dropped, placed)
         /\ Kinds(book, work, triggered) /\ Control
         /\ Distinct(work) /\ Distinct(triggered)
  BY DEF BookInv, TypeOK

LEMMA InvNext ==
  ASSUME TypeOK', Good(book'), Distinct(work'), Distinct(triggered'),
         Sound(Stock(book', work', triggered', phase', taker'), acct', ended', dropped', placed'),
         Kinds(book', work', triggered'), Control'
  PROVE  BookInv'
  BY DEF BookInv

(* The maker is in the book, with something left, and is not the taker,    *)
(* which is no post-only order: nothing was matchable when that came.      *)
LEMMA MatchingSound ==
  ASSUME BookInv, NEW p \in Price, Matching(p)
  PROVE  /\ phase = "match" /\ triggered = <<>> /\ taker.type # "post_only"
         /\ taker \in Order /\ taker.id \in Id /\ taker.remaining \in Nat /\ taker.remaining > 0
         /\ Opposite(taker.side) \in Side
         /\ book.level[Opposite(taker.side)][p] # <<>>
         /\ Maker(p) \in Orders(book.level[Opposite(taker.side)][p])
         /\ Maker(p) = Head(book.level[Opposite(taker.side)][p])
         /\ Maker(p) \in Order /\ Maker(p).id \in Id
         /\ Maker(p).remaining \in Nat /\ Maker(p).remaining > 0
         /\ Maker(p).id # taker.id
  <1>1. TypeOK /\ Good(book) /\ Control  BY InvFacts
  <1>2. /\ taker \in Order /\ taker.id \in Id /\ taker.remaining \in Nat
        /\ Opposite(taker.side) \in Side
        /\ book \in BookType /\ book.level[Opposite(taker.side)][p] # <<>>
        /\ Maker(p) \in Order /\ Maker(p).id \in Id /\ Maker(p).remaining \in Nat
    BY <1>1, MatchingFacts
  <1>3. phase = "match" /\ taker.remaining > 0 /\ p \in Matchable(taker)  BY DEF Matching
  <1>4. triggered = <<>> /\ taker.type # "post_only"  BY <1>1, <1>3 DEF Control
  <1>5. PICK s \in Side : s = Opposite(taker.side)  BY <1>2
  <1>6. Maker(p) = Head(book.level[s][p])  BY <1>5 DEF Maker
  <1>7. Maker(p) \in Orders(book.level[s][p])  BY <1>1, <1>2, <1>5, <1>6, PopGood
  <1>8. PICK S : S = Stock(book, work, triggered, phase, taker)  OBVIOUS
  <1>9. Unique(S) /\ Positive(S)  BY <1>8, InvFacts DEF Sound
  <1>10. Shows(S, book, work, triggered, phase, taker)  BY <1>8, InvFacts, StockShows
  <1>11. Maker(p) \in S[LV(s, p)] /\ taker \in S[TK]  BY <1>3, <1>7, <1>10 DEF Shows
  <1>12. Maker(p).remaining > 0 /\ Maker(p).id # taker.id
    BY <1>9, <1>11, PlaceNames DEF Positive, Unique
  <1> QED BY <1>2, <1>3, <1>4, <1>5, <1>6, <1>7, <1>12

LEMMA ControlKept ==
  ASSUME phase = "match", phase' \in {"match", "drain"}, triggered = <<>>, triggered' = triggered,
         taker.type # "post_only", taker'.type = taker.type
  PROVE  Control'
  BY DEF Control

(* What a matched quantity is. *)
LEMMA QtyFacts ==
  ASSUME BookInv, NEW p \in Price, Matching(p), NEW q, q = MinOf(taker.remaining, Effective(Maker(p)))
  PROVE  q \in Nat /\ q <= taker.remaining /\ q <= Maker(p).remaining
         /\ taker.remaining - q \in Nat /\ Maker(p).remaining - q \in Nat
  <1>1. taker.remaining \in Nat /\ Maker(p).remaining \in Nat  BY MatchingSound
  <1>2. Effective(Maker(p)) \in Nat /\ Effective(Maker(p)) <= Maker(p).remaining
    <2>1. Effective(Maker(p)) \in Nat  BY InvFacts, MatchingFacts
    <2>2. Maker(p).display \in Nat \cup {None}  BY MatchingSound DEF Order
    <2> QED BY <1>1, <2>1, <2>2 DEF Effective, MinOf
  <1>3. q \in Nat /\ q <= taker.remaining /\ q <= Maker(p).remaining
    BY <1>1, <1>2 DEF MinOf
  <1> QED BY <1>1, <1>3

LEMMA ShrunkOrder ==
  ASSUME NEW o \in Order, NEW r \in Nat
  PROVE  LET u == [o EXCEPT !.remaining = r] IN
         u \in Order /\ u.id = o.id /\ u.remaining = r /\ u.type = o.type
  BY DEF Order

LEMMA FillMakerStep ==
  ASSUME BookInv, NEW p \in Price, FillMaker(p)
  PROVE  BookInv'
  <1>1. Matching(p)  BY DEF FillMaker
  <1>2. PICK s \in Side, m \in Order, i \in Id :
          s = Opposite(taker.side) /\ m = Maker(p) /\ i = m.id
    BY <1>1, MatchingSound
  <1>3. PICK q \in Nat : q = MinOf(taker.remaining, Effective(m)) /\ taker.remaining - q \in Nat
    BY <1>1, <1>2, QtyFacts
  <1>4. PICK b : b = PopFrontMaker(book, s, p)  OBVIOUS
  <1>5. /\ q = m.remaining
        /\ taker' = [taker EXCEPT !.remaining = @ - q]
        /\ acct' = AddFilled(AddFilled(acct, taker.id, q), i, q)
        /\ UNCHANGED <<phase, triggered, work, placed, dropped>>
        /\ book' = MaybeCancelOco(b, i)
        /\ Emit(<<Filled(taker.id, i, p, q)>> \o OcoEvents(b, i))
    BY <1>2, <1>3, <1>4 DEF FillMaker, Trade
  <1>6. /\ phase = "match" /\ triggered = <<>> /\ taker.type # "post_only"
        /\ taker \in Order /\ taker.id \in Id /\ taker.remaining \in Nat
        /\ book.level[s][p] # <<>> /\ m \in Orders(book.level[s][p]) /\ m = Head(book.level[s][p])
        /\ m.id # taker.id
    BY <1>1, <1>2, MatchingSound
  <1>7. PICK u \in Order : /\ u = taker' /\ u.id = taker.id /\ u.type = taker.type
                           /\ u.remaining = taker.remaining - q
    BY <1>3, <1>5, <1>6, ShrunkOrder
  <1>8. u.remaining + q = taker.remaining  BY <1>3, <1>6, <1>7
  <1>9. PICK a \in AcctType, c \in AcctType :
          /\ a = AddFilled(acct, taker.id, q) /\ c = acct' /\ c = AddFilled(a, i, q)
    BY <1>5, <1>6, InvFacts, AcctUpdate
  <1>10. Adds(acct, a, taker.id, q) /\ Adds(a, c, i, q)  BY <1>6, <1>9, InvFacts, AddsFacts
  <1>11. Sound(Stock(book, work, triggered, "match", u), a, ended, dropped, placed)
    <2>1. Sound(Stock(book, work, triggered, "match", taker), acct, ended, dropped, placed)
      BY <1>6, InvFacts
    <2> QED BY <1>6, <1>7, <1>8, <1>10, <2>1, InvFacts, TakerCut
  <1>12. Good(b) /\ BookWithout(book, b, i) /\ b \in BookType
    <2>1. Good(b) /\ BookWithout(book, b, i)  BY <1>2, <1>4, <1>6, InvFacts, PopGood
    <2> QED BY <2>1 DEF Good
  <1>13. Kinds(b, work, triggered)  BY <1>12, InvFacts, KindsWithout
  <1>14. Sound(Stock(b, work, triggered, "match", u), c, ended, dropped, placed)
    BY <1>2, <1>5, <1>6, <1>7, <1>10, <1>11, <1>12, InvFacts, MakerUsedUp
  <1>15. PICK f : f = MaybeCancelOco(b, i)  OBVIOUS
  <1>16. /\ Good(f) /\ Kinds(f, work, triggered)
         /\ Sound(Stock(f, work, triggered, "match", u), c,
                  ended \cup CancelledIn(OcoEvents(b, i)), dropped, placed)
    BY <1>7, <1>12, <1>13, <1>14, <1>15, InvFacts, OcoSound
  <1>17. ended' = ended \cup CancelledIn(OcoEvents(b, i))
    <2>1. <<Filled(taker.id, i, p, q)>> \in Seq(Event)  BY <1>6, FilledEvent
    <2>2. OcoEvents(b, i) \in Seq(Event)  BY <1>12, OcoEventsType
    <2>3. CancelledIn(<<Filled(taker.id, i, p, q)>>) = {}  BY NamesNothing
    <2>4. CancelledIn(<<Filled(taker.id, i, p, q)>> \o OcoEvents(b, i))
            = CancelledIn(<<Filled(taker.id, i, p, q)>>) \cup CancelledIn(OcoEvents(b, i))
      BY <2>1, <2>2, NamesJoin
    <2> QED BY <1>5, <2>3, <2>4 DEF Emit
  <1>18. TypeOK'  BY InvFacts, FillType DEF Fill
  <1>19. Control'  BY <1>5, <1>6, <1>7, ControlKept
  <1>20. phase' = "match" /\ book' = f /\ taker' = u /\ acct' = c  BY <1>5, <1>6, <1>7, <1>9, <1>15
  <1> QED BY <1>5, <1>16, <1>17, <1>18, <1>19, <1>20, InvFacts, InvNext

LEMMA FillPartStep ==
  ASSUME BookInv, NEW p \in Price, FillPart(p)
  PROVE  BookInv'
  <1>1. Matching(p)  BY DEF FillPart
  <1>2. PICK s \in Side, m \in Order, i \in Id :
          s = Opposite(taker.side) /\ m = Maker(p) /\ i = m.id
    BY <1>1, MatchingSound
  <1>3. PICK q \in Nat : /\ q = MinOf(taker.remaining, Effective(m))
                         /\ taker.remaining - q \in Nat /\ m.remaining - q \in Nat
    BY <1>1, <1>2, QtyFacts
  <1>4. PICK left : left = [m EXCEPT !.remaining = @ - q]  OBVIOUS
  <1>5. /\ q < m.remaining
        /\ taker' = [taker EXCEPT !.remaining = @ - q]
        /\ acct' = AddFilled(AddFilled(acct, taker.id, q), i, q)
        /\ UNCHANGED <<phase, triggered, work, placed, dropped>>
        /\ book' = ReplaceFront(book, s, p, left) \/ book' = Requeue(book, s, p, left)
        /\ Emit(<<Filled(taker.id, i, p, q)>>)
    BY <1>2, <1>3, <1>4 DEF FillPart, Trade
  <1>6. /\ phase = "match" /\ triggered = <<>> /\ taker.type # "post_only"
        /\ taker \in Order /\ taker.id \in Id /\ taker.remaining \in Nat
        /\ book.level[s][p] # <<>> /\ m \in Orders(book.level[s][p]) /\ m = Head(book.level[s][p])
        /\ m.remaining \in Nat
    BY <1>1, <1>2, MatchingSound
  <1>7. PICK u \in Order : /\ u = taker' /\ u.id = taker.id /\ u.type = taker.type
                           /\ u.remaining = taker.remaining - q
    BY <1>3, <1>5, <1>6, ShrunkOrder
  <1>8. u.remaining + q = taker.remaining  BY <1>3, <1>6, <1>7
  <1>9. PICK a \in AcctType, c \in AcctType :
          /\ a = AddFilled(acct, taker.id, q) /\ c = acct' /\ c = AddFilled(a, i, q)
    BY <1>5, <1>6, InvFacts, AcctUpdate
  <1>10. Adds(acct, a, taker.id, q) /\ Adds(a, c, i, q)  BY <1>6, <1>9, InvFacts, AddsFacts
  <1>11. Sound(Stock(book, work, triggered, "match", u), a, ended, dropped, placed)
    <2>1. Sound(Stock(book, work, triggered, "match", taker), acct, ended, dropped, placed)
      BY <1>6, InvFacts
    <2> QED BY <1>6, <1>7, <1>8, <1>10, <2>1, InvFacts, TakerCut
  <1>12. left \in Order /\ left.id = i /\ left.remaining = m.remaining - q
    BY <1>2, <1>3, <1>4, ShrunkOrder
  <1>13. left.remaining + q = m.remaining /\ left.remaining > 0  BY <1>3, <1>5, <1>6, <1>12
  <1>14. PICK f : f = book'  OBVIOUS
  <1>15. Good(f) /\ LevelSet(book, f, s, p, Others(Orders(book.level[s][p]), i) \cup {left})
    BY <1>2, <1>5, <1>6, <1>12, <1>14, InvFacts, ReplaceGood
  <1>16. f \in BookType  BY <1>15 DEF Good
  <1>17. Sound(Stock(f, work, triggered, "match", u), c, ended, dropped, placed)
    <2>1. /\ book \in BookType /\ work \in Seq(Order) /\ triggered \in Seq(Order)
          /\ placed \in 0..MaxOrders
      BY InvFacts
    <2>2. LevelSet(book, f, s, p, Others(Orders(book.level[s][p]), m.id) \cup {left})
      BY <1>2, <1>15
    <2>3. left.id = m.id /\ Adds(a, c, m.id, q) /\ m \in Orders(book.level[s][p])
      BY <1>2, <1>6, <1>10, <1>12
    <2>4. left \in Order  BY <1>12
    <2>5. "match" = "match" => u \in Order  OBVIOUS
    <2> QED BY ONLY <1>11, <1>13, <1>16, <2>1, <2>2, <2>3, <2>4, <2>5, MakerCut,
               u \in Order, a \in AcctType, s \in Side, p \in Price, q \in Nat
  <1>18. Kinds(f, work, triggered)  BY <1>15, InvFacts DEF Kinds, LevelSet
  <1>19. ended' = ended
    <2>1. CancelledIn(<<Filled(taker.id, i, p, q)>>) = {}  BY NamesNothing
    <2> QED BY <1>5, <2>1 DEF Emit
  <1>20. TypeOK'  BY InvFacts, FillType DEF Fill
  <1>21. Control'  BY <1>5, <1>6, <1>7, ControlKept
  <1>22. phase' = "match" /\ book' = f /\ taker' = u /\ acct' = c  BY <1>5, <1>6, <1>7, <1>9, <1>14
  <1> QED BY <1>5, <1>15, <1>17, <1>18, <1>19, <1>20, <1>21, <1>22, InvFacts, InvNext

(* Self-trade prevention: one or both orders end, one may shrink. *)
LEMMA StpStep ==
  ASSUME BookInv, NEW p \in Price, ApplyStp(p)
  PROVE  BookInv'
  <1>1. /\ Matching(p) /\ UNCHANGED <<lastTrade, triggered, work, stopDepth, placed, dropped>>
    BY DEF ApplyStp, StpCancelTaker, StpCancelMaker, StpCutMaker, StpCutTaker, StpCutBoth, SelfMatch
  <1>2. PICK s \in Side, m \in Order, i \in Id :
          s = Opposite(taker.side) /\ m = Maker(p) /\ i = m.id
    BY <1>1, MatchingSound
  <1>3. /\ phase = "match" /\ triggered = <<>> /\ taker.type # "post_only"
        /\ taker \in Order /\ taker.id \in Id /\ taker.remaining \in Nat /\ taker.remaining > 0
        /\ book.level[s][p] # <<>> /\ m \in Orders(book.level[s][p]) /\ m = Head(book.level[s][p])
        /\ m.remaining \in Nat /\ m.remaining > 0 /\ m.id # taker.id
    BY <1>1, <1>2, MatchingSound
  <1>4. Sound(Stock(book, work, triggered, "match", taker), acct, ended, dropped, placed)
    BY <1>3, InvFacts
  <1>5. TypeOK'  BY InvFacts, ApplyStpType
  <1>6. PICK b : b = PopFrontMaker(book, s, p)  OBVIOUS
  <1>7. Good(b) /\ BookWithout(book, b, i) /\ b \in BookType
    <2>1. Good(b) /\ BookWithout(book, b, i)  BY <1>2, <1>3, <1>6, InvFacts, PopGood
    <2> QED BY <2>1 DEF Good
  <1>8. Kinds(b, work, triggered) /\ InBook(book, i)
    BY <1>2, <1>3, <1>7, InvFacts, KindsWithout DEF InBook, Kept
  <1>9. Sound(Stock(b, work, triggered, "match", taker), acct, ended \cup {i}, dropped, placed)
    BY <1>3, <1>4, <1>7, <1>8, InvFacts, CancelStock
  <1>10. CASE StpCancelTaker(p)
    <2>1. /\ phase' = "drain" /\ Emit(<<Cancelled(taker.id, "stp")>>) /\ UNCHANGED <<book, taker, acct>>
      BY <1>10 DEF StpCancelTaker
    <2>2. ended' = ended \cup {taker.id}  BY <2>1, NamesOne DEF Emit
    <2>3. Sound(Stock(book, work, triggered, "drain", taker), acct, ended \cup {taker.id}, dropped, placed)
      BY <1>3, <1>4, InvFacts, TakerEnds
    <2>4. Control'  BY <1>1, <1>3, <2>1, ControlKept
    <2> QED BY <1>1, <1>5, <2>1, <2>2, <2>3, <2>4, InvFacts, InvNext
  <1>11. CASE StpCancelMaker(p)
    <2>1. /\ book' = b /\ Emit(<<Cancelled(i, "stp")>>) /\ UNCHANGED <<phase, taker, acct>>
      BY <1>2, <1>6, <1>11 DEF StpCancelMaker
    <2>2. ended' = ended \cup {i}  BY <2>1, NamesOne DEF Emit
    <2>3. Control'  BY <1>1, <1>3, <2>1, ControlKept
    <2> QED BY <1>1, <1>3, <1>5, <1>7, <1>8, <1>9, <2>1, <2>2, <2>3, InvFacts, InvNext
  <1>12. CASE StpCutMaker(p)
    <2>1. PICK r \in Nat : r = taker.remaining  BY <1>3
    <2>2. PICK left : left = [m EXCEPT !.remaining = @ - r]  OBVIOUS
    <2>3. /\ r < m.remaining /\ phase' = "drain"
          /\ book' = ReplaceFront(book, s, p, left)
          /\ taker' = [taker EXCEPT !.remaining = 0]
          /\ acct' = AddCut(AddCut(acct, taker.id, r), i, r)
          /\ Emit(<<Cancelled(taker.id, "stp")>>)
      BY <1>2, <1>12, <2>1, <2>2 DEF StpCutMaker
    <2>4. ended' = ended \cup {taker.id}  BY <2>3, NamesOne DEF Emit
    <2>5. m.remaining - r \in Nat  BY <1>3, <2>3
    <2>6. left \in Order /\ left.id = i /\ left.remaining = m.remaining - r
      BY <1>2, <2>2, <2>5, ShrunkOrder
    <2>7. left.remaining + r = m.remaining /\ left.remaining > 0  BY <1>3, <2>3, <2>6
    <2>8. PICK a \in AcctType, c \in AcctType :
            /\ a = AddCut(acct, taker.id, r) /\ c = acct' /\ c = AddCut(a, i, r)
      BY <1>3, <2>3, InvFacts, AcctUpdate
    <2>9. /\ Adds(acct, a, taker.id, r) /\ a[taker.id].filled = acct[taker.id].filled
          /\ Adds(a, c, i, r)
      BY <1>3, <2>8, InvFacts, AddsFacts
    <2>10. PICK t \in Order : t = taker' /\ t.type = taker.type  BY <1>3, <2>3, ShrunkOrder
    <2>11. PICK S : S = Stock(book, work, triggered, "drain", t)  OBVIOUS
    <2>12. Sound(S, acct, ended \cup {taker.id}, dropped, placed)
      BY <1>3, <1>4, <2>11, InvFacts, TakerEnds
    <2>13. Sound(S, a, ended \cup {taker.id}, dropped, placed)
      <3>1. S \in Stocks  BY <2>11, InvFacts, StockShows DEF Shows
      <3>2. Fates(S, acct, ended \cup {taker.id}, dropped, placed)  BY <2>12 DEF Sound
      <3>3. Fates(S, a, ended \cup {taker.id}, dropped, placed)
        BY <2>9, <3>1, <3>2, InvFacts, CutEnded DEF Adds
      <3> QED BY <2>12, <3>3 DEF Sound
    <2>14. PICK f : f = book'  OBVIOUS
    <2>15. Good(f) /\ LevelSet(book, f, s, p, Others(Orders(book.level[s][p]), i) \cup {left})
      BY <1>2, <1>3, <2>3, <2>6, <2>14, InvFacts, ReplaceGood
    <2>16. f \in BookType  BY <2>15 DEF Good
    <2>17. Sound(Stock(f, work, triggered, "drain", t), c, ended \cup {taker.id}, dropped, placed)
      <3>1. /\ book \in BookType /\ work \in Seq(Order) /\ triggered \in Seq(Order)
            /\ placed \in 0..MaxOrders
        BY InvFacts
      <3>2. LevelSet(book, f, s, p, Others(Orders(book.level[s][p]), m.id) \cup {left})
        BY <1>2, <2>15
      <3>3. left.id = m.id /\ Adds(a, c, m.id, r) /\ m \in Orders(book.level[s][p])
        BY <1>2, <1>3, <2>6, <2>9
      <3>4. left \in Order  BY <2>6
      <3>5. "drain" = "match" => t \in Order  OBVIOUS
      <3>6. Sound(Stock(book, work, triggered, "drain", t), a, ended \cup {taker.id}, dropped, placed)
        BY <2>11, <2>13
      <3> QED BY ONLY <2>7, <2>16, <3>1, <3>2, <3>3, <3>4, <3>5, <3>6, MakerCut,
                 a \in AcctType, s \in Side, p \in Price, r \in Nat
    <2>18. Kinds(f, work, triggered)  BY <2>15, InvFacts DEF Kinds, LevelSet
    <2>19. Control'  BY <1>1, <1>3, <2>3, <2>10, ControlKept
    <2> QED BY <1>1, <1>5, <2>3, <2>4, <2>8, <2>10, <2>14, <2>15, <2>17, <2>18, <2>19, InvFacts, InvNext
  <1>13. CASE StpCutTaker(p)
    <2>1. PICK r \in Nat : r = m.remaining  BY <1>3
    <2>2. /\ taker.remaining > r /\ book' = b
          /\ taker' = [taker EXCEPT !.remaining = @ - r]
          /\ acct' = AddCut(acct, taker.id, r)
          /\ Emit(<<Cancelled(i, "stp")>>) /\ UNCHANGED phase
      BY <1>2, <1>6, <1>13, <2>1 DEF StpCutTaker
    <2>3. ended' = ended \cup {i}  BY <2>2, NamesOne DEF Emit
    <2>4. taker.remaining - r \in Nat  BY <1>3, <2>2
    <2>5. PICK u \in Order : /\ u = taker' /\ u.id = taker.id /\ u.type = taker.type
                             /\ u.remaining = taker.remaining - r
      BY <1>3, <2>2, <2>4, ShrunkOrder
    <2>6. u.remaining + r = taker.remaining  BY <1>3, <2>5
    <2>7. Adds(acct, acct', taker.id, r)  BY <1>3, <2>2, InvFacts, AddsFacts
    <2>8. Sound(Stock(b, work, triggered, "match", u), acct', ended \cup {i}, dropped, placed)
      BY <1>3, <1>7, <1>9, <2>5, <2>6, <2>7, InvFacts, TakerCut
    <2>9. Control'  BY <1>1, <1>3, <2>2, <2>5, ControlKept
    <2> QED BY <1>1, <1>3, <1>5, <1>7, <1>8, <2>2, <2>3, <2>5, <2>8, <2>9, InvFacts, InvNext
  <1>14. CASE StpCutBoth(p)
    <2>1. PICK r \in Nat : r = taker.remaining  BY <1>3
    <2>2. /\ book' = b /\ phase' = "drain"
          /\ taker' = [taker EXCEPT !.remaining = 0]
          /\ acct' = AddCut(acct, taker.id, r)
          /\ Emit(<<Cancelled(i, "stp"), Cancelled(taker.id, "stp")>>)
      BY <1>2, <1>6, <1>14, <2>1 DEF StpCutBoth
    <2>3. ended' = (ended \cup {i}) \cup {taker.id}  BY <2>2, NamesTwo DEF Emit
    <2>4. PICK t \in Order : t = taker' /\ t.type = taker.type  BY <1>3, <2>2, ShrunkOrder
    <2>5. PICK S : S = Stock(b, work, triggered, "drain", t)  OBVIOUS
    <2>6. Sound(S, acct, (ended \cup {i}) \cup {taker.id}, dropped, placed)
      BY <1>3, <1>7, <1>9, <2>5, InvFacts, TakerEnds
    <2>7. PICK a \in AcctType : a = acct' /\ a = AddCut(acct, taker.id, r)
      BY <1>3, <2>2, InvFacts, AcctUpdate
    <2>8. Adds(acct, a, taker.id, r) /\ a[taker.id].filled = acct[taker.id].filled
      BY <1>3, <2>7, InvFacts, AddsFacts
    <2>9. Sound(S, a, (ended \cup {i}) \cup {taker.id}, dropped, placed)
      <3>1. S \in Stocks  BY <1>7, <2>5, InvFacts, StockShows DEF Shows
      <3>2. Fates(S, acct, (ended \cup {i}) \cup {taker.id}, dropped, placed)  BY <2>6 DEF Sound
      <3>3. Fates(S, a, (ended \cup {i}) \cup {taker.id}, dropped, placed)
        BY <2>8, <3>1, <3>2, InvFacts, CutEnded DEF Adds
      <3> QED BY <2>6, <3>3 DEF Sound
    <2>10. Control'  BY <1>1, <1>3, <2>2, <2>4, ControlKept
    <2> QED BY <1>1, <1>5, <1>7, <1>8, <2>2, <2>3, <2>4, <2>5, <2>7, <2>9, <2>10, InvFacts, InvNext
  <1> QED BY <1>10, <1>11, <1>12, <1>13, <1>14 DEF ApplyStp

(* finalize_taker rests the taker: it moves from the loop to its level. *)
LEMMA TakerRests ==
  ASSUME NEW b \in BookType, NEW c \in BookType, NEW w \in Seq(Order), NEW t \in Seq(Order),
         NEW s \in Side, NEW p \in Price, NEW o \in Order, o.remaining > 0,
         LevelSet(b, c, s, p, Orders(b.level[s][p]) \cup {o}),
         NEW a \in AcctType, NEW e, NEW d, NEW n \in 0..MaxOrders,
         Sound(Stock(b, w, t, "match", o), a, e, d, n)
  PROVE  Sound(Stock(c, w, t, "drain", o), a, e, d, n)
  <1>1. PICK S, T : S = Stock(b, w, t, "match", o) /\ T = Stock(c, w, t, "drain", o)  OBVIOUS
  <1>2. Shows(S, b, w, t, "match", o)  BY <1>1, StockShows
  <1>3. Shows(T, c, w, t, "drain", o)
    <2>1. "drain" = "match" => o \in Order  OBVIOUS
    <2> QED BY <1>1, <2>1, StockShows
  <1>4. S \in Stocks /\ T \in Stocks /\ S[TK] = {o} /\ T[TK] = {}  BY <1>2, <1>3 DEF Shows
  <1>5. PICK x \in Places : x = LV(s, p) /\ x # TK /\ TK \in Places  BY PlaceNames
  <1>6. T[x] = S[x] \cup {o}  BY <1>2, <1>3, <1>5 DEF Shows, LevelSet
  <1>7. \A y \in Places : y # x /\ y # TK => T[y] = S[y]
    <2>1. T[WK] = S[WK] /\ T[TR] = S[TR]  BY <1>2, <1>3 DEF Shows
    <2>2. \A r \in Side, v \in Price : T[ST(r, v)] = S[ST(r, v)]
      BY <1>2, <1>3 DEF Shows, LevelSet
    <2>3. \A r \in Side, v \in Price : r # s \/ v # p => T[LV(r, v)] = S[LV(r, v)]
      BY <1>2, <1>3 DEF Shows, LevelSet
    <2> QED BY <1>5, <2>1, <2>2, <2>3, PlaceWise
  <1>8. Unique(S) /\ Positive(S) /\ Fates(S, a, e, d, n)  BY <1>1 DEF Sound
  <1>9. \A y \in Places : \A v \in T[y] : (v \in S[y] /\ y # TK) \/ (y = x /\ v = o)
    BY <1>4, <1>6, <1>7
  <1>10. \A y \in Places : \A v \in S[y] : v.id = o.id => y = TK /\ v = o
    BY <1>4, <1>5, <1>8 DEF Unique
  <1>11. Unique(T)  BY <1>8, <1>9, <1>10 DEF Unique
  <1>12. Positive(T)  BY <1>8, <1>9 DEF Positive
  <1>13. \A y \in Places : \A v \in T[y] :
           \E z \in Places : \E u \in S[z] : u.id = v.id /\ u.remaining = v.remaining
    BY <1>4, <1>5, <1>9
  <1>14. \A i : Held(S, i) => Held(T, i)
    <2> SUFFICES ASSUME NEW y \in Places, NEW v \in S[y] PROVE Held(T, v.id)
      BY DEF Held
    <2>1. CASE y = TK  BY <1>4, <1>6, <2>1 DEF Held
    <2>2. CASE y # TK  BY <1>6, <1>7, <2>2 DEF Held
    <2> QED BY <2>1, <2>2
  <1>15. Fates(T, a, e, d, n)  BY <1>4, <1>8, <1>13, <1>14, Rearranged
  <1> QED BY <1>1, <1>11, <1>12, <1>15 DEF Sound

LEMMA FinalizeRestedStep ==
  ASSUME BookInv, FinalizeRested
  PROVE  BookInv'
  <1>1. /\ phase = "match" /\ phase' = "drain" /\ MayRest(taker)
        /\ book' = InsertMaker(book, taker) /\ Emit(<<Rested(taker)>>)
        /\ UNCHANGED <<taker, lastTrade, triggered, work, stopDepth, placed, acct, dropped>>
    BY DEF FinalizeRested, LoopDone
  <1>2. PICK o \in Order : o = taker  BY <1>1, InvFacts
  <1>3. o.remaining > 0 /\ o.price # None /\ o.side \in Side /\ o.price \in Price
    BY <1>1, <1>2 DEF MayRest, Order
  <1>4. Sound(Stock(book, work, triggered, "match", o), acct, ended, dropped, placed)
    BY <1>1, <1>2, InvFacts
  <1>5. ~InBook(book, o.id)
    <2>1. Unique(Stock(book, work, triggered, "match", o))  BY <1>4 DEF Sound
    <2> QED BY <2>1, InvFacts, BookPart
  <1>6. PICK c : c = InsertMaker(book, o)  OBVIOUS
  <1>7. Good(c) /\ LevelSet(book, c, o.side, o.price, Orders(book.level[o.side][o.price]) \cup {o})
    BY <1>3, <1>5, <1>6, InvFacts, InsertGood
  <1>8. c \in BookType  BY <1>7 DEF Good
  <1>9. PICK s \in Side, p \in Price : s = o.side /\ p = o.price  BY <1>3
  <1>10. Sound(Stock(c, work, triggered, "drain", o), acct, ended, dropped, placed)
    BY <1>3, <1>4, <1>7, <1>8, <1>9, InvFacts, TakerRests
  <1>11. Kinds(c, work, triggered)  BY <1>7, InvFacts DEF Kinds, LevelSet
  <1>12. ended' = ended
    <2>1. CancelledIn(<<Rested(taker)>>) = {}  BY NamesNothing
    <2> QED BY <1>1, <2>1 DEF Emit
  <1>13. TypeOK'  BY InvFacts, FinalizeRestedType
  <1>14. Control'  BY <1>1, InvFacts DEF Control
  <1> QED BY <1>1, <1>2, <1>6, <1>7, <1>10, <1>11, <1>12, <1>13, <1>14, InvFacts, InvNext

LEMMA FinalizeEndedStep ==
  ASSUME BookInv, FinalizeEnded
  PROVE  BookInv'
  <1>1. /\ phase = "match" /\ phase' = "drain"
        /\ book' = MaybeCancelOco(book, taker.id)
        /\ UNCHANGED <<taker, lastTrade, triggered, work, stopDepth, placed, acct, dropped>>
    BY DEF FinalizeEnded, LoopDone
  <1>2. PICK o \in Order : o = taker  BY <1>1, InvFacts
  <1>3. PICK i \in Id : i = o.id  BY DEF Order
  <1>4. PICK e : e = IF o.remaining = 0 THEN <<>> ELSE <<Cancelled(i, FinalReason(o))>>  OBVIOUS
  <1>5. Emit(e \o OcoEvents(book, i))  BY <1>2, <1>3, <1>4 DEF FinalizeEnded
  <1>6. Sound(Stock(book, work, triggered, "match", o), acct, ended, dropped, placed)
    BY <1>1, <1>2, InvFacts
  <1>7. e \in Seq(Event) /\ Sound(Stock(book, work, triggered, "drain", o), acct,
                                  ended \cup CancelledIn(e), dropped, placed)
    <2>0. o.remaining \in Nat  BY DEF Order
    <2>1. CASE o.remaining = 0
      <3>1. e = <<>> /\ ended \cup CancelledIn(e) = ended  BY <1>4, <2>1, NamesNothing
      <3>2. Sound(Stock(book, work, triggered, "drain", o), acct, ended, dropped, placed)
        BY <1>6, <2>1, InvFacts, TakerEnds
      <3>3. e \in Seq(Event)  BY <3>1
      <3> QED BY <3>1, <3>2, <3>3
    <2>2. CASE o.remaining > 0
      <3>1. e = <<Cancelled(i, FinalReason(o))>>  BY <1>4, <2>2
      <3>2. ended \cup CancelledIn(e) = ended \cup {i}  BY <3>1, NamesOne
      <3>3. FinalReason(o) \in Reason  BY DEF FinalReason, Reason
      <3>4. e \in Seq(Event)  BY <3>1, <3>3, CancelledEvent
      <3>5. Sound(Stock(book, work, triggered, "drain", o), acct, ended \cup {i}, dropped, placed)
        BY <1>3, <1>6, <2>2, InvFacts, TakerEnds
      <3> QED BY <3>2, <3>4, <3>5
    <2>3. o.remaining = 0 \/ o.remaining > 0  BY <2>0
    <2> QED BY <2>1, <2>2, <2>3
  <1>8. PICK f : f = MaybeCancelOco(book, i)  OBVIOUS
  <1>9. /\ Good(f) /\ Kinds(f, work, triggered)
        /\ Sound(Stock(f, work, triggered, "drain", o), acct,
                 (ended \cup CancelledIn(e)) \cup CancelledIn(OcoEvents(book, i)), dropped, placed)
    <2>1. "drain" = "match" => o \in Order  OBVIOUS
    <2> QED BY <1>7, <1>8, <2>1, InvFacts, OcoSound
  <1>10. ended' = (ended \cup CancelledIn(e)) \cup CancelledIn(OcoEvents(book, i))
    <2>1. OcoEvents(book, i) \in Seq(Event)  BY InvFacts, OcoEventsType
    <2>2. CancelledIn(e \o OcoEvents(book, i)) = CancelledIn(e) \cup CancelledIn(OcoEvents(book, i))
      BY <1>7, <2>1, NamesJoin
    <2> QED BY <1>5, <2>2 DEF Emit
  <1>11. TypeOK'  BY InvFacts, FinalizeEndedType
  <1>12. Control'  BY <1>1, InvFacts DEF Control
  <1> QED BY <1>1, <1>2, <1>3, <1>8, <1>9, <1>10, <1>11, <1>12, InvFacts, InvNext

(* A bucket of stops is triggered and converted. *)
LEMMA DrainStep ==
  ASSUME BookInv, NEW s \in Side, NEW p \in Price, DrainStops(s, p)
  PROVE  BookInv'
  <1>1. PICK q \in Seq(Order) : q = book.stops[s][p] /\ Distinct(q)
    BY InvFacts, BookQueues DEF Good
  <1>2. PICK r : r = [k \in 1..Len(q) |-> Convert(q[k])]  OBVIOUS
  <1>3. PICK c : c = SetStops(book, s, p, <<>>)  OBVIOUS
  <1>4. /\ phase = "drain" /\ triggered' = triggered \o r /\ book' = c
        /\ UNCHANGED <<phase, taker, lastTrade, work, stopDepth, events, placed, hist>>
    BY <1>1, <1>2, <1>3 DEF DrainStops
  <1>5. r \in Seq(Order) /\ Distinct(r) /\ Orders(r) = {Convert(o) : o \in Orders(q)}
    BY <1>1, <1>2, ConvertSet
  <1>6. Good(c) /\ StopsSet(book, c, s, p, {})  BY <1>3, InvFacts, StopsGood
  <1>7. c \in BookType  BY <1>6 DEF Good
  <1>8. PICK S : S = Stock(book, work, triggered, "drain", taker)  OBVIOUS
  <1>9. Unique(S) /\ Positive(S) /\ Fates(S, acct, ended, dropped, placed)
    BY <1>4, <1>8, InvFacts DEF Sound
  <1>10. Shows(S, book, work, triggered, "drain", taker)
    <2>1. "drain" = "match" => taker \in Order  OBVIOUS
    <2> QED BY <1>8, <2>1, InvFacts, StockShows
  <1>11. PICK x \in Places : x = ST(s, p) /\ x # TR /\ x # TK /\ TR \in Places /\ TR # TK
    BY PlaceNames
  <1>12. S[x] = Orders(q) /\ S[TR] = Orders(triggered) /\ S \in Stocks /\ S[x] \subseteq Order
    BY <1>1, <1>10, <1>11 DEF Shows, Stocks
  <1>13. \A o \in S[x] : /\ Convert(o) \in Order /\ Convert(o).id = o.id
                         /\ Convert(o).remaining = o.remaining
                         /\ IsStop(o.type) => Convert(o).type \in {"limit", "market"}
    BY <1>12, ConvertKeeps
  <1>14. \A o \in Orders(triggered), u \in Orders(r) : o.id # u.id
    <2> SUFFICES ASSUME NEW o \in Orders(triggered), NEW v \in Orders(q) PROVE o.id # Convert(v).id
      BY <1>5
    <2> QED BY <1>9, <1>11, <1>12, <1>13 DEF Unique
  <1>15. PICK t : t = triggered \o r  OBVIOUS
  <1>16. t \in Seq(Order) /\ Distinct(t) /\ Orders(t) = Orders(triggered) \cup Orders(r)
    BY <1>5, <1>14, <1>15, InvFacts, ConcatSet
  <1>17. PICK T : T = Stock(c, work, t, "drain", taker)  OBVIOUS
  <1>18. Shows(T, c, work, t, "drain", taker)
    <2>1. "drain" = "match" => taker \in Order  OBVIOUS
    <2> QED BY <1>7, <1>16, <1>17, <2>1, InvFacts, StockShows
  <1>19. T \in Stocks /\ T[x] = {} /\ T[TR] = S[TR] \cup {Convert(o) : o \in S[x]}
    BY <1>5, <1>6, <1>11, <1>12, <1>16, <1>18 DEF Shows, StopsSet
  <1>20. \A y \in Places : y # x /\ y # TR => T[y] = S[y]
    <2>1. T[WK] = S[WK] /\ T[TK] = S[TK]  BY <1>10, <1>18 DEF Shows
    <2>2. \A i \in Side, v \in Price : T[LV(i, v)] = S[LV(i, v)]
      BY <1>6, <1>10, <1>18 DEF Shows, StopsSet
    <2>3. \A i \in Side, v \in Price : i # s \/ v # p => T[ST(i, v)] = S[ST(i, v)]
      BY <1>6, <1>10, <1>18 DEF Shows, StopsSet
    <2> QED BY <1>11, <2>1, <2>2, <2>3, PlaceWise
  <1>21. \A y \in Places : \A v \in T[y] :
           (v \in S[y] /\ y # x) \/ (y = TR /\ \E o \in S[x] : v = Convert(o))
    BY <1>11, <1>19, <1>20
  <1>22. Unique(T)
    <2> SUFFICES ASSUME NEW y \in Places, NEW z \in Places, NEW u \in T[y], NEW v \in T[z], u.id = v.id
                 PROVE  y = z /\ u = v
      BY DEF Unique
    <2>1. CASE u \in S[y] /\ y # x /\ v \in S[z] /\ z # x  BY <1>9, <2>1 DEF Unique
    <2>2. CASE u \in S[y] /\ y # x /\ z = TR /\ \E o \in S[x] : v = Convert(o)
      BY <1>9, <1>13, <2>2 DEF Unique
    <2>3. CASE v \in S[z] /\ z # x /\ y = TR /\ \E o \in S[x] : u = Convert(o)
      BY <1>9, <1>13, <2>3 DEF Unique
    <2>4. CASE (y = TR /\ \E o \in S[x] : u = Convert(o)) /\ (z = TR /\ \E o \in S[x] : v = Convert(o))
      <3>1. PICK k \in S[x], l \in S[x] : u = Convert(k) /\ v = Convert(l)  BY <2>4
      <3>2. k.id = l.id  BY <1>13, <3>1
      <3>3. k = l  BY <1>9, <3>2 DEF Unique
      <3> QED BY <2>4, <3>1, <3>3
    <2> QED BY <1>21, <2>1, <2>2, <2>3, <2>4
  <1>23. Positive(T)  BY <1>9, <1>11, <1>13, <1>21 DEF Positive
  <1>24. Fates(T, acct, ended, dropped, placed)
    <2>1. \A y \in Places : \A v \in T[y] :
            \E z \in Places : \E u \in S[z] : u.id = v.id /\ u.remaining = v.remaining
      BY <1>13, <1>21
    <2>2. \A i : Held(S, i) => Held(T, i)
      <3> SUFFICES ASSUME NEW y \in Places, NEW v \in S[y] PROVE Held(T, v.id)
        BY DEF Held
      <3>1. CASE y = x
        <4>1. Convert(v) \in T[TR] /\ Convert(v).id = v.id  BY <1>13, <1>19, <3>1
        <4> QED BY <1>11, <4>1 DEF Held
      <3>2. CASE y # x
        <4>1. v \in T[y]  BY <1>19, <1>20, <3>2
        <4> QED BY <4>1 DEF Held
      <3> QED BY <3>1, <3>2
    <2> QED BY <1>9, <1>12, <1>19, <2>1, <2>2, InvFacts, Rearranged
  <1>25. Sound(T, acct, ended, dropped, placed)  BY <1>22, <1>23, <1>24 DEF Sound
  <1>26. Kinds(c, work, t)
    <2>1. \A o \in Orders(q) : IsStop(o.type)  BY <1>1, InvFacts DEF Kinds
    <2>2. \A o \in Orders(t) : o.type \in {"limit", "market"}
      BY <1>5, <1>12, <1>13, <1>16, <2>1, InvFacts DEF Kinds
    <2>3. \A i \in Side, v \in Price : \A o \in Orders(c.stops[i][v]) : IsStop(o.type)
      BY <1>6, InvFacts DEF Kinds, StopsSet
    <2> QED BY <2>2, <2>3, InvFacts DEF Kinds
  <1>27. TypeOK'  BY InvFacts, DrainStopsType
  <1>28. Control'  BY <1>4, InvFacts DEF Control
  <1>29. phase' = "drain" /\ taker' = taker /\ work' = work /\ triggered' = t
         /\ UNCHANGED <<acct, ended, dropped, placed>>
    BY <1>4, <1>15 DEF hist
  <1> QED BY <1>4, <1>6, <1>16, <1>17, <1>25, <1>26, <1>27, <1>28, <1>29, InvFacts, InvNext

(* Outside the matching loop the stock does not depend on the taker. *)
LEMMA IdleStock ==
  ASSUME NEW b, NEW w, NEW t, NEW ph, NEW tk, NEW qh, NEW uk, ph # "match", qh # "match"
  PROVE  Stock(b, w, t, ph, tk) = Stock(b, w, t, qh, uk)
  BY DEF Stock

(* Below the cap the triggered stops join the work queue. *)
LEMMA Pushed ==
  ASSUME NEW b \in BookType, NEW w \in Seq(Order), NEW t \in Seq(Order), Distinct(w), Distinct(t),
         NEW a \in AcctType, NEW e, NEW d, NEW n \in 0..MaxOrders,
         Sound(Stock(b, w, t, "drain", None), a, e, d, n)
  PROVE  /\ w \o t \in Seq(Order) /\ Distinct(w \o t)
         /\ Orders(w \o t) = Orders(w) \cup Orders(t)
         /\ Sound(Stock(b, w \o t, <<>>, "drain", None), a, e, d, n)
  <1>1. PICK S : S = Stock(b, w, t, "drain", None)  OBVIOUS
  <1>2. Unique(S) /\ Positive(S) /\ Fates(S, a, e, d, n)  BY <1>1 DEF Sound
  <1>0. "drain" = "match" => None \in Order  OBVIOUS
  <1>3. Shows(S, b, w, t, "drain", None)  BY <1>0, <1>1, StockShows
  <1>4. S \in Stocks /\ S[WK] = Orders(w) /\ S[TR] = Orders(t)  BY <1>3 DEF Shows
  <1>5. WK \in Places /\ TR \in Places /\ TK \in Places /\ WK # TR /\ WK # TK /\ TR # TK
    BY PlaceNames
  <1>6. \A o \in Orders(w), u \in Orders(t) : o.id # u.id  BY <1>2, <1>4, <1>5 DEF Unique
  <1>7. PICK q : q = w \o t  OBVIOUS
  <1>8. q \in Seq(Order) /\ Distinct(q) /\ Orders(q) = Orders(w) \cup Orders(t)
    BY <1>6, <1>7, ConcatSet
  <1>9. PICK T : T = Stock(b, q, <<>>, "drain", None)  OBVIOUS
  <1>10. <<>> \in Seq(Order) /\ Orders(<<>>) = {}  BY DEF Orders
  <1>11. Shows(T, b, q, <<>>, "drain", None)  BY <1>0, <1>8, <1>9, <1>10, StockShows
  <1>12. T \in Stocks /\ T[WK] = S[WK] \cup S[TR] /\ T[TR] = {}
    BY <1>4, <1>8, <1>10, <1>11 DEF Shows
  <1>13. \A y \in Places : y # WK /\ y # TR => T[y] = S[y]
    <2>1. T[TK] = S[TK]  BY <1>3, <1>11 DEF Shows
    <2>2. \A s \in Side, p \in Price : T[LV(s, p)] = S[LV(s, p)] /\ T[ST(s, p)] = S[ST(s, p)]
      BY <1>3, <1>11 DEF Shows
    <2> QED BY <2>1, <2>2, PlaceWise
  <1>14. \A y \in Places : \A v \in T[y] : y # TR /\ (v \in S[y] \/ (y = WK /\ v \in S[TR]))
    BY <1>12, <1>13
  <1>15. Unique(T)  BY <1>2, <1>5, <1>14 DEF Unique
  <1>16. Positive(T)  BY <1>2, <1>5, <1>14 DEF Positive
  <1>17. \A y \in Places : \A v \in T[y] :
           \E z \in Places : \E u \in S[z] : u.id = v.id /\ u.remaining = v.remaining
    BY <1>5, <1>14
  <1>18. \A i : Held(S, i) => Held(T, i)
    <2> SUFFICES ASSUME NEW y \in Places, NEW v \in S[y] PROVE Held(T, v.id)
      BY DEF Held
    <2>1. \E z \in Places : v \in T[z]  BY <1>5, <1>12, <1>13
    <2> QED BY <2>1 DEF Held
  <1>19. Fates(T, a, e, d, n)  BY <1>2, <1>4, <1>12, <1>17, <1>18, Rearranged
  <1> QED BY <1>7, <1>8, <1>9, <1>15, <1>16, <1>19 DEF Sound

(* At the cap they are dropped. *)
LEMMA CapDrops ==
  ASSUME NEW b \in BookType, NEW w \in Seq(Order), NEW t \in Seq(Order),
         NEW a \in AcctType, NEW e, NEW d, NEW n \in 0..MaxOrders,
         Sound(Stock(b, w, t, "drain", None), a, e, d, n)
  PROVE  Sound(Stock(b, w, <<>>, "drain", None), a, e, d \cup Ids(t), n)
  <1>1. PICK S : S = Stock(b, w, t, "drain", None)  OBVIOUS
  <1>2. Unique(S) /\ Positive(S) /\ Fates(S, a, e, d, n)  BY <1>1 DEF Sound
  <1>0. "drain" = "match" => None \in Order  OBVIOUS
  <1>3. Shows(S, b, w, t, "drain", None)  BY <1>0, <1>1, StockShows
  <1>4. PICK T : T = Stock(b, w, <<>>, "drain", None)  OBVIOUS
  <1>5. <<>> \in Seq(Order) /\ Orders(<<>>) = {}  BY DEF Orders
  <1>6. Shows(T, b, w, <<>>, "drain", None)  BY <1>0, <1>4, <1>5, StockShows
  <1>7. S \in Stocks /\ S[TR] = Orders(t) /\ T \in Stocks /\ T[TR] = {}
    BY <1>3, <1>5, <1>6 DEF Shows
  <1>8. TR \in Places /\ TR # TK  BY PlaceNames
  <1>9. \A y \in Places : y # TR => T[y] = S[y]
    <2>1. T[TK] = S[TK] /\ T[WK] = S[WK]  BY <1>3, <1>6 DEF Shows
    <2>2. \A s \in Side, p \in Price : T[LV(s, p)] = S[LV(s, p)] /\ T[ST(s, p)] = S[ST(s, p)]
      BY <1>3, <1>6 DEF Shows
    <2> QED BY <2>1, <2>2, PlaceWise
  <1>10. Fates(T, a, e, d \cup {o.id : o \in S[TR]}, n)
    BY <1>2, <1>7, <1>8, <1>9, ThrownAway
  <1>11. {o.id : o \in S[TR]} = Ids(t)  BY <1>7 DEF Orders, Ids
  <1>12. \A y \in Places : \A v \in T[y] : v \in S[y]  BY <1>7, <1>9
  <1>13. Unique(T) /\ Positive(T)  BY <1>2, <1>12 DEF Unique, Positive
  <1> QED BY <1>4, <1>10, <1>11, <1>13 DEF Sound

(* The last order of the work queue becomes the taker. *)
LEMMA Dequeued ==
  ASSUME NEW b \in BookType, NEW w \in Seq(Order), Distinct(w), w # <<>>,
         NEW a \in AcctType, NEW e, NEW d, NEW n \in 0..MaxOrders,
         Sound(Stock(b, w, <<>>, "drain", None), a, e, d, n)
  PROVE  /\ Last(w) \in Orders(w) /\ Last(w) \in Order
         /\ Front(w) \in Seq(Order) /\ Distinct(Front(w)) /\ Orders(Front(w)) \subseteq Orders(w)
         /\ Sound(Stock(b, Front(w), <<>>, "match", Last(w)), a, e, d, n)
  <1>1. PICK S : S = Stock(b, w, <<>>, "drain", None)  OBVIOUS
  <1>2. Unique(S) /\ Positive(S) /\ Fates(S, a, e, d, n)  BY <1>1 DEF Sound
  <1>0. "drain" = "match" => None \in Order  OBVIOUS
  <1>5. <<>> \in Seq(Order) /\ Orders(<<>>) = {}  BY DEF Orders
  <1>3. Shows(S, b, w, <<>>, "drain", None)  BY <1>0, <1>1, <1>5, StockShows
  <1>4. PICK o, f : o = Last(w) /\ f = Front(w)  OBVIOUS
  <1>6. o \in Orders(w) /\ f \in Seq(Order) /\ Distinct(f) /\ Orders(f) = Others(Orders(w), o.id)
    BY <1>4, LastSet
  <1>7. o \in Order  BY <1>6, SeqFacts
  <1>8. PICK T : T = Stock(b, f, <<>>, "match", o)  OBVIOUS
  <1>9. Shows(T, b, f, <<>>, "match", o)  BY <1>5, <1>6, <1>7, <1>8, StockShows
  <1>10. /\ S \in Stocks /\ T \in Stocks /\ S[WK] = Orders(w) /\ T[WK] = Others(S[WK], o.id)
         /\ S[TK] = {} /\ T[TK] = {o}
    BY <1>3, <1>6, <1>9 DEF Shows
  <1>11. WK \in Places /\ TK \in Places /\ WK # TK  BY PlaceNames
  <1>12. \A y \in Places : y # WK /\ y # TK => T[y] = S[y]
    <2>1. T[TR] = S[TR]  BY <1>3, <1>9 DEF Shows
    <2>2. \A s \in Side, p \in Price : T[LV(s, p)] = S[LV(s, p)] /\ T[ST(s, p)] = S[ST(s, p)]
      BY <1>3, <1>9 DEF Shows
    <2> QED BY <2>1, <2>2, PlaceWise
  <1>13. o \in S[WK]  BY <1>6, <1>10
  <1>14. \A y \in Places : \A v \in S[y] : v.id = o.id => v = o /\ y = WK
    BY <1>2, <1>11, <1>13 DEF Unique
  <1>15. \A y \in Places : \A v \in T[y] :
           (v \in S[y] /\ v.id # o.id /\ y # TK) \/ (y = TK /\ v = o)
    <2> SUFFICES ASSUME NEW y \in Places, NEW v \in T[y]
                 PROVE  (v \in S[y] /\ v.id # o.id /\ y # TK) \/ (y = TK /\ v = o)
      OBVIOUS
    <2>1. CASE y = WK  BY <1>10, <1>11, <2>1 DEF Others
    <2>2. CASE y = TK  BY <1>10, <2>2
    <2>3. CASE y # WK /\ y # TK  BY <1>12, <1>14, <2>3
    <2> QED BY <2>1, <2>2, <2>3
  <1>16. Unique(T)  BY <1>2, <1>15 DEF Unique
  <1>17. Positive(T)  BY <1>2, <1>15 DEF Positive
  <1>18. \A y \in Places : \A v \in T[y] :
           \E z \in Places : \E u \in S[z] : u.id = v.id /\ u.remaining = v.remaining
    BY <1>11, <1>13, <1>15
  <1>19. \A i : Held(S, i) => Held(T, i)
    <2> SUFFICES ASSUME NEW y \in Places, NEW v \in S[y] PROVE Held(T, v.id)
      BY DEF Held
    <2>1. CASE v.id = o.id  BY <1>10, <1>11, <2>1 DEF Held
    <2>2. CASE v.id # o.id
      <3>1. v \in T[y]  BY <1>10, <1>12, <2>2 DEF Others
      <3> QED BY <3>1 DEF Held
    <2> QED BY <2>1, <2>2
  <1>20. Fates(T, a, e, d, n)  BY <1>2, <1>10, <1>18, <1>19, Rearranged
  <1>21. Orders(f) \subseteq Orders(w)  BY <1>6 DEF Others
  <1> QED BY <1>4, <1>6, <1>7, <1>8, <1>16, <1>17, <1>20, <1>21 DEF Sound

(* What the end of a run does with the triggered stops. *)
LEMMA RunEndSound ==
  ASSUME BookInv, phase = "drain", AccountTriggered
  PROVE  /\ Queue \in Seq(Order) /\ Distinct(Queue)
         /\ \A o \in Orders(Queue) : o.type \in {"limit", "market"}
         /\ Sound(Stock(book, Queue, <<>>, "drain", None), acct, ended, dropped', placed)
  <1>1. Sound(Stock(book, work, triggered, "drain", None), acct, ended, dropped, placed)
    <2>1. Stock(book, work, triggered, phase, taker) = Stock(book, work, triggered, "drain", None)
      BY IdleStock
    <2> QED BY <2>1, InvFacts
  <1>2. CASE Cascade
    <2>1. Queue = work \o triggered /\ dropped' = dropped  BY <1>2 DEF Queue, AccountTriggered
    <2>2. /\ work \o triggered \in Seq(Order) /\ Distinct(work \o triggered)
          /\ Orders(work \o triggered) = Orders(work) \cup Orders(triggered)
          /\ Sound(Stock(book, work \o triggered, <<>>, "drain", None), acct, ended, dropped, placed)
      BY <1>1, InvFacts, Pushed
    <2> QED BY <2>1, <2>2, InvFacts DEF Kinds
  <1>3. CASE ~Cascade
    <2>1. Queue = work /\ dropped' = dropped \cup Ids(triggered)
      BY <1>3 DEF Queue, AccountTriggered
    <2>2. Sound(Stock(book, work, <<>>, "drain", None), acct, ended, dropped \cup Ids(triggered), placed)
      BY <1>1, InvFacts, CapDrops
    <2> QED BY <2>1, <2>2, InvFacts DEF Kinds
  <1> QED BY <1>2, <1>3

LEMMA NextInQueueStep ==
  ASSUME BookInv, NextInQueue
  PROVE  BookInv'
  <1>1. /\ phase = "drain" /\ Queue # <<>> /\ AccountTriggered
        /\ taker' = Last(Queue) /\ work' = Front(Queue)
        /\ phase' = "match" /\ lastTrade' = None /\ triggered' = <<>>
        /\ UNCHANGED <<book, placed, acct, ended>>
    BY DEF NextInQueue, RunDone
  <1>2. PICK q \in Seq(Order) :
          /\ q = Queue /\ Distinct(q) /\ \A o \in Orders(q) : o.type \in {"limit", "market"}
          /\ Sound(Stock(book, q, <<>>, "drain", None), acct, ended, dropped', placed)
    BY <1>1, RunEndSound
  <1>3. /\ Last(q) \in Orders(q) /\ Distinct(Front(q)) /\ Orders(Front(q)) \subseteq Orders(q)
        /\ Sound(Stock(book, Front(q), <<>>, "match", Last(q)), acct, ended, dropped', placed)
    BY <1>1, <1>2, InvFacts, Dequeued
  <1>4. Orders(<<>>) = {} /\ Distinct(<<>>)  BY DEF Orders, Distinct
  <1>5. Kinds(book, Front(q), <<>>)  BY <1>2, <1>3, <1>4, InvFacts DEF Kinds
  <1>6. taker'.type # "post_only"  BY <1>1, <1>2, <1>3
  <1>7. Control'  BY <1>1, <1>6 DEF Control
  <1>8. TypeOK'  BY InvFacts, RunEndType
  <1> QED BY <1>1, <1>2, <1>3, <1>4, <1>5, <1>7, <1>8, InvFacts, InvNext

LEMMA CommandDoneStep ==
  ASSUME BookInv, CommandDone
  PROVE  BookInv'
  <1>1. /\ phase = "drain" /\ Queue = <<>> /\ AccountTriggered
        /\ taker' = None /\ work' = <<>>
        /\ phase' = "idle" /\ lastTrade' = None /\ triggered' = <<>>
        /\ UNCHANGED <<book, placed, acct, ended>>
    BY DEF CommandDone, RunDone
  <1>2. Sound(Stock(book, <<>>, <<>>, "drain", None), acct, ended, dropped', placed)
    BY <1>1, RunEndSound
  <1>3. Stock(book, <<>>, <<>>, "drain", None) = Stock(book, <<>>, <<>>, "idle", None)
    BY IdleStock
  <1>4. Orders(<<>>) = {} /\ Distinct(<<>>)  BY DEF Orders, Distinct
  <1>5. Kinds(book, <<>>, <<>>)  BY <1>4, InvFacts DEF Kinds
  <1>6. Control'  BY <1>1 DEF Control
  <1>7. TypeOK'  BY InvFacts, RunEndType
  <1> QED BY <1>1, <1>2, <1>3, <1>4, <1>5, <1>6, <1>7, InvFacts, InvNext

(* match_order accepts a new order: it is refused, parked or matched. *)
LEMMA PlaceStep ==
  ASSUME BookInv, NEW o \in Inputs, Place(o)
  PROVE  BookInv'
  <1>1. /\ phase = "idle" /\ o.id = placed + 1 /\ placed' = placed + 1
        /\ acct' = [acct EXCEPT ![o.id] = [qty |-> o.quantity, filled |-> 0, cut |-> 0]]
        /\ UNCHANGED <<lastTrade, triggered, work, stopDepth, dropped>>
    BY DEF Place, PlaceRejected, PlaceStop, PlaceActive, Submit
  <1>2. /\ o \in Order /\ o.id \in Id /\ o.oco \in Id \cup {None} /\ o.quantity \in Nat
        /\ o.quantity > 0 /\ o.remaining = o.quantity /\ (IsStop(o.type) => o.stop # None)
    BY ConstantsAssumption DEF Order, ValidateWireOrder
  <1>3. work = <<>> /\ triggered = <<>> /\ lastTrade = None  BY <1>1, InvFacts DEF Control
  <1>4. PICK n \in 0..MaxOrders : n = placed  BY InvFacts
  <1>5. PICK a \in AcctType :
          /\ a = acct' /\ a[n + 1] = [qty |-> o.remaining, filled |-> 0, cut |-> 0]
          /\ \A j \in Id : j # n + 1 => a[j] = acct[j]
    <2>1. acct' \in AcctType  BY <1>1, <1>2, InvFacts, AcctUpdate
    <2>2. acct \in [Id -> [qty: Nat, filled: Nat, cut: Nat]]  BY InvFacts DEF AcctType
    <2>3. /\ acct'[n + 1] = [qty |-> o.remaining, filled |-> 0, cut |-> 0]
          /\ \A j \in Id : j # n + 1 => acct'[j] = acct[j]
      BY <1>1, <1>2, <1>4, <2>2
    <2> QED BY <2>1, <2>3
  <1>6. PICK b : b = RegisterOco(book, o.id, o.oco)  OBVIOUS
  <1>7. b \in BookType /\ b.level = book.level /\ b.stops = book.stops /\ b.index = book.index
    BY <1>2, <1>6, InvFacts, RegisterSame
  <1>8. Good(b)  BY <1>7, InvFacts, SameGood
  <1>9. Kinds(b, work, triggered)  BY <1>7, InvFacts DEF Kinds
  <1>10. PICK S : S = Stock(b, work, triggered, "idle", taker)  OBVIOUS
  <1>11. Unique(S) /\ Positive(S) /\ Fates(S, acct, ended, dropped, n)
    <2>1. S = Stock(book, work, triggered, phase, taker)  BY <1>1, <1>7, <1>10, StockSame
    <2> QED BY <1>4, <2>1, InvFacts DEF Sound
  <1>12. Shows(S, b, work, triggered, "idle", taker)
    <2>1. "idle" = "match" => taker \in Order  OBVIOUS
    <2> QED BY <1>7, <1>10, <2>1, InvFacts, StockShows
  <1>13. S \in Stocks  BY <1>12 DEF Shows
  <1>14. TypeOK'  BY InvFacts, PlaceType
  <1>15. CASE PlaceRejected(o)
    <2>1. /\ book' = b /\ Output(<<Cancelled(o.id, RejectReason(o))>>) /\ UNCHANGED <<phase, taker>>
      BY <1>6, <1>15 DEF PlaceRejected
    <2>2. ended' = ended \cup {n + 1}  BY <1>1, <1>4, <2>1, NamesOne DEF Output
    <2>3. a[n + 1].filled < a[n + 1].qty  BY <1>2, <1>5
    <2>4. Fates(S, a, ended \cup {n + 1}, dropped, n + 1)
      BY <1>5, <1>11, <1>13, <2>3, InvFacts, Refused
    <2>5. Sound(S, a, ended \cup {n + 1}, dropped, n + 1)  BY <1>11, <2>4 DEF Sound
    <2>6. Control'  BY <1>1, <1>3, <2>1 DEF Control
    <2> QED BY <1>1, <1>4, <1>5, <1>8, <1>9, <1>10, <1>14, <2>1, <2>2, <2>5, <2>6, InvFacts, InvNext
  <1>16. CASE PlaceStop(o)
    <2>1. PICK s \in Side, p \in Price : s = o.side /\ p = o.stop
      BY <1>2, <1>16 DEF PlaceStop, Order
    <2>2. PICK c : c = SetStops(b, s, p, Append(b.stops[s][p], o))  OBVIOUS
    <2>3. /\ book' = c /\ Output(<<Rested(o)>>) /\ UNCHANGED <<phase, taker>> /\ IsStop(o.type)
      BY <1>6, <1>16, <2>1, <2>2 DEF PlaceStop
    <2>4. ~InBook(b, o.id)
      <3>1. o.id \notin 1..n  BY <1>1, <1>4, ConstantsAssumption
      <3>2. Unique(Stock(b, work, triggered, "idle", taker)) /\ ("idle" = "match" => taker \in Order)
        BY <1>10, <1>11
      <3>3. InBook(b, o.id) => Held(S, o.id)  BY <1>7, <1>10, <3>2, InvFacts, BookPart
      <3> QED BY <1>11, <3>1, <3>3 DEF Held, Fates
    <2>5. Good(c) /\ StopsSet(b, c, s, p, Orders(b.stops[s][p]) \cup {o})
      BY <1>2, <1>8, <2>2, <2>4, StopsGood
    <2>6. c \in BookType  BY <2>5 DEF Good
    <2>7. PICK T : T = Stock(c, work, triggered, "idle", taker)  OBVIOUS
    <2>8. Shows(T, c, work, triggered, "idle", taker)
      <3>1. "idle" = "match" => taker \in Order  OBVIOUS
      <3> QED BY <2>6, <2>7, <3>1, InvFacts, StockShows
    <2>9. PICK x \in Places : x = ST(s, p) /\ x # TK  BY PlaceNames
    <2>10. Joined(S, T, x, o)
      <3>1. T[x] = S[x] \cup {o}  BY <1>12, <2>5, <2>8, <2>9 DEF Shows, StopsSet
      <3>2. T[WK] = S[WK] /\ T[TR] = S[TR] /\ T[TK] = S[TK]  BY <1>12, <2>8 DEF Shows
      <3>3. \A r \in Side, v \in Price : T[LV(r, v)] = S[LV(r, v)]
        BY <1>12, <2>5, <2>8 DEF Shows, StopsSet
      <3>4. \A r \in Side, v \in Price : r # s \/ v # p => T[ST(r, v)] = S[ST(r, v)]
        BY <1>12, <2>5, <2>8 DEF Shows, StopsSet
      <3>5. \A y \in Places : y # x => T[y] = S[y]  BY <2>9, <3>2, <3>3, <3>4, PlaceWise
      <3> QED BY <3>1, <3>5 DEF Joined
    <2>11. T \in Stocks /\ o.id = n + 1  BY <1>1, <1>4, <2>8 DEF Shows
    <2>12. Unique(T) /\ Fates(T, a, ended, dropped, n + 1)
      BY <1>2, <1>5, <1>11, <1>13, <2>10, <2>11, InvFacts, Arrives
    <2>13. Positive(T)
      <3>1. o.remaining > 0  BY <1>2
      <3>2. \A y \in Places : \A v \in T[y] : v \in S[y] \/ v = o  BY <2>10 DEF Joined
      <3> QED BY <1>11, <3>1, <3>2 DEF Positive
    <2>14. ended' = ended
      <3>1. CancelledIn(<<Rested(o)>>) = {}  BY NamesNothing
      <3> QED BY <2>3, <3>1 DEF Output
    <2>15. Kinds(c, work, triggered)
      <3>1. \A r \in Side, v \in Price : \A u \in Orders(c.stops[r][v]) : IsStop(u.type)
        BY <1>9, <2>3, <2>5 DEF Kinds, StopsSet
      <3> QED BY <1>9, <3>1 DEF Kinds
    <2>16. Control'  BY <1>1, <1>3, <2>3 DEF Control
    <2>17. Sound(T, a, ended, dropped, n + 1)  BY <2>12, <2>13 DEF Sound
    <2> QED BY <1>1, <1>4, <1>5, <1>14, <2>3, <2>5, <2>7, <2>14, <2>15, <2>16, <2>17, InvFacts, InvNext
  <1>17. CASE PlaceActive(o)
    <2>1. /\ ~PreCheckRejects(o) /\ book' = b /\ phase' = "match" /\ taker' = o /\ Output(<<>>)
      BY <1>6, <1>17 DEF PlaceActive
    <2>2. PICK T : T = Stock(b, work, triggered, "match", o)  OBVIOUS
    <2>3. Shows(T, b, work, triggered, "match", o)  BY <1>2, <1>7, <2>2, InvFacts, StockShows
    <2>4. Joined(S, T, TK, o)
      <3>1. T[TK] = S[TK] \cup {o} /\ T[WK] = S[WK] /\ T[TR] = S[TR]  BY <1>12, <2>3 DEF Shows
      <3>2. \A r \in Side, v \in Price : T[LV(r, v)] = S[LV(r, v)] /\ T[ST(r, v)] = S[ST(r, v)]
        BY <1>12, <2>3 DEF Shows
      <3>3. \A y \in Places : y # TK => T[y] = S[y]  BY <3>1, <3>2, PlaceWise
      <3> QED BY <3>1, <3>3 DEF Joined
    <2>5. T \in Stocks /\ o.id = n + 1 /\ TK \in Places  BY <1>1, <1>4, <2>3, PlaceNames DEF Shows
    <2>6. Unique(T) /\ Fates(T, a, ended, dropped, n + 1)
      BY <1>2, <1>5, <1>11, <1>13, <2>4, <2>5, InvFacts, Arrives
    <2>7. Positive(T)  BY <1>11, <2>4 DEF Positive, Joined
    <2>8. ended' = ended  BY <2>1, NamesNothing DEF Output
    <2>9. o.type = "post_only" => Matchable(o) = {}  BY <2>1 DEF PreCheckRejects
    <2>10. Control'
      <3>1. book'.level = book.level  BY <1>7, <2>1
      <3>2. taker'.type = "post_only" => Matchable(taker)' = {}
        BY <2>1, <2>9, <3>1 DEF Matchable, Occupied, PriceSatisfied
      <3> QED BY <1>1, <1>3, <2>1, <3>2 DEF Control
    <2>11. Sound(T, a, ended, dropped, n + 1)  BY <2>6, <2>7 DEF Sound
    <2> QED BY <1>1, <1>4, <1>5, <1>8, <1>9, <1>14, <2>1, <2>2, <2>8, <2>10, <2>11, InvFacts, InvNext
  <1> QED BY <1>15, <1>16, <1>17 DEF Place

LEMMA CancelOrderStep ==
  ASSUME BookInv, NEW i \in Id, CancelOrder(i)
  PROVE  BookInv'
  <1>1. phase = "idle" /\ UNCHANGED <<ctl, acct, dropped>>  BY DEF CancelOrder
  <1>2. PICK l : l = book.oco[i]  OBVIOUS
  <1>3. l \in Id \cup {None}  BY <1>2, InvFacts, BookParts
  <1>4. PICK b : b = Unlink(book, i)  OBVIOUS
  <1>5. b \in BookType /\ b.level = book.level /\ b.stops = book.stops /\ b.index = book.index
    BY <1>4, InvFacts, UnlinkSame
  <1>6. Good(b) /\ Kinds(b, work, triggered)
    <2>1. Good(b)  BY <1>5, InvFacts, SameGood
    <2> QED BY <1>5, <2>1, InvFacts DEF Kinds
  <1>7. Sound(Stock(b, work, triggered, "idle", taker), acct, ended, dropped, placed)
    <2>1. Stock(b, work, triggered, "idle", taker) = Stock(book, work, triggered, phase, taker)
      BY <1>1, <1>5, StockSame
    <2> QED BY <2>1, InvFacts
  <1>8. PICK c : c = CancelInternal(b, i)  OBVIOUS
  <1>9. PICK q : q = CancelEvents(b, i, "admin_cancel")  OBVIOUS
  <1>10. "idle" = "match" => taker \in Order  OBVIOUS
  <1>11. PICK e : e = ended \cup CancelledIn(q)  OBVIOUS
  <1>12. /\ Good(c) /\ Kinds(c, work, triggered)
         /\ Sound(Stock(c, work, triggered, "idle", taker), acct, e, dropped, placed)
    BY <1>6, <1>7, <1>8, <1>9, <1>10, <1>11, InvFacts, CancelSound
  <1>13. q \in Seq(Event)  BY <1>9, CancelEventsType DEF Reason
  <1>14. TypeOK'  BY InvFacts, CancelOrderType
  <1>15. UNCHANGED <<phase, taker, lastTrade, triggered, work, placed>>  BY <1>1 DEF ctl
  <1>16. Control'  BY <1>1, <1>15, InvFacts DEF Control
  <1>17. CASE l = None
    <2>1. book' = c /\ Output(q \o <<>>)
      BY <1>2, <1>4, <1>8, <1>9, <1>17 DEF CancelOrder
    <2>2. q \o <<>> = q  BY <1>13, ConcatEmptySeq
    <2>3. ended' = e  BY <1>11, <2>1, <2>2 DEF Output
    <2> QED BY <1>1, <1>12, <1>14, <1>15, <1>16, <2>1, <2>3, InvFacts, InvNext
  <1>18. CASE l # None
    <2>1. l \in Id  BY <1>3, <1>18
    <2>2. PICK r : r = CancelEvents(c, l, "oco")  OBVIOUS
    <2>3. PICK f : f = CancelInternal(c, l)  OBVIOUS
    <2>4. book' = f /\ Output(q \o r)
      BY <1>2, <1>4, <1>8, <1>9, <1>18, <2>2, <2>3 DEF CancelOrder
    <2>5. /\ Good(f) /\ Kinds(f, work, triggered)
          /\ Sound(Stock(f, work, triggered, "idle", taker), acct, e \cup CancelledIn(r), dropped, placed)
      BY <1>10, <1>12, <2>1, <2>2, <2>3, InvFacts, CancelSound
    <2>6. r \in Seq(Event)  BY <2>1, <2>2, CancelEventsType DEF Reason
    <2>7. CancelledIn(q \o r) = CancelledIn(q) \cup CancelledIn(r)  BY <1>13, <2>6, NamesJoin
    <2>8. ended' = e \cup CancelledIn(r)  BY <1>11, <2>4, <2>7 DEF Output
    <2> QED BY <1>1, <1>14, <1>15, <1>16, <2>4, <2>5, <2>8, InvFacts, InvNext
  <1> QED BY <1>17, <1>18

LEMMA InitSound ==
  ASSUME Init
  PROVE  BookInv
  <1>1. TypeOK  BY InitOK
  <1>2. \A s \in Side, p \in Price : book.level[s][p] = <<>> /\ book.stops[s][p] = <<>>
    BY DEF Init, EmptyBook, EmptyQueues
  <1>3. \A i \in Id : book.index[i] = None  BY DEF Init, EmptyBook
  <1>4. Orders(<<>>) = {} /\ Distinct(<<>>)  BY DEF Orders, Distinct
  <1>5. \A s \in Side, p \in Price : <<s, p>> # None  BY ConstantsAssumption
  <1>6. book \in BookType  BY <1>1 DEF TypeOK
  <1>7. Good(book)  BY <1>2, <1>3, <1>4, <1>5, <1>6 DEF Good, Kept, Parked
  <1>8. /\ work = <<>> /\ triggered = <<>> /\ phase = "idle" /\ taker = None /\ lastTrade = None
        /\ ended = {} /\ dropped = {} /\ placed = 0 /\ acct = EmptyAcct
    BY DEF Init
  <1>9. PICK S : S = Stock(book, work, triggered, phase, taker)  OBVIOUS
  <1>10. Shows(S, book, work, triggered, phase, taker)
    BY <1>1, <1>8, <1>9, StockShows DEF TypeOK
  <1>11. \A x \in Places : S[x] = {}
    <2>1. S[WK] = {} /\ S[TR] = {} /\ S[TK] = {}  BY <1>4, <1>8, <1>10 DEF Shows
    <2>2. \A s \in Side, p \in Price : S[LV(s, p)] = {} /\ S[ST(s, p)] = {}
      BY <1>2, <1>4, <1>10 DEF Shows
    <2> QED BY <2>1, <2>2, PlaceWise
  <1>12. Unique(S) /\ Positive(S)  BY <1>11 DEF Unique, Positive
  <1>13. Fates(S, acct, ended, dropped, placed)  BY <1>8, <1>11 DEF Fates
  <1>14. Kinds(book, work, triggered)  BY <1>2, <1>4, <1>8 DEF Kinds
  <1>15. Control  BY <1>8 DEF Control
  <1> QED BY <1>1, <1>4, <1>7, <1>8, <1>9, <1>12, <1>13, <1>14, <1>15 DEF BookInv, Sound

LEMMA StepSound ==
  ASSUME BookInv, [Next]_vars
  PROVE  BookInv'
  <1>1. ASSUME NEW o \in Inputs, Place(o) PROVE BookInv'  BY <1>1, PlaceStep
  <1>2. ASSUME NEW i \in Id, CancelOrder(i) PROVE BookInv'  BY <1>2, CancelOrderStep
  <1>3. ASSUME NEW p \in Price, Fill(p) \/ ApplyStp(p) PROVE BookInv'
    BY <1>3, FillMakerStep, FillPartStep, StpStep DEF Fill
  <1>4. CASE Finalize  BY <1>4, FinalizeRestedStep, FinalizeEndedStep DEF Finalize
  <1>5. ASSUME NEW s \in Side, NEW p \in Price, DrainStops(s, p) PROVE BookInv'
    BY <1>5, DrainStep
  <1>6. CASE NextInQueue  BY <1>6, NextInQueueStep
  <1>7. CASE CommandDone  BY <1>7, CommandDoneStep
  <1>8. CASE UNCHANGED vars
    <2>1. UNCHANGED <<book, phase, taker, lastTrade, triggered, work, stopDepth, events,
                      placed, acct, ended, dropped>>
      BY <1>8 DEF vars
    <2>2. TypeOK'  BY <2>1, InvFacts DEF TypeOK
    <2>3. Control'  BY <2>1, InvFacts DEF Control, Matchable, Occupied, PriceSatisfied
    <2> QED BY <2>1, <2>2, <2>3, InvFacts, InvNext
  <1> QED BY <1>1, <1>2, <1>3, <1>4, <1>5, <1>6, <1>7, <1>8 DEF Next, Step

-----------------------------------------------------------------------------
(* What the invariant says. *)

(* The spot x is in the place z. *)
SpotIn(x, z) ==
  \/ \E s \in Side, p \in Price : z = LV(s, p) /\ \E k \in DOMAIN book.level[s][p] :
       x = <<"level", s, p, k>> /\ At(x) = book.level[s][p][k]
  \/ \E s \in Side, p \in Price : z = ST(s, p) /\ \E k \in DOMAIN book.stops[s][p] :
       x = <<"stops", s, p, k>> /\ At(x) = book.stops[s][p][k]
  \/ z = WK /\ \E k \in DOMAIN work : x = <<"work", k>> /\ At(x) = work[k]
  \/ z = TR /\ \E k \in DOMAIN triggered : x = <<"triggered", k>> /\ At(x) = triggered[k]
  \/ z = TK /\ phase = "match" /\ x = <<"taker">> /\ At(x) = taker

LEMMA SpotPlace ==
  ASSUME NEW x \in Spots
  PROVE  \E z \in Places : SpotIn(x, z)
  <1>1. ASSUME NEW s \in Side, NEW p \in Price, NEW k \in DOMAIN book.level[s][p],
               x = <<"level", s, p, k>>
        PROVE  SpotIn(x, LV(s, p)) /\ LV(s, p) \in Places
    <2>1. At(x) = book.level[s][p][k]  BY <1>1 DEF At
    <2> QED BY <1>1, <2>1, PlaceNames DEF SpotIn
  <1>2. ASSUME NEW s \in Side, NEW p \in Price, NEW k \in DOMAIN book.stops[s][p],
               x = <<"stops", s, p, k>>
        PROVE  SpotIn(x, ST(s, p)) /\ ST(s, p) \in Places
    <2>1. At(x) = book.stops[s][p][k]  BY <1>2 DEF At
    <2> QED BY <1>2, <2>1, PlaceNames DEF SpotIn
  <1>3. ASSUME NEW k \in DOMAIN work, x = <<"work", k>> PROVE SpotIn(x, WK) /\ WK \in Places
    <2>1. At(x) = work[k]  BY <1>3 DEF At
    <2> QED BY <1>3, <2>1, PlaceNames DEF SpotIn
  <1>4. ASSUME NEW k \in DOMAIN triggered, x = <<"triggered", k>>
        PROVE  SpotIn(x, TR) /\ TR \in Places
    <2>1. At(x) = triggered[k]  BY <1>4 DEF At
    <2> QED BY <1>4, <2>1, PlaceNames DEF SpotIn
  <1>5. ASSUME phase = "match", x = <<"taker">> PROVE SpotIn(x, TK) /\ TK \in Places
    <2>1. At(x) = taker  BY <1>5 DEF At
    <2> QED BY <1>5, <2>1, PlaceNames DEF SpotIn
  <1>6. \/ \E s \in Side, p \in Price : \E k \in DOMAIN book.level[s][p] : x = <<"level", s, p, k>>
        \/ \E s \in Side, p \in Price : \E k \in DOMAIN book.stops[s][p] : x = <<"stops", s, p, k>>
        \/ \E k \in DOMAIN work : x = <<"work", k>>
        \/ \E k \in DOMAIN triggered : x = <<"triggered", k>>
        \/ phase = "match" /\ x = <<"taker">>
    <2> DEFINE A(s, p) == {<<"level", s, p, k>> : k \in DOMAIN book.level[s][p]}
               B(s, p) == {<<"stops", s, p, k>> : k \in DOMAIN book.stops[s][p]}
               U == UNION {A(s, p) : s \in Side, p \in Price}
               V == UNION {B(s, p) : s \in Side, p \in Price}
               W == {<<"work", k>> : k \in DOMAIN work}
               T == {<<"triggered", k>> : k \in DOMAIN triggered}
    <2>1. x \in U => \E s \in Side, p \in Price : x \in A(s, p)
      <3> HIDE DEF A
      <3> QED OBVIOUS
    <2>2. x \in V => \E s \in Side, p \in Price : x \in B(s, p)
      <3> HIDE DEF B
      <3> QED OBVIOUS
    <2>3. x \in U \/ x \in V \/ x \in W \/ x \in T \/ (phase = "match" /\ x = <<"taker">>)
      <3>1. Spots = U \cup V \cup W \cup T \cup (IF phase = "match" THEN {<<"taker">>} ELSE {})
        BY DEF Spots
      <3> HIDE DEF U, V, W, T
      <3> QED BY <3>1
    <2>4. \A s \in Side, p \in Price :
            x \in A(s, p) => \E k \in DOMAIN book.level[s][p] : x = <<"level", s, p, k>>
      OBVIOUS
    <2>5. \A s \in Side, p \in Price :
            x \in B(s, p) => \E k \in DOMAIN book.stops[s][p] : x = <<"stops", s, p, k>>
      OBVIOUS
    <2>6. x \in W => \E k \in DOMAIN work : x = <<"work", k>>  OBVIOUS
    <2>7. x \in T => \E k \in DOMAIN triggered : x = <<"triggered", k>>  OBVIOUS
    <2> HIDE DEF A, B, U, V, W, T
    <2> QED BY <2>1, <2>2, <2>3, <2>4, <2>5, <2>6, <2>7
  <1> QED BY <1>1, <1>2, <1>3, <1>4, <1>5, <1>6

(* The stock holds the order at the spot, and the spot is the only one of  *)
(* its place with that order.                                              *)
LEMMA SpotStock ==
  ASSUME BookInv, NEW x \in Spots, NEW z \in Places, SpotIn(x, z)
  PROVE  /\ At(x) \in Stock(book, work, triggered, phase, taker)[z]
         /\ z = TK => x[1] = "taker"
         /\ \A y \in Spots : SpotIn(y, z) /\ At(y).id = At(x).id => y = x
  <1>1. PICK S : S = Stock(book, work, triggered, phase, taker)  OBVIOUS
  <1>2. Shows(S, book, work, triggered, phase, taker)  BY <1>1, InvFacts, StockShows
  <1>3. CASE \E s \in Side, p \in Price : z = LV(s, p) /\ \E k \in DOMAIN book.level[s][p] :
               x = <<"level", s, p, k>> /\ At(x) = book.level[s][p][k]
    <2>1. PICK s \in Side, p \in Price : z = LV(s, p) /\ \E k \in DOMAIN book.level[s][p] :
               x = <<"level", s, p, k>> /\ At(x) = book.level[s][p][k]
      BY <1>3
    <2>2. PICK k \in DOMAIN book.level[s][p] : x = <<"level", s, p, k>> /\ At(x) = book.level[s][p][k]
      BY <2>1
    <2>3. At(x) \in S[z]  BY <1>2, <2>1, <2>2 DEF Shows, Orders
    <2>4. z # TK  BY <2>1, PlaceNames
    <2>5. ASSUME NEW y \in Spots, SpotIn(y, z), At(y).id = At(x).id PROVE y = x
      <3>1. PICK j \in DOMAIN book.level[s][p] : y = <<"level", s, p, j>> /\ At(y) = book.level[s][p][j]
        BY <2>1, <2>5, PlaceNames DEF SpotIn
      <3>2. Distinct(book.level[s][p])  BY InvFacts DEF Good
      <3> QED BY <2>2, <2>5, <3>1, <3>2 DEF Distinct
    <2> QED BY <1>1, <2>3, <2>4, <2>5
  <1>4. CASE \E s \in Side, p \in Price : z = ST(s, p) /\ \E k \in DOMAIN book.stops[s][p] :
               x = <<"stops", s, p, k>> /\ At(x) = book.stops[s][p][k]
    <2>1. PICK s \in Side, p \in Price : z = ST(s, p) /\ \E k \in DOMAIN book.stops[s][p] :
               x = <<"stops", s, p, k>> /\ At(x) = book.stops[s][p][k]
      BY <1>4
    <2>2. PICK k \in DOMAIN book.stops[s][p] : x = <<"stops", s, p, k>> /\ At(x) = book.stops[s][p][k]
      BY <2>1
    <2>3. At(x) \in S[z]  BY <1>2, <2>1, <2>2 DEF Shows, Orders
    <2>4. z # TK  BY <2>1, PlaceNames
    <2>5. ASSUME NEW y \in Spots, SpotIn(y, z), At(y).id = At(x).id PROVE y = x
      <3>1. PICK j \in DOMAIN book.stops[s][p] : y = <<"stops", s, p, j>> /\ At(y) = book.stops[s][p][j]
        BY <2>1, <2>5, PlaceNames DEF SpotIn
      <3>2. Distinct(book.stops[s][p])  BY InvFacts DEF Good
      <3> QED BY <2>2, <2>5, <3>1, <3>2 DEF Distinct
    <2> QED BY <1>1, <2>3, <2>4, <2>5
  <1>5. CASE z = WK /\ \E k \in DOMAIN work : x = <<"work", k>> /\ At(x) = work[k]
    <2>1. PICK k \in DOMAIN work : x = <<"work", k>> /\ At(x) = work[k]  BY <1>5
    <2>2. At(x) \in S[z]  BY <1>2, <1>5, <2>1 DEF Shows, Orders
    <2>3. z # TK  BY <1>5, PlaceNames
    <2>4. ASSUME NEW y \in Spots, SpotIn(y, z), At(y).id = At(x).id PROVE y = x
      <3>1. PICK j \in DOMAIN work : y = <<"work", j>> /\ At(y) = work[j]
        BY <1>5, <2>4, PlaceNames DEF SpotIn
      <3>2. Distinct(work)  BY InvFacts
      <3> QED BY <2>1, <2>4, <3>1, <3>2 DEF Distinct
    <2> QED BY <1>1, <2>2, <2>3, <2>4
  <1>6. CASE z = TR /\ \E k \in DOMAIN triggered : x = <<"triggered", k>> /\ At(x) = triggered[k]
    <2>1. PICK k \in DOMAIN triggered : x = <<"triggered", k>> /\ At(x) = triggered[k]  BY <1>6
    <2>2. At(x) \in S[z]  BY <1>2, <1>6, <2>1 DEF Shows, Orders
    <2>3. z # TK  BY <1>6, PlaceNames
    <2>4. ASSUME NEW y \in Spots, SpotIn(y, z), At(y).id = At(x).id PROVE y = x
      <3>1. PICK j \in DOMAIN triggered : y = <<"triggered", j>> /\ At(y) = triggered[j]
        BY <1>6, <2>4, PlaceNames DEF SpotIn
      <3>2. Distinct(triggered)  BY InvFacts
      <3> QED BY <2>1, <2>4, <3>1, <3>2 DEF Distinct
    <2> QED BY <1>1, <2>2, <2>3, <2>4
  <1>7. CASE z = TK /\ phase = "match" /\ x = <<"taker">> /\ At(x) = taker
    <2>1. At(x) \in S[z]  BY <1>2, <1>7 DEF Shows
    <2>2. x[1] = "taker"  BY <1>7
    <2>3. ASSUME NEW y \in Spots, SpotIn(y, z) PROVE y = x
      BY <1>7, <2>3, PlaceNames DEF SpotIn
    <2> QED BY <1>1, <2>1, <2>2, <2>3
  <1> QED BY <1>3, <1>4, <1>5, <1>6, <1>7 DEF SpotIn

LEMMA OnePlaceHolds ==
  ASSUME BookInv
  PROVE  OnePlace
  <1> SUFFICES ASSUME NEW x \in Spots, NEW y \in Spots, At(x).id = At(y).id PROVE x = y
    BY DEF OnePlace
  <1>1. PICK z \in Places, v \in Places : SpotIn(x, z) /\ SpotIn(y, v)  BY SpotPlace
  <1>2. PICK S : S = Stock(book, work, triggered, phase, taker)  OBVIOUS
  <1>3. At(x) \in S[z] /\ At(y) \in S[v]  BY <1>1, <1>2, SpotStock
  <1>4. Unique(S)  BY <1>2, InvFacts DEF Sound
  <1>5. z = v  BY <1>3, <1>4 DEF Unique
  <1> QED BY <1>1, <1>5, SpotStock

LEMMA ConservationHolds ==
  ASSUME BookInv
  PROVE  Conservation
  <1> SUFFICES ASSUME NEW x \in Spots
               PROVE  LET o == At(x) a == acct[o.id]
                      IN o.remaining + a.filled + a.cut = a.qty /\ (x[1] # "taker" => o.remaining > 0)
    BY DEF Conservation
  <1>1. PICK z \in Places : SpotIn(x, z)  BY SpotPlace
  <1>2. PICK S : S = Stock(book, work, triggered, phase, taker)  OBVIOUS
  <1>3. At(x) \in S[z] /\ (z = TK => x[1] = "taker")  BY <1>1, <1>2, SpotStock
  <1>4. Positive(S) /\ Fates(S, acct, ended, dropped, placed)  BY <1>2, InvFacts DEF Sound
  <1>5. Balanced(At(x), acct)  BY <1>3, <1>4 DEF Fates
  <1>6. x[1] # "taker" => At(x).remaining > 0  BY <1>3, <1>4 DEF Positive
  <1> QED BY <1>5, <1>6 DEF Balanced

LEMMA OneFateHolds ==
  ASSUME BookInv
  PROVE  OneFate
  <1> DEFINE F(i) == {f \in {"live", "ended", "used_up", "dropped"} :
         \/ f = "live" /\ i \in Live(book)
         \/ f = "ended" /\ i \in ended
         \/ f = "used_up" /\ i \notin ended /\ acct[i].filled + acct[i].cut = acct[i].qty
         \/ f = "dropped" /\ i \in dropped}
  <1> SUFFICES ASSUME phase = "idle", NEW i \in 1..placed
               PROVE  (i \in ended => acct[i].filled < acct[i].qty) /\ Cardinality(F(i)) = 1
    BY DEF OneFate
  <1>1. PICK S : S = Stock(book, work, triggered, phase, taker)  OBVIOUS
  <1>0. Shows(S, book, work, triggered, phase, taker)  BY <1>1, InvFacts, StockShows
  <1>2. S \in Stocks /\ Shows(S, book, work, triggered, phase, taker)  BY <1>0 DEF Shows
  <1>3. Unique(S) /\ Positive(S) /\ Fates(S, acct, ended, dropped, placed)
    BY <1>1, InvFacts DEF Sound
  <1>4. i \in Id  BY InvFacts, ConstantsAssumption DEF Id
  <1>5. i \in Live(book) <=> InBook(book, i)  BY <1>4, InvFacts, CancelNames DEF Live
  <1>6. Orders(<<>>) = {}  BY DEF Orders
  <1>7. S[WK] = {} /\ S[TR] = {} /\ S[TK] = {}
    BY <1>2, <1>6, InvFacts DEF Shows, Control
  <1>8. Held(S, i) <=> InBook(book, i)
    <2>1. ASSUME Held(S, i) PROVE InBook(book, i)
      <3>1. PICK x \in Places : \E o \in S[x] : o.id = i  BY <2>1 DEF Held
      <3>2. PICK s \in Side, p \in Price : x = LV(s, p) \/ x = ST(s, p)  BY <1>7, <3>1, PlaceWise
      <3> QED BY <1>2, <3>1, <3>2 DEF Shows, InBook, Kept, Parked
    <2>2. ASSUME InBook(book, i) PROVE Held(S, i)
      BY <1>1, <1>3, <2>2, InvFacts, BookPart
    <2> QED BY <2>1, <2>2
  <1>9. acct[i].qty \in Nat /\ acct[i].filled \in Nat /\ acct[i].cut \in Nat
    BY <1>4, InvFacts, AcctNat
  <1>10. i \in ended => acct[i].filled < acct[i].qty  BY <1>3 DEF Fates
  <1>11. CASE Held(S, i)
    <2>1. PICK x \in Places : \E o \in S[x] : o.id = i  BY <1>11 DEF Held
    <2>2. PICK o \in S[x] : o.id = i  BY <2>1
    <2>3. o.remaining \in Nat /\ o.remaining > 0
      BY <1>2, <1>3, <1>7, <2>2, OrderNat DEF Positive
    <2>4. i \notin ended /\ i \notin dropped /\ o.remaining + acct[i].filled + acct[i].cut = acct[i].qty
      BY <1>3, <2>2 DEF Fates, Balanced
    <2>5. acct[i].filled + acct[i].cut # acct[i].qty  BY <1>9, <2>3, <2>4
    <2>6. F(i) = {"live"}  BY <1>5, <1>8, <1>11, <2>4, <2>5
    <2> QED BY <1>10, <2>6, FS_Singleton
  <1>12. CASE i \in ended
    <2>1. i \notin dropped /\ ~Held(S, i)  BY <1>3, <1>12 DEF Fates, Held
    <2>2. F(i) = {"ended"}  BY <1>5, <1>8, <1>12, <2>1
    <2> QED BY <1>10, <2>2, FS_Singleton
  <1>13. CASE i \in dropped
    <2>1. i \notin ended /\ ~Held(S, i) /\ acct[i].filled + acct[i].cut < acct[i].qty
      BY <1>3, <1>13 DEF Fates, Held
    <2>2. acct[i].filled + acct[i].cut # acct[i].qty  BY <1>9, <2>1
    <2>3. F(i) = {"dropped"}  BY <1>5, <1>8, <1>13, <2>1, <2>2
    <2> QED BY <1>10, <2>3, FS_Singleton
  <1>14. CASE ~Held(S, i) /\ i \notin ended /\ i \notin dropped
    <2>1. acct[i].filled + acct[i].cut = acct[i].qty  BY <1>3, <1>14 DEF Fates, UsedUp
    <2>2. F(i) = {"used_up"}  BY <1>5, <1>8, <1>14, <2>1
    <2> QED BY <1>10, <2>2, FS_Singleton
  <1> QED BY <1>11, <1>12, <1>13, <1>14

LEMMA BookSoundHolds ==
  ASSUME BookInv
  PROVE  BookSound
  <1>1. IndexExact
    <2> SUFFICES ASSUME NEW i \in Id, NEW s \in Side, NEW p \in Price
                 PROVE  Resting(i, s, p) <=> book.index[i] = <<s, p>>
      BY DEF IndexExact
    <2>1. Resting(i, s, p) <=> Kept(book, i, s, p)  BY HasOrders DEF Resting, Kept
    <2> QED BY <2>1, InvFacts DEF Good
  <1>2. PostOnlyNeverTakes  BY InvFacts DEF Control, PostOnlyNeverTakes
  <1> QED BY <1>1, <1>2, OnePlaceHolds, OneFateHolds DEF BookSound

(* In every state, between the steps of a command too, the index of the    *)
(* book is exact, an order is in one place, and a post-only order has not  *)
(* taken; between commands every submitted order has exactly one fate.     *)
THEOREM BookAlwaysSound == Spec => []BookSound
  <1>1. Init => BookInv  BY InitSound
  <1>2. BookInv /\ [Next]_vars => BookInv'  BY StepSound
  <1>3. BookInv => BookSound  BY BookSoundHolds
  <1> QED BY <1>1, <1>2, <1>3, PTL DEF Spec

(* No order trades more than its quantity, whatever fills, decrements and  *)
(* cascades it goes through, and nothing with zero left stays in the book. *)
THEOREM QuantityConserved == Spec => []Conservation
  <1>1. Init => BookInv  BY InitSound
  <1>2. BookInv /\ [Next]_vars => BookInv'  BY StepSound
  <1>3. BookInv => Conservation  BY ConservationHolds
  <1> QED BY <1>1, <1>2, <1>3, PTL DEF Spec

-----------------------------------------------------------------------------
(* No stop is left behind by a command.  While a run has traded, the last  *)
(* fill is at lastTrade; before it trades, no stop triggers at the price   *)
(* of the fill before.                                                     *)

Final(evs, k) == k \in FillsOf(evs) /\ \A j \in FillsOf(evs) : j <= k

NoneTriggers(b, price) ==
  \A s \in Side, p \in Price : b.stops[s][p] # <<>> => ~Triggers(s, p, price)

StopsInv ==
  \A k \in FillsOf(events) : Final(events, k) =>
    IF lastTrade # None THEN events[k].price = lastTrade ELSE NoneTriggers(book, events[k].price)

StopsShrink(b, c) == \A s \in Side, p \in Price : b.stops[s][p] = <<>> => c.stops[s][p] = <<>>

LEMMA ShrinkWithout ==
  ASSUME NEW b \in BookType, NEW c \in BookType, NEW i, BookWithout(b, c, i)
  PROVE  StopsShrink(b, c)
  <1> SUFFICES ASSUME NEW s \in Side, NEW p \in Price, b.stops[s][p] = <<>> PROVE c.stops[s][p] = <<>>
    BY DEF StopsShrink
  <1>1. b.stops[s][p] \in Seq(Order) /\ c.stops[s][p] \in Seq(Order)  BY BookQueues
  <1>2. Orders(b.stops[s][p]) = {}  BY <1>1, SeqFacts
  <1>3. Orders(c.stops[s][p]) = {}  BY <1>2 DEF BookWithout, Others
  <1> QED BY <1>1, <1>3, SeqFacts

LEMMA ShrinkOco ==
  ASSUME NEW b, Good(b), NEW i \in Id
  PROVE  StopsShrink(b, MaybeCancelOco(b, i))
  <1>1. b \in BookType  BY DEF Good
  <1>2. CASE b.oco[i] = None  BY <1>2 DEF MaybeCancelOco, StopsShrink
  <1>3. CASE b.oco[i] # None
    <2>1. PICK j \in Id : j = b.oco[i]  BY <1>1, <1>3, BookParts
    <2>2. PICK u : u = Unlink(b, i)  OBVIOUS
    <2>3. u \in BookType /\ u.level = b.level /\ u.stops = b.stops /\ u.index = b.index
      BY <1>1, <2>2, UnlinkSame
    <2>4. Good(u)  BY <2>3, SameGood
    <2>5. PICK c : c = CancelInternal(u, j)  OBVIOUS
    <2>6. Good(c) /\ BookWithout(u, c, j)  BY <2>4, <2>5, CancelGood
    <2>7. c \in BookType  BY <2>6 DEF Good
    <2>8. StopsShrink(u, c)  BY <2>3, <2>6, <2>7, ShrinkWithout
    <2>9. MaybeCancelOco(b, i) = c  BY <1>3, <2>1, <2>2, <2>5 DEF MaybeCancelOco
    <2> QED BY <2>3, <2>8, <2>9 DEF StopsShrink
  <1> QED BY <1>2, <1>3

(* Events that are no fills leave the last fill where it is. *)
LEMMA FinalKept ==
  ASSUME NEW q \in Seq(Event), NEW g \in Seq(Event), FillsOf(g) = {}, NEW k, Final(q \o g, k)
  PROVE  Final(q, k) /\ (q \o g)[k] = q[k]
  <1>1. PICK m, n, t : m = Len(q) /\ n = Len(g) /\ t = q \o g  OBVIOUS
  <1>2. m \in Nat /\ n \in Nat /\ DOMAIN q = 1..m /\ DOMAIN g = 1..n  BY <1>1
  <1>3. t \in Seq(Event) /\ Len(t) = m + n
        /\ \A j \in 1..(m + n) : t[j] = IF j <= m THEN q[j] ELSE g[j - m]
    BY <1>1, ConcatProperties
  <1>4. DOMAIN t = 1..(m + n)  BY <1>3
  <1>5. k \in 1..(m + n) /\ t[k].kind = "fill"  BY <1>1, <1>4 DEF Final, FillsOf
  <1>6. k <= m
    <2> SUFFICES ASSUME ~(k <= m) PROVE FALSE  OBVIOUS
    <2>1. k - m \in 1..n /\ t[k] = g[k - m]  BY <1>2, <1>3, <1>5
    <2> QED BY <1>2, <1>5, <2>1 DEF FillsOf
  <1>7. k \in 1..m /\ t[k] = q[k]  BY <1>2, <1>3, <1>5, <1>6
  <1>8. ASSUME NEW j \in FillsOf(q) PROVE j <= k
    <2>1. j \in 1..m /\ q[j].kind = "fill"  BY <1>2 DEF FillsOf
    <2>2. j \in 1..(m + n) /\ t[j] = q[j]  BY <1>2, <1>3, <2>1
    <2>3. j \in FillsOf(t)  BY <1>4, <2>1, <2>2 DEF FillsOf
    <2> QED BY <1>1, <2>3 DEF Final
  <1> QED BY <1>1, <1>2, <1>5, <1>7, <1>8 DEF Final, FillsOf

(* A new fill is the last one. *)
LEMMA FinalNew ==
  ASSUME NEW q \in Seq(Event), NEW f \in Event, f.kind = "fill", NEW k, Final(Append(q, f), k)
  PROVE  Append(q, f)[k] = f
  <1>1. PICK m \in Nat : m = Len(q)  OBVIOUS
  <1>2. PICK h : h = Append(q, f)  OBVIOUS
  <1>3. h \in Seq(Event) /\ Len(h) = m + 1 /\ h[m + 1] = f /\ DOMAIN h = 1..(m + 1)
    BY <1>1, <1>2, AppendProperties
  <1>4. m + 1 \in FillsOf(h)  BY <1>1, <1>3 DEF FillsOf
  <1>5. k \in 1..(m + 1) /\ m + 1 <= k  BY <1>2, <1>3, <1>4 DEF Final, FillsOf
  <1>6. k = m + 1  BY <1>1, <1>5
  <1> QED BY <1>2, <1>3, <1>6

LEMMA NoFills ==
  /\ FillsOf(<<>>) = {}
  /\ \A i, why : FillsOf(<<Cancelled(i, why)>>) = {}
  /\ \A i, j, why : FillsOf(<<Cancelled(i, why), Cancelled(j, why)>>) = {}
  /\ \A o : FillsOf(<<Rested(o)>>) = {}
  /\ \A b, i : FillsOf(OcoEvents(b, i)) = {}
  /\ \A b, i, why : FillsOf(CancelEvents(b, i, why)) = {}
  <1>1. FillsOf(<<>>) = {}  BY DEF FillsOf
  <1>2. \A i, why : FillsOf(<<Cancelled(i, why)>>) = {}  BY DEF FillsOf, Cancelled
  <1>3. ASSUME NEW i, NEW j, NEW why PROVE FillsOf(<<Cancelled(i, why), Cancelled(j, why)>>) = {}
    <2>1. PICK q : q = <<Cancelled(i, why), Cancelled(j, why)>>  OBVIOUS
    <2>2. DOMAIN q = {1, 2} /\ q[1] = Cancelled(i, why) /\ q[2] = Cancelled(j, why)  BY <2>1
    <2>3. q[1].kind # "fill" /\ q[2].kind # "fill"  BY <2>2 DEF Cancelled
    <2> QED BY <2>1, <2>2, <2>3 DEF FillsOf
  <1>4. \A o : FillsOf(<<Rested(o)>>) = {}  BY DEF FillsOf, Rested
  <1>5. \A b, i, why : FillsOf(CancelEvents(b, i, why)) = {}  BY <1>1, <1>2 DEF CancelEvents
  <1>6. \A b, i : FillsOf(OcoEvents(b, i)) = {}  BY <1>1, <1>5 DEF OcoEvents
  <1> QED BY <1>1, <1>2, <1>3, <1>4, <1>5, <1>6

LEMMA NoFillsJoin ==
  ASSUME NEW q \in Seq(Event), NEW r \in Seq(Event), FillsOf(q) = {}, FillsOf(r) = {}
  PROVE  FillsOf(q \o r) = {}
  <1>1. PICK m, n, t : m = Len(q) /\ n = Len(r) /\ t = q \o r  OBVIOUS
  <1>2. m \in Nat /\ n \in Nat /\ DOMAIN q = 1..m /\ DOMAIN r = 1..n  BY <1>1
  <1>3. t \in Seq(Event) /\ Len(t) = m + n
        /\ \A j \in 1..(m + n) : t[j] = IF j <= m THEN q[j] ELSE r[j - m]
    BY <1>1, ConcatProperties
  <1>4. DOMAIN t = 1..(m + n)  BY <1>3
  <1>5. ASSUME NEW k \in 1..(m + n) PROVE t[k].kind # "fill"
    <2>1. CASE k <= m
      <3>1. k \in 1..m /\ t[k] = q[k]  BY <1>2, <1>3, <2>1
      <3> QED BY <1>2, <3>1 DEF FillsOf
    <2>2. CASE ~(k <= m)
      <3>1. k - m \in 1..n /\ t[k] = r[k - m]  BY <1>2, <1>3, <2>2
      <3> QED BY <1>2, <3>1 DEF FillsOf
    <2> QED BY <2>1, <2>2
  <1> QED BY <1>1, <1>4, <1>5 DEF FillsOf

(* A step without a fill, with the same lastTrade, that adds no stop. *)
LEMMA QuietStep ==
  ASSUME TypeOK, StopsInv, NEW g \in Seq(Event), FillsOf(g) = {},
         events' = events \o g, lastTrade' = lastTrade, StopsShrink(book, book')
  PROVE  StopsInv'
  <1> SUFFICES ASSUME NEW k \in FillsOf(events'), Final(events', k)
               PROVE  IF lastTrade' # None THEN events'[k].price = lastTrade'
                      ELSE NoneTriggers(book', events'[k].price)
    BY DEF StopsInv
  <1>1. events \in Seq(Event)  BY DEF TypeOK
  <1>2. Final(events, k) /\ events'[k] = events[k]  BY <1>1, FinalKept
  <1>3. k \in FillsOf(events)  BY <1>2 DEF Final
  <1>4. CASE lastTrade # None  BY <1>2, <1>3, <1>4 DEF StopsInv
  <1>5. CASE lastTrade = None
    <2>1. NoneTriggers(book, events[k].price)  BY <1>2, <1>3, <1>5 DEF StopsInv
    <2>2. NoneTriggers(book', events[k].price)  BY <2>1 DEF NoneTriggers, StopsShrink
    <2> QED BY <1>2, <1>5, <2>2
  <1> QED BY <1>4, <1>5

LEMMA NoFillInv ==
  ASSUME FillsOf(events') = {}
  PROVE  StopsInv'
  BY DEF StopsInv

LEMMA StopsSame ==
  ASSUME NEW b, NEW c, c.stops = b.stops
  PROVE  StopsShrink(b, c)
  BY DEF StopsShrink

LEMMA PlaceSettled ==
  ASSUME TypeOK, NEW o \in Inputs, Place(o)
  PROVE  StopsInv'
  <1>1. events' = <<Cancelled(o.id, RejectReason(o))>> \/ events' = <<Rested(o)>> \/ events' = <<>>
    BY DEF Place, PlaceRejected, PlaceStop, PlaceActive, Output
  <1> QED BY <1>1, NoFills, NoFillInv

LEMMA CancelSettled ==
  ASSUME TypeOK, NEW i \in Id, CancelOrder(i)
  PROVE  StopsInv'
  <1>1. PICK l : l = book.oco[i]  OBVIOUS
  <1>2. l \in Id \cup {None}  BY <1>1, BookParts DEF TypeOK
  <1>3. PICK b, c : b = Unlink(book, i) /\ c = CancelInternal(b, i)  OBVIOUS
  <1>4. PICK q, r : q = CancelEvents(b, i, "admin_cancel")
                    /\ r = IF l = None THEN <<>> ELSE CancelEvents(c, l, "oco")
    OBVIOUS
  <1>5. events' = q \o r  BY <1>1, <1>3, <1>4 DEF CancelOrder, Output
  <1>6. q \in Seq(Event) /\ FillsOf(q) = {}  BY <1>4, CancelEventsType, NoFills DEF Reason
  <1>7. r \in Seq(Event) /\ FillsOf(r) = {}
    <2>1. CASE l = None  BY <1>4, <2>1, NoFills
    <2>2. CASE l # None
      <3>1. l \in Id /\ r = CancelEvents(c, l, "oco")  BY <1>2, <1>4, <2>2
      <3> QED BY <3>1, CancelEventsType, NoFills DEF Reason
    <2> QED BY <2>1, <2>2
  <1> QED BY <1>5, <1>6, <1>7, NoFillsJoin, NoFillInv

(* A fill is the last one, at the price of the trade. *)
LEMMA TradeSettled ==
  ASSUME TypeOK, NEW p \in Price, NEW f \in Event, f.kind = "fill", f.price = p,
         NEW g \in Seq(Event), FillsOf(g) = {},
         events' = events \o (<<f>> \o g), lastTrade' = p
  PROVE  StopsInv'
  <1> SUFFICES ASSUME NEW k \in FillsOf(events'), Final(events', k)
               PROVE  IF lastTrade' # None THEN events'[k].price = lastTrade'
                      ELSE NoneTriggers(book', events'[k].price)
    BY DEF StopsInv
  <1>1. events \in Seq(Event)  BY DEF TypeOK
  <1>2. events'[k] = f
    <2>1. PICK w, h : w = <<f>> /\ h = Append(events, f)  OBVIOUS
    <2>2. w \in Seq(Event)  BY <2>1
    <2>3. h \in Seq(Event) /\ h = events \o w  BY <1>1, <2>1, AppendProperties
    <2>4. events' = h \o g  BY <1>1, <2>1, <2>2, <2>3, ConcatAssociative
    <2>5. Final(h \o g, k)  BY <2>4
    <2>6. Final(h, k) /\ (h \o g)[k] = h[k]  BY <2>3, <2>5, FinalKept
    <2>7. h[k] = f  BY <1>1, <2>1, <2>6, FinalNew
    <2> QED BY <2>4, <2>6, <2>7
  <1>3. p # None  BY ConstantsAssumption
  <1> QED BY <1>2, <1>3

LEMMA FillSettled ==
  ASSUME TypeOK, NEW p \in Price, Fill(p)
  PROVE  StopsInv'
  <1>1. Matching(p) /\ lastTrade' = p  BY DEF Fill, FillMaker, FillPart, Trade
  <1>2. PICK q : q = MinOf(taker.remaining, Effective(Maker(p)))  OBVIOUS
  <1>3. /\ taker.id \in Id /\ Maker(p).id \in Id /\ q \in Nat /\ book \in BookType
        /\ Opposite(taker.side) \in Side /\ book.level[Opposite(taker.side)][p] # <<>>
    BY <1>1, <1>2, MatchingFacts DEF MinOf
  <1>4. PICK f : f = Filled(taker.id, Maker(p).id, p, q)  OBVIOUS
  <1>5. f \in Event /\ f.kind = "fill" /\ f.price = p
    <2>1. f \in Event  BY <1>3, <1>4, FilledEvent
    <2> QED BY <1>4, <2>1 DEF Filled
  <1>6. CASE FillMaker(p)
    <2>1. PICK b, g : b = PopFrontMaker(book, Opposite(taker.side), p) /\ g = OcoEvents(b, Maker(p).id)
      OBVIOUS
    <2>2. events' = events \o (<<f>> \o g)  BY <1>2, <1>4, <1>6, <2>1 DEF FillMaker, Emit
    <2>3. b \in BookType  BY <1>3, <2>1, PopFrontType
    <2>4. g \in Seq(Event) /\ FillsOf(g) = {}  BY <1>3, <2>1, <2>3, OcoEventsType, NoFills
    <2> QED BY <1>1, <1>5, <2>2, <2>4, TradeSettled
  <1>7. CASE FillPart(p)
    <2>1. events' = events \o <<f>>  BY <1>2, <1>4, <1>7 DEF FillPart, Emit
    <2>2. <<f>> \in Seq(Event)  BY <1>5
    <2>3. <<f>> = <<f>> \o <<>>  BY <2>2, ConcatEmptySeq
    <2>4. events' = events \o (<<f>> \o <<>>)  BY <2>1, <2>3
    <2>5. <<>> \in Seq(Event) /\ FillsOf(<<>>) = {}  BY NoFills
    <2> QED BY <1>1, <1>5, <2>4, <2>5, TradeSettled
  <1> QED BY <1>6, <1>7 DEF Fill

LEMMA StpSettled ==
  ASSUME BookInv, StopsInv, NEW p \in Price, ApplyStp(p)
  PROVE  StopsInv'
  <1>1. Matching(p) /\ lastTrade' = lastTrade
    BY DEF ApplyStp, StpCancelTaker, StpCancelMaker, StpCutMaker, StpCutTaker, StpCutBoth, SelfMatch
  <1>2. PICK s \in Side, m \in Order, i \in Id, j \in Id :
          s = Opposite(taker.side) /\ m = Maker(p) /\ i = taker.id /\ j = m.id
    BY <1>1, MatchingSound
  <1>3. book.level[s][p] # <<>> /\ m = Head(book.level[s][p])  BY <1>1, <1>2, MatchingSound
  <1>4. StopsShrink(book, PopFrontMaker(book, s, p))
    <2>1. PICK c : c = PopFrontMaker(book, s, p)  OBVIOUS
    <2>2. Good(c) /\ BookWithout(book, c, j)  BY <1>2, <1>3, <2>1, InvFacts, PopGood
    <2>3. c \in BookType  BY <2>2 DEF Good
    <2> QED BY <2>1, <2>2, <2>3, InvFacts, ShrinkWithout
  <1>5. /\ <<Cancelled(i, "stp")>> \in Seq(Event) /\ <<Cancelled(j, "stp")>> \in Seq(Event)
        /\ <<Cancelled(j, "stp"), Cancelled(i, "stp")>> \in Seq(Event)
    <2>1. Cancelled(i, "stp") \in Event /\ Cancelled(j, "stp") \in Event  BY CancelledEvent DEF Reason
    <2> QED BY <2>1
  <1>6. /\ FillsOf(<<Cancelled(i, "stp")>>) = {} /\ FillsOf(<<Cancelled(j, "stp")>>) = {}
        /\ FillsOf(<<Cancelled(j, "stp"), Cancelled(i, "stp")>>) = {}
    BY NoFills
  <1>7. CASE StpCancelTaker(p)
    <2>1. events' = events \o <<Cancelled(i, "stp")>> /\ book' = book
      BY <1>2, <1>7 DEF StpCancelTaker, Emit
    <2> QED BY <1>1, <1>5, <1>6, <2>1, InvFacts, StopsSame, QuietStep
  <1>8. CASE StpCutMaker(p)
    <2>1. PICK u : u = [m EXCEPT !.remaining = @ - taker.remaining]  OBVIOUS
    <2>2. events' = events \o <<Cancelled(i, "stp")>> /\ book' = ReplaceFront(book, s, p, u)
      BY <1>2, <1>8, <2>1 DEF StpCutMaker, Emit
    <2>3. book'.stops = book.stops
      BY <2>2, InvFacts, BookParts DEF ReplaceFront, SetLevel, BookType
    <2> QED BY <1>1, <1>5, <1>6, <2>2, <2>3, InvFacts, StopsSame, QuietStep
  <1>9. CASE StpCancelMaker(p) \/ StpCutTaker(p)
    <2>1. events' = events \o <<Cancelled(j, "stp")>> /\ book' = PopFrontMaker(book, s, p)
      BY <1>2, <1>9 DEF StpCancelMaker, StpCutTaker, Emit
    <2> QED BY <1>1, <1>4, <1>5, <1>6, <2>1, InvFacts, QuietStep
  <1>10. CASE StpCutBoth(p)
    <2>1. /\ events' = events \o <<Cancelled(j, "stp"), Cancelled(i, "stp")>>
          /\ book' = PopFrontMaker(book, s, p)
      BY <1>2, <1>10 DEF StpCutBoth, Emit
    <2> QED BY <1>1, <1>4, <1>5, <1>6, <2>1, InvFacts, QuietStep
  <1> QED BY <1>7, <1>8, <1>9, <1>10 DEF ApplyStp

LEMMA FinalizeSettled ==
  ASSUME BookInv, StopsInv, Finalize
  PROVE  StopsInv'
  <1>1. phase = "match" /\ lastTrade' = lastTrade
    BY DEF Finalize, FinalizeRested, FinalizeEnded, LoopDone
  <1>2. PICK o \in Order : o = taker  BY <1>1, InvFacts
  <1>3. PICK i \in Id : i = o.id  BY DEF Order
  <1>4. CASE FinalizeRested
    <2>1. events' = events \o <<Rested(o)>> /\ book' = InsertMaker(book, o)
      BY <1>2, <1>4 DEF FinalizeRested, Emit
    <2>2. book'.stops = book.stops
      BY <2>1, InvFacts, BookParts DEF InsertMaker, SetLevel, SetIndex, BookType
    <2>3. Rested(o) \in Event  BY RestedEvent
    <2>4. <<Rested(o)>> \in Seq(Event) /\ FillsOf(<<Rested(o)>>) = {}  BY <2>3, NoFills
    <2> QED BY <1>1, <2>1, <2>2, <2>4, InvFacts, StopsSame, QuietStep
  <1>5. CASE FinalizeEnded
    <2>1. PICK e, g : /\ e = IF o.remaining = 0 THEN <<>> ELSE <<Cancelled(i, FinalReason(o))>>
                      /\ g = OcoEvents(book, i)
      OBVIOUS
    <2>2. events' = events \o (e \o g) /\ book' = MaybeCancelOco(book, i)
      BY <1>2, <1>3, <1>5, <2>1 DEF FinalizeEnded, Emit
    <2>3. e \in Seq(Event) /\ FillsOf(e) = {}
      <3>1. FinalReason(o) \in Reason  BY DEF FinalReason, Reason
      <3>2. Cancelled(i, FinalReason(o)) \in Event  BY <3>1, CancelledEvent
      <3>3. <<Cancelled(i, FinalReason(o))>> \in Seq(Event)  BY <3>2
      <3>4. <<>> \in Seq(Event)  OBVIOUS
      <3>5. e = <<>> \/ e = <<Cancelled(i, FinalReason(o))>>  BY <2>1
      <3> QED BY <3>3, <3>4, <3>5, NoFills
    <2>4. g \in Seq(Event) /\ FillsOf(g) = {}  BY <2>1, InvFacts, OcoEventsType, NoFills
    <2>5. PICK h : h = e \o g  OBVIOUS
    <2>6. h \in Seq(Event) /\ FillsOf(h) = {}
      BY <2>3, <2>4, <2>5, ConcatProperties, NoFillsJoin
    <2>7. StopsShrink(book, book')  BY <2>2, InvFacts, ShrinkOco
    <2> QED BY <1>1, <2>2, <2>5, <2>6, <2>7, InvFacts, QuietStep
  <1> QED BY <1>4, <1>5 DEF Finalize

LEMMA DrainSettled ==
  ASSUME BookInv, StopsInv, NEW s \in Side, NEW p \in Price, DrainStops(s, p)
  PROVE  StopsInv'
  <1>1. PICK c : c = SetStops(book, s, p, <<>>)  OBVIOUS
  <1>2. book' = c /\ events' = events /\ lastTrade' = lastTrade  BY <1>1 DEF DrainStops
  <1>3. <<>> \in Seq(Order)  OBVIOUS
  <1>4. /\ c.stops[s][p] = <<>>
        /\ \A r \in Side, u \in Price : r # s \/ u # p => c.stops[r][u] = book.stops[r][u]
    <2>1. PICK b \in BookType, q \in Seq(Order) : b = book /\ q = <<>>  BY <1>3, InvFacts
    <2>2. c = SetStops(b, s, p, q)  BY <1>1, <2>1
    <2>3. /\ c.stops[s][p] = q
          /\ \A r \in Side, u \in Price : r # s \/ u # p => c.stops[r][u] = b.stops[r][u]
      BY <2>2, SetStopsAt
    <2> QED BY <2>1, <2>3
  <1>5. StopsShrink(book, c)  BY <1>4 DEF StopsShrink
  <1>6. events = events \o <<>>
    <2>1. events \in Seq(Event)  BY InvFacts DEF TypeOK
    <2> QED BY <2>1, ConcatEmptySeq
  <1>7. <<>> \in Seq(Event) /\ FillsOf(<<>>) = {}  BY NoFills
  <1> QED BY <1>2, <1>5, <1>6, <1>7, InvFacts, QuietStep

(* The run is over only when no stop triggers at its last price. *)
LEMMA RunEndSettled ==
  ASSUME BookInv, StopsInv, NextInQueue \/ CommandDone
  PROVE  StopsInv'
  <1> SUFFICES ASSUME NEW k \in FillsOf(events'), Final(events', k)
               PROVE  IF lastTrade' # None THEN events'[k].price = lastTrade'
                      ELSE NoneTriggers(book', events'[k].price)
    BY DEF StopsInv
  <1>1. RunDone /\ AccountTriggered /\ lastTrade' = None /\ book' = book
    BY DEF NextInQueue, CommandDone
  <1>2. TypeOK /\ events \in Seq(Event) /\ triggered \in Seq(Order)  BY InvFacts DEF TypeOK
  <1>3. PICK g \in Seq(Event) : FillsOf(g) = {} /\ events' = events \o g
    <2>1. CASE Cascade
      <3>1. PICK g : g = [j \in 1..Len(triggered) |-> StopTriggered(triggered[j].id)]  OBVIOUS
      <3>2. events' = events \o g  BY <1>1, <2>1, <3>1 DEF AccountTriggered
      <3>3. PICK n \in Nat : n = Len(triggered) /\ \A j \in 1..n : triggered[j] \in Order  BY <1>2
      <3>4. \A j \in 1..n : StopTriggered(triggered[j].id) \in Event
        BY <3>3, TriggeredEvent DEF Order
      <3>5. g \in [1..n -> Event]  BY <3>1, <3>3, <3>4
      <3>6. g \in Seq(Event) /\ DOMAIN g = 1..n  BY <3>5
      <3>7. \A j \in 1..n : g[j].kind # "fill"  BY <3>1, <3>3 DEF StopTriggered
      <3>8. FillsOf(g) = {}  BY <3>6, <3>7 DEF FillsOf
      <3> QED BY <3>2, <3>6, <3>8
    <2>2. CASE ~Cascade
      <3>1. events' = events  BY <1>1, <2>2 DEF AccountTriggered
      <3>2. events = events \o <<>>  BY <1>2, ConcatEmptySeq
      <3>3. <<>> \in Seq(Event)  OBVIOUS
      <3> QED BY <3>1, <3>2, <3>3, NoFills
    <2> QED BY <2>1, <2>2
  <1>4. Final(events, k) /\ events'[k] = events[k]  BY <1>2, <1>3, FinalKept
  <1>5. k \in FillsOf(events)  BY <1>4 DEF Final
  <1>6. NoneTriggers(book, events[k].price)
    <2>1. CASE lastTrade = None  BY <1>4, <1>5, <2>1 DEF StopsInv
    <2>2. CASE lastTrade # None
      <3>1. events[k].price = lastTrade  BY <1>4, <1>5, <2>2 DEF StopsInv
      <3>2. \A s \in Side : TriggerKeys(s) = {}  BY <1>1 DEF RunDone
      <3>3. \A s \in Side, p \in Price : book.stops[s][p] # <<>> => ~Triggers(s, p, lastTrade)
        BY <2>2, <3>2 DEF TriggerKeys
      <3> QED BY <3>1, <3>3 DEF NoneTriggers
    <2> QED BY <2>1, <2>2
  <1> QED BY <1>1, <1>4, <1>6

LEMMA StepSettled ==
  ASSUME BookInv, StopsInv, [Next]_vars
  PROVE  StopsInv'
  <1>1. TypeOK  BY InvFacts
  <1>2. ASSUME NEW o \in Inputs, Place(o) PROVE StopsInv'  BY <1>1, <1>2, PlaceSettled
  <1>3. ASSUME NEW i \in Id, CancelOrder(i) PROVE StopsInv'  BY <1>1, <1>3, CancelSettled
  <1>4. ASSUME NEW p \in Price, Fill(p) \/ ApplyStp(p) PROVE StopsInv'
    BY <1>1, <1>4, FillSettled, StpSettled
  <1>5. CASE Finalize  BY <1>5, FinalizeSettled
  <1>6. ASSUME NEW s \in Side, NEW p \in Price, DrainStops(s, p) PROVE StopsInv'
    BY <1>6, DrainSettled
  <1>7. CASE NextInQueue \/ CommandDone  BY <1>7, RunEndSettled
  <1>8. CASE UNCHANGED vars
    BY <1>8 DEF vars, StopsInv, FillsOf, Final, NoneTriggers, Triggers
  <1> QED BY <1>2, <1>3, <1>4, <1>5, <1>6, <1>7, <1>8 DEF Next, Step

(* When a command is over, however long its cascade was, no stop is left   *)
(* in the registry that the price of its last trade triggers.              *)
THEOREM StopsAlwaysSettled == Spec => []StopsSettled
  <1>1. Init => BookInv /\ StopsInv
    <2>1. Init => FillsOf(events) = {}  BY NoFills DEF Init
    <2> QED BY <2>1, InitSound DEF StopsInv
  <1>2. BookInv /\ StopsInv /\ [Next]_vars => BookInv' /\ StopsInv'  BY StepSound, StepSettled
  <1>3. BookInv /\ StopsInv => StopsSettled
    <2>1. BookInv /\ phase = "idle" => lastTrade = None  BY InvFacts DEF Control
    <2> QED BY <2>1 DEF StopsInv, StopsSettled, NoneTriggers, Final
  <1> QED BY <1>1, <1>2, <1>3, PTL DEF Spec

-----------------------------------------------------------------------------
(* The server. *)

Commands == {PlaceCmd(o) : o \in Inputs} \cup {CancelCmd(i) : i \in Id}

(* What every book, whatever crashed before, satisfies. *)
BookOK == TypeOK /\ CrossFree(book.level) /\ BookInv /\ StopsInv

FilesOK == wal \in Seq(Commands) /\ cursor \in Nat

LEMMA InitBook == Init => BookOK
  <1>1. Init => FillsOf(events) = {}  BY NoFills DEF Init
  <1> QED BY <1>1, InitOK, InitSound DEF BookOK, StopsInv

LEMMA InitBookNext == Init' => BookOK'
  <1>1. Init => BookOK  BY InitBook
  <1> QED BY <1>1, PTL

LEMMA StepBook ==
  ASSUME BookOK, [Next]_vars
  PROVE  BookOK'
  <1>1. TypeOK' /\ CrossFree(book'.level)  BY NextOK DEF BookOK
  <1>2. BookInv'  BY StepSound DEF BookOK
  <1>3. StopsInv'  BY StepSettled DEF BookOK
  <1> QED BY <1>1, <1>2, <1>3 DEF BookOK

LEMMA CommandFacts ==
  ASSUME NEW c \in Commands
  PROVE  /\ c.kind = "place" => c.order \in Inputs
         /\ c.kind = "cancel" => c.id \in Id
  BY DEF Commands, PlaceCmd, CancelCmd

LEMMA WalGrows ==
  ASSUME FilesOK, NEW c \in Commands, wal' = Append(wal, c), cursor' = cursor
  PROVE  FilesOK'
  <1>1. Append(wal, c) \in Seq(Commands)  BY DEF FilesOK
  <1> QED BY <1>1 DEF FilesOK

LEMMA NextRecord ==
  ASSUME FilesOK, cursor < Len(wal)
  PROVE  wal[cursor + 1] \in Commands
  BY DEF FilesOK

(* What a step of the server does to the book and to the command WAL. *)
LEMMA EngineStepBook ==
  ASSUME FilesOK, [EngineNext]_allVars
  PROVE  ([Next]_vars \/ Init') /\ FilesOK'
  <1>1. ASSUME NEW o \in Inputs, PlaceOrder(o) PROVE [Next]_vars /\ FilesOK'
    <2>1. PlaceCmd(o) \in Commands  BY DEF Commands
    <2>2. Place(o) /\ wal' = Append(wal, PlaceCmd(o)) /\ cursor' = cursor  BY <1>1 DEF PlaceOrder
    <2> QED BY <2>1, <2>2, WalGrows DEF Next
  <1>2. ASSUME NEW i \in Id, CancelRequest(i) PROVE [Next]_vars /\ FilesOK'
    <2>1. CancelCmd(i) \in Commands  BY DEF Commands
    <2>2. CancelOrder(i) /\ wal' = Append(wal, CancelCmd(i)) /\ cursor' = cursor
      BY <1>2 DEF CancelRequest, CancelKnownOrder
    <2> QED BY <2>1, <2>2, WalGrows DEF Next
  <1>3. ASSUME NEW i \in Id, CancelAllNext(i) PROVE [Next]_vars /\ FilesOK'
    <2>1. cursor' = cursor  BY <1>3 DEF CancelAllNext
    <2>2. CASE open[i] = None
      <3>1. UNCHANGED <<vars, wal>>  BY <1>3, <2>2 DEF CancelAllNext
      <3> QED BY <2>1, <3>1 DEF FilesOK
    <2>3. CASE open[i] # None
      <3>1. CancelOrder(i) /\ wal' = Append(wal, CancelCmd(i))
        BY <1>3, <2>3 DEF CancelAllNext, CancelKnownOrder
      <3>2. CancelCmd(i) \in Commands  BY DEF Commands
      <3> QED BY <2>1, <3>1, <3>2, WalGrows DEF Next
    <2> QED BY <2>2, <2>3
  <1>4. CASE Match
    <2>1. Step /\ UNCHANGED evars  BY <1>4 DEF Match
    <2> QED BY <2>1 DEF Next, FilesOK, evars
  <1>5. CASE \/ \E u \in Users : CancelAll(u)
             \/ \E h \in BOOLEAN : SetMarket(h)
             \/ ReadOnly \/ PlaceReject \/ PlaceAccept \/ CancelAllEnd \/ LogEvent \/ Respond
             \/ Start \/ ReplayApply \/ ReplayEnd \/ UNCHANGED allVars
    <2>1. UNCHANGED <<vars, wal, cursor>>
      BY <1>5 DEF CancelAll, SetMarket, ReadOnly, PlaceReject, PlaceAccept, CancelAllEnd, LogEvent,
                  Respond, Start, ReplayApply, ReplayEnd, allVars, evars
    <2> QED BY <2>1 DEF FilesOK
  <1>6. CASE ReplayPlace
    <2>1. cursor < Len(wal) /\ cursor' = cursor + 1 /\ wal' = wal  BY <1>6 DEF ReplayPlace
    <2>2. PICK c \in Commands : c = wal[cursor + 1]  BY <2>1, NextRecord
    <2>3. c.kind = "place" /\ Place(c.order)  BY <1>6, <2>2 DEF ReplayPlace
    <2>4. c.order \in Inputs  BY <2>3, CommandFacts
    <2> QED BY <2>1, <2>3, <2>4 DEF Next, FilesOK
  <1>7. CASE ReplayCancel
    <2>1. cursor < Len(wal) /\ cursor' = cursor + 1 /\ wal' = wal  BY <1>7 DEF ReplayCancel
    <2>2. PICK c \in Commands : c = wal[cursor + 1]  BY <2>1, NextRecord
    <2>3. c.kind = "cancel" /\ (UNCHANGED vars \/ CancelOrder(c.id))
      BY <1>7, <2>2 DEF ReplayCancel
    <2>4. c.id \in Id  BY <2>3, CommandFacts
    <2> QED BY <2>1, <2>3, <2>4 DEF Next, FilesOK
  <1>8. CASE Crash
    <2>1. Init'  BY <1>8 DEF Crash, ForgetBook, Init
    <2>2. wal' = wal /\ cursor' = 0  BY <1>8 DEF Crash
    <2> QED BY <2>1, <2>2 DEF FilesOK
  <1> QED BY <1>1, <1>2, <1>3, <1>4, <1>5, <1>6, <1>7, <1>8
             DEF EngineNext, Request, Handle, Recover

LEMMA EngineBookInit ==
  ASSUME EngineInit
  PROVE  BookOK /\ FilesOK
  <1>1. Init /\ wal = <<>> /\ cursor = 0  BY DEF EngineInit
  <1>2. <<>> \in Seq(Commands)  OBVIOUS
  <1> QED BY <1>1, <1>2, InitBook DEF FilesOK

LEMMA EngineBookStep ==
  ASSUME BookOK, FilesOK, [EngineNext]_allVars
  PROVE  BookOK' /\ FilesOK'
  BY EngineStepBook, StepBook, InitBookNext

(* Through requests, crashes at any step and the replays after them the    *)
(* book is sound: index, places and fates of the orders agree.             *)
THEOREM ServerBookSound == EngineSpec => []BookSound
  <1>1. EngineInit => BookOK /\ FilesOK  BY EngineBookInit
  <1>2. BookOK /\ FilesOK /\ [EngineNext]_allVars => BookOK' /\ FilesOK'  BY EngineBookStep
  <1>3. BookOK => BookSound  BY BookSoundHolds DEF BookOK
  <1> QED BY <1>1, <1>2, <1>3, PTL DEF EngineSpec

(* No order of the server's book trades more than its quantity, and no     *)
(* replay trades it once more.                                             *)
THEOREM ServerConserves == EngineSpec => []Conservation
  <1>1. EngineInit => BookOK /\ FilesOK  BY EngineBookInit
  <1>2. BookOK /\ FilesOK /\ [EngineNext]_allVars => BookOK' /\ FilesOK'  BY EngineBookStep
  <1>3. BookOK => Conservation  BY ConservationHolds DEF BookOK
  <1> QED BY <1>1, <1>2, <1>3, PTL DEF EngineSpec

(* The server's book is never crossed, in a request or in a replay.        *)
THEOREM ServerNeverCrossed == EngineSpec => []NotCrossed
  <1>1. EngineInit => BookOK /\ FilesOK  BY EngineBookInit
  <1>2. BookOK /\ FilesOK /\ [EngineNext]_allVars => BookOK' /\ FilesOK'  BY EngineBookStep
  <1>3. BookOK => NotCrossed  BY DEF BookOK, CrossFree, NotCrossed, Occupied
  <1> QED BY <1>1, <1>2, <1>3, PTL DEF EngineSpec

-----------------------------------------------------------------------------
(* Acknowledgements. *)

(* The events of the command say that order i rested. *)
Announced(i) == \E k \in DOMAIN events : events[k].kind = "rested" /\ events[k].id = i

Terminal == {"filled", "canceled"}

(* The order being placed, once it rests, is announced; an acknowledgement *)
(* on its way, or given, is true of the book; nobody waits for one while   *)
(* the server recovers or handles the next command.                        *)
AckInv ==
  /\ cmd # None /\ cmd.kind = "place" /\ cmd.order.id \in Live(book) => Announced(cmd.order.id)
  /\ cmd # None /\ cmd.kind = "place" => cmd.order \in Inputs
  /\ cmd # None /\ cmd.kind = "ack" /\ cmd.id # None /\ cmd.status \in Terminal
       => cmd.id \notin Live(book)
  /\ cmd # None /\ cmd.kind # "place" => phase = "idle"
  /\ cmd # None \/ mode # "up" => reply = None
  /\ TerminalAckIsFinal

(* A book whose orders were all in the book before. *)
NoNewcomer(b, c) == \A i \in Id : InBook(c, i) => InBook(b, i)

LEMMA LiveInBook ==
  ASSUME NEW b, Good(b)
  PROVE  \A i \in Id : i \in Live(b) <=> InBook(b, i)
  BY CancelNames DEF Live

LEMMA NoNewWithout ==
  ASSUME NEW b, NEW c, NEW i, BookWithout(b, c, i)
  PROVE  NoNewcomer(b, c)
  BY DEF BookWithout, NoNewcomer, InBook, Kept, Parked, Others

LEMMA NoNewReplaced ==
  ASSUME NEW b, NEW c, NEW s \in Side, NEW p \in Price, NEW o, NEW m,
         m \in Orders(b.level[s][p]), o.id = m.id,
         LevelSet(b, c, s, p, Others(Orders(b.level[s][p]), o.id) \cup {o})
  PROVE  NoNewcomer(b, c)
  <1> SUFFICES ASSUME NEW i \in Id, InBook(c, i) PROVE InBook(b, i)  BY DEF NoNewcomer
  <1>1. PICK r \in Side, v \in Price : Kept(c, i, r, v) \/ Parked(c, i, r, v)  BY DEF InBook
  <1>2. CASE Parked(c, i, r, v)  BY <1>2 DEF LevelSet, Parked, InBook
  <1>3. CASE Kept(c, i, r, v) /\ (r # s \/ v # p)
    <2>1. c.level[r][v] = b.level[r][v]  BY <1>3 DEF LevelSet
    <2> QED BY <1>3, <2>1 DEF Kept, InBook
  <1>4. CASE Kept(c, i, r, v) /\ r = s /\ v = p
    <2>1. PICK u \in Orders(c.level[s][p]) : u.id = i  BY <1>4 DEF Kept
    <2>2. u \in Orders(b.level[s][p]) \/ u = o  BY <2>1 DEF LevelSet, Others
    <2>3. \E w \in Orders(b.level[s][p]) : w.id = i  BY <2>1, <2>2
    <2> QED BY <2>3 DEF Kept, InBook
  <1> QED BY <1>1, <1>2, <1>3, <1>4

LEMMA NoNewOco ==
  ASSUME NEW b, Good(b), NEW i \in Id
  PROVE  NoNewcomer(b, MaybeCancelOco(b, i))
  <1>1. b \in BookType  BY DEF Good
  <1>2. CASE b.oco[i] = None  BY <1>2 DEF MaybeCancelOco, NoNewcomer
  <1>3. CASE b.oco[i] # None
    <2>1. PICK j \in Id : j = b.oco[i]  BY <1>1, <1>3, BookParts
    <2>2. PICK u : u = Unlink(b, i)  OBVIOUS
    <2>3. u \in BookType /\ u.level = b.level /\ u.stops = b.stops /\ u.index = b.index
      BY <1>1, <2>2, UnlinkSame
    <2>4. Good(u)  BY <2>3, SameGood
    <2>5. PICK c : c = CancelInternal(u, j)  OBVIOUS
    <2>6. BookWithout(u, c, j)  BY <2>4, <2>5, CancelGood
    <2>7. NoNewcomer(u, c)  BY <2>6, NoNewWithout
    <2>8. MaybeCancelOco(b, i) = c  BY <1>3, <2>1, <2>2, <2>5 DEF MaybeCancelOco
    <2> QED BY <2>3, <2>7, <2>8 DEF NoNewcomer, InBook, Kept, Parked
  <1> QED BY <1>2, <1>3

LEMMA NoNewPop ==
  ASSUME NEW b, Good(b), NEW s \in Side, NEW p \in Price, b.level[s][p] # <<>>
  PROVE  NoNewcomer(b, PopFrontMaker(b, s, p))
  <1>1. PICK c : c = PopFrontMaker(b, s, p)  OBVIOUS
  <1>2. PICK i : i = Head(b.level[s][p]).id  OBVIOUS
  <1>3. BookWithout(b, c, i)  BY <1>1, <1>2, PopGood
  <1> QED BY <1>1, <1>3, NoNewWithout

(* A fill brings no order into the book. *)
LEMMA FillNoNew ==
  ASSUME BookInv, NEW p \in Price, Fill(p)
  PROVE  NoNewcomer(book, book')
  <1>1. Matching(p)  BY DEF Fill, FillMaker, FillPart
  <1>2. PICK s \in Side, m \in Order, i \in Id :
          s = Opposite(taker.side) /\ m = Maker(p) /\ i = m.id
    BY <1>1, MatchingSound
  <1>3. book.level[s][p] # <<>> /\ m = Head(book.level[s][p]) /\ m \in Orders(book.level[s][p])
    BY <1>1, <1>2, MatchingSound
  <1>4. CASE FillMaker(p)
    <2>1. PICK b : b = PopFrontMaker(book, s, p)  OBVIOUS
    <2>2. book' = MaybeCancelOco(b, i)  BY <1>2, <1>4, <2>1 DEF FillMaker
    <2>3. Good(b)  BY <1>3, <2>1, InvFacts, PopGood
    <2>4. NoNewcomer(book, b)  BY <1>3, <2>1, InvFacts, NoNewPop
    <2>5. NoNewcomer(b, book')  BY <2>2, <2>3, NoNewOco
    <2> QED BY <2>4, <2>5 DEF NoNewcomer
  <1>5. CASE FillPart(p)
    <2>1. PICK q : q = MinOf(taker.remaining, Effective(m))  OBVIOUS
    <2>2. m.remaining - q \in Nat  BY <1>1, <1>2, <2>1, QtyFacts
    <2>3. PICK left \in Order : left = [m EXCEPT !.remaining = @ - q] /\ left.id = i
      BY <1>2, <2>2, ShrunkOrder
    <2>4. book' = Requeue(book, s, p, left) \/ book' = ReplaceFront(book, s, p, left)
      BY <1>2, <1>5, <2>1, <2>3 DEF FillPart
    <2>5. left.id = Head(book.level[s][p]).id  BY <1>2, <1>3, <2>3
    <2>6. LevelSet(book, book', s, p, Others(Orders(book.level[s][p]), left.id) \cup {left})
      BY <1>3, <2>4, <2>5, InvFacts, ReplaceGood
    <2>7. left.id = m.id  BY <1>2, <2>3
    <2> QED BY <1>3, <2>6, <2>7, NoNewReplaced
  <1> QED BY <1>4, <1>5 DEF Fill

LEMMA StpNoNew ==
  ASSUME BookInv, NEW p \in Price, ApplyStp(p)
  PROVE  NoNewcomer(book, book')
  <1>1. Matching(p)
    BY DEF ApplyStp, StpCancelTaker, StpCancelMaker, StpCutMaker, StpCutTaker, StpCutBoth, SelfMatch
  <1>2. PICK s \in Side, m \in Order : s = Opposite(taker.side) /\ m = Maker(p)
    BY <1>1, MatchingSound
  <1>3. book.level[s][p] # <<>> /\ m = Head(book.level[s][p]) /\ m \in Orders(book.level[s][p])
        /\ taker.remaining \in Nat /\ m.remaining \in Nat
    BY <1>1, <1>2, MatchingSound
  <1>4. CASE StpCancelTaker(p)
    <2>1. book' = book  BY <1>4 DEF StpCancelTaker
    <2> QED BY <2>1 DEF NoNewcomer
  <1>5. CASE StpCutMaker(p)
    <2>1. PICK q \in Nat : q = taker.remaining  BY <1>3
    <2>2. q < m.remaining  BY <1>2, <1>5, <2>1 DEF StpCutMaker
    <2>3. m.remaining - q \in Nat  BY <1>3, <2>2
    <2>4. PICK left \in Order : left = [m EXCEPT !.remaining = @ - q] /\ left.id = m.id
      BY <2>3, ShrunkOrder
    <2>5. book' = ReplaceFront(book, s, p, left)  BY <1>2, <1>5, <2>1, <2>4 DEF StpCutMaker
    <2>6. left.id = Head(book.level[s][p]).id  BY <1>3, <2>4
    <2>7. LevelSet(book, book', s, p, Others(Orders(book.level[s][p]), left.id) \cup {left})
      BY <1>3, <2>5, <2>6, InvFacts, ReplaceGood
    <2> QED BY <1>3, <2>4, <2>7, NoNewReplaced
  <1>6. CASE StpCancelMaker(p) \/ StpCutTaker(p) \/ StpCutBoth(p)
    <2>1. book' = PopFrontMaker(book, s, p)
      BY <1>2, <1>6 DEF StpCancelMaker, StpCutTaker, StpCutBoth
    <2> QED BY <1>3, <2>1, InvFacts, NoNewPop
  <1> QED BY <1>4, <1>5, <1>6 DEF ApplyStp

(* What was announced stays announced while the command runs. *)
LEMMA AnnouncedKept ==
  ASSUME NEW q \in Seq(Event), NEW g \in Seq(Event), events = q, events' = q \o g, NEW i
  PROVE  /\ Announced(i) => Announced(i)'
         /\ (\E k \in DOMAIN g : g[k].kind = "rested" /\ g[k].id = i) => Announced(i)'
  <1>1. PICK m, n, t : m = Len(q) /\ n = Len(g) /\ t = q \o g  OBVIOUS
  <1>2. m \in Nat /\ n \in Nat /\ DOMAIN q = 1..m /\ DOMAIN g = 1..n  BY <1>1
  <1>3. t \in Seq(Event) /\ Len(t) = m + n
        /\ \A j \in 1..(m + n) : t[j] = IF j <= m THEN q[j] ELSE g[j - m]
    BY <1>1, ConcatProperties
  <1>4. DOMAIN t = 1..(m + n)  BY <1>3
  <1>5. ASSUME Announced(i) PROVE Announced(i)'
    <2>1. PICK k \in 1..m : q[k].kind = "rested" /\ q[k].id = i  BY <1>2, <1>5 DEF Announced
    <2>2. k \in 1..(m + n) /\ t[k] = q[k]  BY <1>2, <1>3, <2>1
    <2>3. \E j \in DOMAIN t : t[j].kind = "rested" /\ t[j].id = i  BY <1>4, <2>1, <2>2
    <2> QED BY <1>1, <2>3 DEF Announced
  <1>6. ASSUME NEW k \in 1..n, g[k].kind = "rested", g[k].id = i PROVE Announced(i)'
    <2>1. m + k \in 1..(m + n) /\ ~(m + k <= m) /\ (m + k) - m = k  BY <1>2, <1>6
    <2>2. t[m + k] = g[k]  BY <1>3, <2>1
    <2>3. \E j \in DOMAIN t : t[j].kind = "rested" /\ t[j].id = i  BY <1>4, <1>6, <2>1, <2>2
    <2> QED BY <1>1, <2>3 DEF Announced
  <1> QED BY <1>2, <1>5, <1>6

(* The events of a command only grow while it runs. *)
LEMMA EventsGrow ==
  ASSUME TypeOK, TypeOK', Step
  PROVE  \E g \in Seq(Event) : events' = events \o g
  <1>1. events \in Seq(Event)  BY DEF TypeOK
  <1>2. CASE events' = events
    <2>1. events' = events \o <<>>  BY <1>1, <1>2, ConcatEmptySeq
    <2>2. <<>> \in Seq(Event)  OBVIOUS
    <2> QED BY <2>1, <2>2
  <1>3. ASSUME NEW p \in Price, Fill(p) PROVE \E g \in Seq(Event) : events' = events \o g
    <2>1. Matching(p)  BY <1>3 DEF Fill, FillMaker, FillPart
    <2>2. PICK q : q = MinOf(taker.remaining, Effective(Maker(p)))  OBVIOUS
    <2>3. /\ taker.id \in Id /\ Maker(p).id \in Id /\ q \in Nat /\ book \in BookType
          /\ Opposite(taker.side) \in Side /\ book.level[Opposite(taker.side)][p] # <<>>
      BY <2>1, <2>2, MatchingFacts DEF MinOf
    <2>4. PICK f \in Event : f = Filled(taker.id, Maker(p).id, p, q)  BY <2>3, FilledEvent
    <2>5. <<f>> \in Seq(Event)  OBVIOUS
    <2>6. CASE FillMaker(p)
      <3>1. PICK b, g : b = PopFrontMaker(book, Opposite(taker.side), p) /\ g = OcoEvents(b, Maker(p).id)
        OBVIOUS
      <3>2. events' = events \o (<<f>> \o g)  BY <2>2, <2>4, <2>6, <3>1 DEF FillMaker, Emit
      <3>3. b \in BookType  BY <2>3, <3>1, PopFrontType
      <3>4. g \in Seq(Event)  BY <2>3, <3>1, <3>3, OcoEventsType
      <3>5. PICK h : h = <<f>> \o g  OBVIOUS
      <3>6. h \in Seq(Event)  BY <2>5, <3>4, <3>5, ConcatProperties
      <3> QED BY <3>2, <3>5, <3>6
    <2>7. CASE FillPart(p)
      <3>1. events' = events \o <<f>>  BY <2>2, <2>4, <2>7 DEF FillPart, Emit
      <3> QED BY <2>5, <3>1
    <2> QED BY <1>3, <2>6, <2>7 DEF Fill
  <1>4. ASSUME NEW p \in Price, ApplyStp(p) PROVE \E g \in Seq(Event) : events' = events \o g
    <2>1. Matching(p)
      BY <1>4 DEF ApplyStp, StpCancelTaker, StpCancelMaker, StpCutMaker, StpCutTaker, StpCutBoth, SelfMatch
    <2>2. PICK i \in Id, j \in Id : i = taker.id /\ j = Maker(p).id  BY <2>1, MatchingFacts
    <2>3. Cancelled(i, "stp") \in Event /\ Cancelled(j, "stp") \in Event  BY CancelledEvent DEF Reason
    <2>4. PICK g : /\ events' = events \o g
                   /\ \/ g = <<Cancelled(i, "stp")>> \/ g = <<Cancelled(j, "stp")>>
                      \/ g = <<Cancelled(j, "stp"), Cancelled(i, "stp")>>
      BY <1>4, <2>2 DEF ApplyStp, StpCancelTaker, StpCancelMaker, StpCutMaker, StpCutTaker, StpCutBoth, Emit
    <2>5. g \in Seq(Event)
      <3>1. <<Cancelled(i, "stp")>> \in Seq(Event) /\ <<Cancelled(j, "stp")>> \in Seq(Event)  BY <2>3
      <3>2. <<Cancelled(j, "stp"), Cancelled(i, "stp")>> \in Seq(Event)  BY <2>3
      <3> QED BY <2>4, <3>1, <3>2
    <2> QED BY <2>4, <2>5
  <1>5. CASE FinalizeRested
    <2>1. taker \in Order  BY <1>5 DEF FinalizeRested, LoopDone, TypeOK
    <2>2. Rested(taker) \in Event  BY <2>1, RestedEvent
    <2>3. <<Rested(taker)>> \in Seq(Event)  BY <2>2
    <2> QED BY <1>5, <2>3 DEF FinalizeRested, Emit
  <1>6. CASE FinalizeEnded
    <2>1. PICK o \in Order : o = taker  BY <1>6 DEF FinalizeEnded, LoopDone, TypeOK
    <2>2. PICK i \in Id : i = o.id  BY DEF Order
    <2>3. PICK e, g : /\ e = IF o.remaining = 0 THEN <<>> ELSE <<Cancelled(i, FinalReason(o))>>
                      /\ g = OcoEvents(book, i)
      OBVIOUS
    <2>4. events' = events \o (e \o g)  BY <1>6, <2>1, <2>2, <2>3 DEF FinalizeEnded, Emit
    <2>5. e \in Seq(Event)
      <3>1. FinalReason(o) \in Reason  BY DEF FinalReason, Reason
      <3>2. Cancelled(i, FinalReason(o)) \in Event  BY <3>1, CancelledEvent
      <3> QED BY <2>3, <3>2
    <2>6. g \in Seq(Event)  BY <2>3, OcoEventsType DEF TypeOK
    <2>7. PICK h : h = e \o g  OBVIOUS
    <2>8. h \in Seq(Event)  BY <2>5, <2>6, <2>7, ConcatProperties
    <2> QED BY <2>4, <2>7, <2>8
  <1>7. CASE NextInQueue \/ CommandDone
    <2>1. AccountTriggered  BY <1>7 DEF NextInQueue, CommandDone
    <2>2. CASE Cascade
      <3>1. PICK g : g = [j \in 1..Len(triggered) |-> StopTriggered(triggered[j].id)]  OBVIOUS
      <3>2. events' = events \o g  BY <2>1, <2>2, <3>1 DEF AccountTriggered
      <3>3. triggered \in Seq(Order)  BY DEF TypeOK
      <3>4. PICK n \in Nat : n = Len(triggered) /\ \A j \in 1..n : triggered[j] \in Order  BY <3>3
      <3>5. \A j \in 1..n : StopTriggered(triggered[j].id) \in Event
        BY <3>4, TriggeredEvent DEF Order
      <3>6. g \in [1..n -> Event]  BY <3>1, <3>4, <3>5
      <3> QED BY <3>2, <3>6
    <2>3. CASE ~Cascade  BY <1>2, <2>1, <2>3 DEF AccountTriggered
    <2> QED BY <2>2, <2>3
  <1>8. ASSUME NEW s \in Side, NEW p \in Price, DrainStops(s, p) PROVE events' = events
    BY <1>8 DEF DrainStops
  <1> QED BY <1>2, <1>3, <1>4, <1>5, <1>6, <1>7, <1>8 DEF Step, Finalize

(* An order that is in the book after a step of match_order was there      *)
(* before, or the events announce it.                                      *)
LEMMA StepAnnounces ==
  ASSUME BookInv, BookInv', Step, NEW i \in Id,
         i \in Live(book) => Announced(i), i \in Live(book)'
  PROVE  Announced(i)'
  <1>1. Good(book) /\ Good(book') /\ TypeOK /\ TypeOK' /\ book \in BookType
    BY DEF BookInv, TypeOK
  <1>2. InBook(book', i)
    <2>1. Live(book)' = Live(book')  BY DEF Live, InStops, Has
    <2> QED BY <1>1, <2>1, LiveInBook
  <1>3. PICK g \in Seq(Event) : events' = events \o g  BY <1>1, EventsGrow
  <1>4. PICK q \in Seq(Event) : q = events  BY <1>1 DEF TypeOK
  <1>5. CASE InBook(book, i)
    <2>1. i \in Live(book)  BY <1>1, <1>5, LiveInBook
    <2>2. Announced(i)  BY <2>1
    <2>3. events = q /\ events' = q \o g  BY <1>3, <1>4
    <2> QED BY <2>2, <2>3, AnnouncedKept
  <1>6. CASE NoNewcomer(book, book')  BY <1>2, <1>5, <1>6 DEF NoNewcomer
  <1>7. ASSUME NEW p \in Price, Fill(p) \/ ApplyStp(p) PROVE Announced(i)'
    BY <1>6, <1>7, FillNoNew, StpNoNew
  <1>8. CASE FinalizeRested
    <2>1. phase = "match" /\ MayRest(taker) /\ book' = InsertMaker(book, taker)
          /\ events' = events \o <<Rested(taker)>>
      BY <1>8 DEF FinalizeRested, LoopDone, Emit
    <2>2. taker \in Order  BY <2>1, InvFacts
    <2>3. taker.price # None  BY <2>1, <2>2 DEF MayRest, Order
    <2>4. PICK s \in Side, p \in Price : s = taker.side /\ p = taker.price  BY <2>2, <2>3 DEF Order
    <2>5. ~InBook(book, taker.id)
      <3>1. Unique(Stock(book, work, triggered, phase, taker))  BY InvFacts DEF Sound
      <3> QED BY <2>1, <3>1, InvFacts, BookPart
    <2>6. LevelSet(book, book', s, p, Orders(book.level[s][p]) \cup {taker})
      BY <1>1, <2>1, <2>2, <2>3, <2>4, <2>5, InsertGood
    <2>7. InBook(book, i) \/ i = taker.id
      <3>1. PICK r \in Side, v \in Price : Kept(book', i, r, v) \/ Parked(book', i, r, v)
        BY <1>2 DEF InBook
      <3>2. CASE Parked(book', i, r, v)  BY <2>6, <3>2 DEF LevelSet, Parked, InBook
      <3>3. CASE Kept(book', i, r, v) /\ (r # s \/ v # p)
        <4>1. book'.level[r][v] = book.level[r][v]  BY <2>6, <3>3 DEF LevelSet
        <4> QED BY <3>3, <4>1 DEF Kept, InBook
      <3>4. CASE Kept(book', i, r, v) /\ r = s /\ v = p
        <4>1. PICK u \in Orders(book'.level[s][p]) : u.id = i  BY <3>4 DEF Kept
        <4>2. u \in Orders(book.level[s][p]) \/ u = taker  BY <2>6, <4>1 DEF LevelSet
        <4> QED BY <4>1, <4>2 DEF Kept, InBook
      <3> QED BY <3>1, <3>2, <3>3, <3>4
    <2>8. CASE i = taker.id
      <3>1. PICK h : h = <<Rested(taker)>>  OBVIOUS
      <3>2. h \in Seq(Event)
        <4>1. Rested(taker) \in Event  BY <2>2, RestedEvent
        <4> QED BY <3>1, <4>1
      <3>3. 1 \in DOMAIN h /\ h[1] = Rested(taker)  BY <3>1
      <3>4. \E k \in DOMAIN h : h[k].kind = "rested" /\ h[k].id = i  BY <2>8, <3>3 DEF Rested
      <3>5. events = q /\ events' = q \o h  BY <1>4, <2>1, <3>1
      <3> QED BY <3>2, <3>4, <3>5, AnnouncedKept
    <2> QED BY <1>5, <2>7, <2>8
  <1>9. CASE FinalizeEnded
    <2>1. phase = "match" /\ book' = MaybeCancelOco(book, taker.id)
      BY <1>9 DEF FinalizeEnded, LoopDone
    <2>2. taker.id \in Id  BY <2>1, InvFacts DEF Order
    <2> QED BY <1>1, <1>6, <2>1, <2>2, NoNewOco
  <1>10. ASSUME NEW s \in Side, NEW p \in Price, DrainStops(s, p) PROVE Announced(i)'
    <2>1. StopsSet(book, book', s, p, {})  BY <1>1, <1>10, StopsGood DEF DrainStops
    <2>2. NoNewcomer(book, book')  BY <2>1 DEF StopsSet, NoNewcomer, InBook, Kept, Parked
    <2> QED BY <1>6, <2>2
  <1>11. CASE NextInQueue \/ CommandDone
    <2>1. book' = book  BY <1>11 DEF NextInQueue, CommandDone
    <2> QED BY <1>2, <1>5, <2>1
  <1> QED BY <1>7, <1>8, <1>9, <1>10, <1>11 DEF Step, Finalize

(* A new order is not in the book before it is submitted. *)
LEMMA UnknownNotLive ==
  ASSUME BookInv, NEW i \in Id, i \notin 1..placed
  PROVE  ~InBook(book, i)
  <1> SUFFICES ASSUME InBook(book, i) PROVE FALSE  OBVIOUS
  <1>1. PICK S : S = Stock(book, work, triggered, phase, taker)  OBVIOUS
  <1>2. Unique(S) /\ Fates(S, acct, ended, dropped, placed)  BY <1>1, InvFacts DEF Sound
  <1>3. Held(S, i)  BY <1>1, <1>2, InvFacts, BookPart
  <1> QED BY <1>2, <1>3 DEF Held, Fates

LEMMA PlaceAnnounces ==
  ASSUME BookInv, BookInv', NEW o \in Inputs, Place(o), o.id \in Live(book)'
  PROVE  Announced(o.id)'
  <1>1. o \in Order /\ o.id \in Id /\ o.oco \in Id \cup {None}  BY ConstantsAssumption DEF Order
  <1>2. o.id = placed + 1  BY DEF Place, PlaceRejected, PlaceStop, PlaceActive, Submit
  <1>3. ~InBook(book, o.id)
    <2>1. placed \in Nat  BY InvFacts, ConstantsAssumption
    <2>2. o.id \notin 1..placed  BY <1>2, <2>1
    <2> QED BY <1>1, <2>2, UnknownNotLive
  <1>4. CASE PlaceStop(o)
    <2>1. events' = <<Rested(o)>>  BY <1>4 DEF PlaceStop, Output
    <2>2. PICK h : h = <<Rested(o)>>  OBVIOUS
    <2>3. 1 \in DOMAIN h /\ h[1] = Rested(o)  BY <2>2
    <2>4. \E k \in DOMAIN h : h[k].kind = "rested" /\ h[k].id = o.id  BY <2>3 DEF Rested
    <2> QED BY <2>1, <2>2, <2>4 DEF Announced
  <1>5. CASE PlaceRejected(o) \/ PlaceActive(o)
    <2>1. PICK b : b = RegisterOco(book, o.id, o.oco)  OBVIOUS
    <2>2. book' = b  BY <1>5, <2>1 DEF PlaceRejected, PlaceActive
    <2>3. b.level = book.level /\ b.stops = book.stops  BY <1>1, <2>1, InvFacts, RegisterSame
    <2>4. ~InBook(b, o.id)  BY <1>3, <2>3 DEF InBook, Kept, Parked
    <2>5. Good(book')  BY DEF BookInv
    <2>6. Live(book)' = Live(book')  BY DEF Live, InStops, Has
    <2>7. FALSE  BY <1>1, <2>2, <2>4, <2>5, <2>6, LiveInBook
    <2> QED BY <2>7
  <1> QED BY <1>4, <1>5 DEF Place

(* Nothing the book or its events hold changes. *)
LEMMA SameLive ==
  ASSUME UNCHANGED vars
  PROVE  /\ Live(book)' = Live(book) /\ phase' = phase
         /\ \A i : Announced(i)' <=> Announced(i)
  BY DEF vars, Live, InStops, Has, Announced

LEMMA IdleNoStep ==
  ASSUME Step
  PROVE  phase # "idle"
  BY DEF Step, Fill, FillMaker, FillPart, ApplyStp, StpCancelTaker, StpCancelMaker, StpCutMaker,
         StpCutTaker, StpCutBoth, SelfMatch, Matching, Finalize, FinalizeRested, FinalizeEnded,
         LoopDone, DrainStops, NextInQueue, CommandDone, RunDone

(* The server has no acknowledgement outstanding and gives none. *)
LEMMA NoAck ==
  ASSUME reply' = None, cmd' = None
  PROVE  AckInv'
  BY DEF AckInv, TerminalAckIsFinal

(* Requests. *)
LEMMA RequestAcks ==
  ASSUME BookInv, BookInv', AckInv, Request
  PROVE  AckInv'
  <1>1. ASSUME NEW o \in Inputs, PlaceOrder(o) PROVE AckInv'
    <2>1. Place(o) /\ cmd' = PlaceCmd(o) /\ reply' = None  BY <1>1 DEF PlaceOrder
    <2>2. cmd'.kind = "place" /\ cmd'.order = o  BY <2>1 DEF PlaceCmd
    <2>3. o.id \in Live(book)' => Announced(o.id)'  BY <2>1, PlaceAnnounces
    <2> QED BY <2>1, <2>2, <2>3 DEF AckInv, TerminalAckIsFinal
  <1>2. ASSUME NEW i \in Id, CancelRequest(i) PROVE AckInv'
    <2>1. cmd = None /\ phase = "idle" /\ reply' = None  BY <1>2 DEF CancelRequest, Idle
    <2>2. phase' = phase  BY <1>2 DEF CancelRequest, CancelKnownOrder, CancelOrder, ctl
    <2>3. CASE events' = <<>>
      <3>1. cmd' = None  BY <1>2, <2>1, <2>3 DEF CancelRequest
      <3> QED BY <2>1, <3>1, NoAck
    <2>4. CASE events' # <<>>
      <3>1. cmd' = [kind |-> "ack", id |-> None, status |-> "canceled"]
        BY <1>2, <2>4 DEF CancelRequest
      <3>2. cmd'.kind = "ack" /\ cmd'.id = None  BY <3>1
      <3> QED BY <2>1, <2>2, <3>2 DEF AckInv, TerminalAckIsFinal
    <2> QED BY <2>3, <2>4
  <1>3. ASSUME NEW u \in Users, CancelAll(u) PROVE AckInv'
    <2>1. phase = "idle" /\ reply' = None /\ UNCHANGED vars /\ cmd' = [kind |-> "cancel_all"]
      BY <1>3 DEF CancelAll, Idle
    <2>2. cmd'.kind = "cancel_all" /\ phase' = "idle"  BY <2>1, SameLive
    <2> QED BY <2>1, <2>2 DEF AckInv, TerminalAckIsFinal
  <1>4. ASSUME NEW h \in BOOLEAN, SetMarket(h) PROVE AckInv'
    <2>1. /\ phase = "idle" /\ reply' = None /\ UNCHANGED vars
          /\ cmd' = [kind |-> "ack", id |-> None, status |-> IF h THEN "halted" ELSE "trading"]
      BY <1>4 DEF SetMarket, Idle
    <2>2. cmd'.kind = "ack" /\ cmd'.id = None /\ phase' = "idle"  BY <2>1, SameLive
    <2> QED BY <2>1, <2>2 DEF AckInv, TerminalAckIsFinal
  <1>5. CASE ReadOnly
    <2>1. UNCHANGED <<vars, cmd, mode, reply>>  BY <1>5 DEF ReadOnly, allVars, evars
    <2>2. Live(book)' = Live(book) /\ phase' = phase /\ \A i : Announced(i)' <=> Announced(i)
      BY <2>1, SameLive
    <2> QED BY <2>1, <2>2 DEF AckInv, TerminalAckIsFinal
  <1> QED BY <1>1, <1>2, <1>3, <1>4, <1>5 DEF Request

(* Handlers. *)
LEMMA HandleAcks ==
  ASSUME BookInv, BookInv', AckInv, Handle
  PROVE  AckInv'
  <1>1. CASE Match
    <2>1. cmd # None /\ Step /\ UNCHANGED <<cmd, mode, reply>>  BY <1>1 DEF Match, evars
    <2>2. cmd.kind = "place" /\ reply = None  BY <2>1, IdleNoStep DEF AckInv
    <2>3. PICK o \in Inputs : o = cmd.order  BY <2>1, <2>2 DEF AckInv
    <2>4. o.id \in Id  BY ConstantsAssumption DEF Order
    <2>5. o.id \in Live(book) => Announced(o.id)  BY <2>1, <2>2, <2>3 DEF AckInv
    <2>6. o.id \in Live(book)' => Announced(o.id)'  BY <2>1, <2>4, <2>5, StepAnnounces
    <2> QED BY <2>1, <2>2, <2>3, <2>6 DEF AckInv, TerminalAckIsFinal
  <1>2. CASE PlaceReject
    <2>1. cmd # None /\ cmd' = None /\ reply' = reply  BY <1>2 DEF PlaceReject, Matched
    <2>2. reply = None  BY <2>1 DEF AckInv
    <2> QED BY <2>1, <2>2, NoAck
  <1>3. CASE PlaceAccept
    <2>1. /\ cmd # None /\ cmd.kind = "place" /\ phase = "idle" /\ UNCHANGED <<vars, mode, reply>>
          /\ cmd' = [kind |-> "ack", id |-> cmd.order.id,
                     status |-> OrderStatusForPlace(cmd.order, events)]
      BY <1>3 DEF PlaceAccept, Matched
    <2>2. cmd'.kind = "ack" /\ cmd'.id = cmd.order.id
          /\ cmd'.status = OrderStatusForPlace(cmd.order, events)
      BY <2>1
    <2>3. Live(book)' = Live(book) /\ phase' = phase  BY <2>1, SameLive
    <2>4. Announced(cmd.order.id) => OrderStatusForPlace(cmd.order, events) \in {"partial", "new"}
      BY DEF Announced, OrderStatusForPlace
    <2>5. cmd'.status \in Terminal => cmd'.id \notin Live(book)'
      BY <2>1, <2>2, <2>3, <2>4 DEF AckInv, Terminal
    <2>6. reply = None  BY <2>1 DEF AckInv
    <2> QED BY <2>1, <2>2, <2>3, <2>5, <2>6 DEF AckInv, TerminalAckIsFinal
  <1>4. ASSUME NEW i \in Id, CancelAllNext(i) PROVE AckInv'
    <2>1. cmd # None /\ cmd.kind = "cancel_all" /\ phase = "idle" /\ UNCHANGED <<cmd, mode, reply>>
      BY <1>4 DEF CancelAllNext, Matched
    <2>2. phase' = "idle"
      <3>1. CASE open[i] = None
        <4>1. UNCHANGED vars  BY <1>4, <3>1 DEF CancelAllNext
        <4> QED BY <2>1, <4>1, SameLive
      <3>2. CASE open[i] # None
        BY <1>4, <2>1, <3>2 DEF CancelAllNext, CancelKnownOrder, CancelOrder, ctl
      <3> QED BY <3>1, <3>2
    <2>3. reply = None  BY <2>1 DEF AckInv
    <2> QED BY <2>1, <2>2, <2>3 DEF AckInv, TerminalAckIsFinal
  <1>5. CASE CancelAllEnd
    <2>1. /\ cmd # None /\ phase = "idle" /\ UNCHANGED <<vars, mode, reply>>
          /\ cmd' = [kind |-> "ack", id |-> None, status |-> "canceled"]
      BY <1>5 DEF CancelAllEnd, Matched
    <2>2. cmd'.kind = "ack" /\ cmd'.id = None /\ phase' = "idle"  BY <2>1, SameLive
    <2>3. reply = None  BY <2>1 DEF AckInv
    <2> QED BY <2>1, <2>2, <2>3 DEF AckInv, TerminalAckIsFinal
  <1>6. CASE LogEvent
    <2>1. UNCHANGED <<vars, cmd, mode, reply>>  BY <1>6 DEF LogEvent
    <2>2. Live(book)' = Live(book) /\ phase' = phase /\ \A i : Announced(i)' <=> Announced(i)
      BY <2>1, SameLive
    <2> QED BY <2>1, <2>2 DEF AckInv, TerminalAckIsFinal
  <1>7. CASE Respond
    <2>1. /\ cmd # None /\ cmd.kind = "ack" /\ mode' = "up" /\ cmd' = None /\ UNCHANGED vars
          /\ reply' = IF cmd.id = None THEN None ELSE [id |-> cmd.id, status |-> cmd.status]
      BY <1>7 DEF Respond, Matched
    <2>2. Live(book)' = Live(book)  BY <2>1, SameLive
    <2>3. CASE cmd.id = None  BY <2>1, <2>3, NoAck
    <2>4. CASE cmd.id # None
      <3>1. reply'.id = cmd.id /\ reply'.status = cmd.status  BY <2>1, <2>4
      <3>2. cmd.status \in Terminal => cmd.id \notin Live(book)  BY <2>1, <2>4 DEF AckInv
      <3>3. TerminalAckIsFinal'  BY <2>2, <3>1, <3>2 DEF TerminalAckIsFinal, Terminal
      <3> QED BY <2>1, <3>3 DEF AckInv
    <2> QED BY <2>3, <2>4
  <1> QED BY <1>1, <1>2, <1>3, <1>4, <1>5, <1>6, <1>7 DEF Handle

(* Recovery, and crashes. *)
LEMMA RecoverAcks ==
  ASSUME BookInv, BookInv', FilesOK, AckInv, Recover \/ Crash
  PROVE  AckInv'
  <1>1. CASE Start \/ ReplayEnd
    <2>1. UNCHANGED <<vars, cmd, reply>> /\ mode # "up"  BY <1>1 DEF Start, ReplayEnd
    <2>2. reply = None  BY <2>1 DEF AckInv
    <2>3. Live(book)' = Live(book) /\ phase' = phase /\ \A i : Announced(i)' <=> Announced(i)
      BY <2>1, SameLive
    <2> QED BY <2>1, <2>2, <2>3 DEF AckInv, TerminalAckIsFinal
  <1>2. CASE ReplayPlace
    <2>1. cursor < Len(wal) /\ mode = "replay" /\ UNCHANGED <<mode, reply>>  BY <1>2 DEF ReplayPlace
    <2>2. PICK c \in Commands : c = wal[cursor + 1]  BY <2>1, NextRecord
    <2>3. c.kind = "place" /\ Place(c.order) /\ cmd' = c  BY <1>2, <2>2 DEF ReplayPlace
    <2>4. PICK o \in Inputs : o = c.order  BY <2>3, CommandFacts
    <2>5. o.id \in Live(book)' => Announced(o.id)'  BY <2>3, <2>4, PlaceAnnounces
    <2>6. reply = None  BY <2>1 DEF AckInv
    <2> QED BY <2>1, <2>3, <2>4, <2>5, <2>6 DEF AckInv, TerminalAckIsFinal
  <1>3. CASE ReplayApply \/ ReplayCancel
    <2>1. mode = "replay" /\ reply' = reply /\ cmd' = None  BY <1>3 DEF ReplayApply, ReplayCancel
    <2>2. reply = None  BY <2>1 DEF AckInv
    <2> QED BY <2>1, <2>2, NoAck
  <1>4. CASE Crash
    <2>1. reply' = None /\ cmd' = None  BY <1>4 DEF Crash
    <2> QED BY <2>1, NoAck
  <1> QED BY <1>1, <1>2, <1>3, <1>4 DEF Recover

LEMMA EngineAckStep ==
  ASSUME BookOK, FilesOK, AckInv, [EngineNext]_allVars
  PROVE  BookOK' /\ FilesOK' /\ AckInv'
  <1>1. BookOK' /\ FilesOK'  BY EngineBookStep
  <1>2. BookInv /\ BookInv'  BY <1>1 DEF BookOK
  <1>3. CASE UNCHANGED allVars
    <2>1. UNCHANGED <<vars, cmd, mode, reply>>  BY <1>3 DEF allVars, evars
    <2>2. Live(book)' = Live(book) /\ phase' = phase /\ \A i : Announced(i)' <=> Announced(i)
      BY <2>1, SameLive
    <2>3. AckInv'  BY <2>1, <2>2 DEF AckInv, TerminalAckIsFinal
    <2> QED BY <1>1, <2>3
  <1> QED BY <1>1, <1>2, <1>3, RequestAcks, HandleAcks, RecoverAcks DEF EngineNext

(* An order acknowledged as filled or canceled is out of the book, however *)
(* its command traded, cascaded or cut it, until the next request changes  *)
(* the book; the API and settlement treat both states as final.            *)
THEOREM AcksAreFinal == EngineSpec => []TerminalAckIsFinal
  <1>1. EngineInit => BookOK /\ FilesOK /\ AckInv
    <2>1. EngineInit => reply = None /\ cmd = None  BY DEF EngineInit
    <2> QED BY <2>1, EngineBookInit DEF AckInv, TerminalAckIsFinal
  <1>2. BookOK /\ FilesOK /\ AckInv /\ [EngineNext]_allVars => BookOK' /\ FilesOK' /\ AckInv'
    BY EngineAckStep
  <1>3. AckInv => TerminalAckIsFinal  BY DEF AckInv
  <1> QED BY <1>1, <1>2, <1>3, PTL DEF EngineSpec

-----------------------------------------------------------------------------
(* Time priority.  A queue keeps the order of another one if any two of    *)
(* its orders stand in it as they stood before; that composes.             *)
KeepsOrder(q, r) ==
  \A k, l \in DOMAIN r :
    k < l => \E i, j \in DOMAIN q : i < j /\ q[i].id = r[k].id /\ q[j].id = r[l].id

(* A queue with one place less, without the order at m. *)
LEMMA SkipKeeps ==
  ASSUME NEW q \in Seq(Order), NEW r \in Seq(Order), NEW m \in Nat, Len(r) < Len(q),
         \A k \in 1..Len(r) : r[k].id = IF k < m THEN q[k].id ELSE q[k + 1].id
  PROVE  KeepsOrder(q, r)
  <1>1. /\ Len(q) \in Nat /\ DOMAIN q = 1..Len(q)
        /\ Len(r) \in Nat /\ DOMAIN r = 1..Len(r)
    BY SeqFacts
  <1> SUFFICES ASSUME NEW k \in DOMAIN r, NEW l \in DOMAIN r, k < l
               PROVE  \E i, j \in DOMAIN q : i < j /\ q[i].id = r[k].id /\ q[j].id = r[l].id
    BY DEF KeepsOrder
  <1>2. PICK i \in 1..Len(q) : q[i].id = r[k].id /\ i = IF k < m THEN k ELSE k + 1  BY <1>1
  <1>3. PICK j \in 1..Len(q) : q[j].id = r[l].id /\ j = IF l < m THEN l ELSE l + 1  BY <1>1
  <1>4. i < j  BY <1>1, <1>2, <1>3
  <1> QED BY <1>1, <1>2, <1>3, <1>4

LEMMA RemoveKeeps ==
  ASSUME NEW q \in Seq(Order), NEW i
  PROVE  KeepsOrder(q, RemoveId(q, i))
  <1>1. CASE ~Has(q, i)  BY <1>1 DEF RemoveId, KeepsOrder
  <1>2. CASE Has(q, i)
    <2>1. PICK m \in 1..Len(q) :
            /\ q[m].id = i
            /\ RemoveId(q, i) \in Seq(Order) /\ Len(RemoveId(q, i)) = Len(q) - 1
            /\ \A k \in 1..(Len(q) - 1) : RemoveId(q, i)[k] = IF k < m THEN q[k] ELSE q[k + 1]
      BY <1>2, RemoveIdAt
    <2>2. PICK r \in Seq(Order) : r = RemoveId(q, i)  BY <2>1
    <2>3. Len(r) < Len(q) /\ m \in Nat  BY <2>1, <2>2, SeqFacts
    <2>4. \A k \in 1..Len(r) : r[k].id = IF k < m THEN q[k].id ELSE q[k + 1].id
      BY <2>1, <2>2
    <2> QED BY <2>2, <2>3, <2>4, SkipKeeps
  <1> QED BY <1>1, <1>2

LEMMA TailKeeps ==
  ASSUME NEW q \in Seq(Order), q # <<>>
  PROVE  KeepsOrder(q, Tail(q))
  <1>0. PICK r : r = Tail(q)  OBVIOUS
  <1>1. /\ r = Tail(q) /\ r \in Seq(Order) /\ Len(r) = Len(q) - 1
        /\ \A k \in 1..(Len(q) - 1) : r[k] = q[k + 1]
    BY <1>0, HeadTailProperties
  <1>2. Len(r) < Len(q)  BY <1>1, SeqFacts
  <1>3. \A k \in 1..Len(r) : r[k].id = IF k < 0 THEN q[k].id ELSE q[k + 1].id  BY <1>1, SeqFacts
  <1> QED BY <1>1, <1>2, <1>3, SkipKeeps

(* The front order is replaced by what is left of it. *)
LEMMA FrontKeeps ==
  ASSUME NEW q \in Seq(Order), q # <<>>, NEW o \in Order, o.id = Head(q).id
  PROVE  KeepsOrder(q, <<o>> \o Tail(q))
  <1>0. PICK t : t = Tail(q)  OBVIOUS
  <1>1. /\ t = Tail(q) /\ t \in Seq(Order) /\ Len(t) = Len(q) - 1
        /\ \A k \in 1..(Len(q) - 1) : t[k] = q[k + 1]
    BY <1>0, HeadTailProperties
  <1>2. PICK n \in Nat : n = Len(q) /\ n # 0 /\ DOMAIN q = 1..n  BY SeqFacts
  <1>3. PICK r : r = <<o>> \o t  OBVIOUS
  <1>4. /\ r \in Seq(Order) /\ Len(r) = n
        /\ \A k \in 1..n : r[k] = IF k <= 1 THEN <<o>>[k] ELSE t[k - 1]
    <2>1. <<o>> \in Seq(Order) /\ Len(<<o>>) = 1  OBVIOUS
    <2> QED BY <1>1, <1>2, <1>3, <2>1, ConcatProperties
  <1>5. ASSUME NEW k \in 1..n PROVE r[k].id = q[k].id
    <2>1. CASE k = 1
      <3>1. r[1] = <<o>>[1]  BY <1>2, <1>4
      <3> QED BY <2>1, <3>1
    <2>2. CASE k # 1
      <3>1. k - 1 \in 1..(n - 1) /\ ~(k <= 1) /\ (k - 1) + 1 = k  BY <1>2, <2>2
      <3>2. t[k - 1] = q[k]  BY <1>1, <1>2, <3>1
      <3> QED BY <1>4, <3>1, <3>2
    <2> QED BY <2>1, <2>2
  <1>6. DOMAIN r = 1..n  BY <1>4, SeqFacts
  <1>7. KeepsOrder(q, r)  BY <1>2, <1>5, <1>6 DEF KeepsOrder
  <1> QED BY <1>1, <1>3, <1>7

LEMMA KeepsTwice ==
  ASSUME NEW q, NEW r, NEW t, KeepsOrder(q, r), KeepsOrder(r, t)
  PROVE  KeepsOrder(q, t)
  <1> SUFFICES ASSUME NEW k \in DOMAIN t, NEW l \in DOMAIN t, k < l
               PROVE  \E i, j \in DOMAIN q : i < j /\ q[i].id = t[k].id /\ q[j].id = t[l].id
    BY DEF KeepsOrder
  <1>1. PICK i, j \in DOMAIN r : i < j /\ r[i].id = t[k].id /\ r[j].id = t[l].id
    BY DEF KeepsOrder
  <1>2. PICK a, b \in DOMAIN q : a < b /\ q[a].id = r[i].id /\ q[b].id = r[j].id
    BY <1>1 DEF KeepsOrder
  <1> QED BY <1>1, <1>2

(* Two orders of a queue have changed places. *)
Swapped(old, new, i, j) ==
  /\ i < j
  /\ Has(new, old[i].id) /\ Has(new, old[j].id)
  /\ Pos(new, old[i].id) > Pos(new, old[j].id)

LEMMA NoneSwapped ==
  ASSUME NEW q \in Seq(Order), Distinct(q), NEW r \in Seq(Order), KeepsOrder(q, r)
  PROVE  \A i, j \in DOMAIN q : ~Swapped(q, r, i, j)
  <1> SUFFICES ASSUME NEW i \in DOMAIN q, NEW j \in DOMAIN q, Swapped(q, r, i, j)
               PROVE  FALSE
    OBVIOUS
  <1>1. PICK k \in DOMAIN r : k = Pos(r, q[i].id) /\ r[k].id = q[i].id
    BY DEF Swapped, Has, Pos
  <1>2. PICK l \in DOMAIN r : l = Pos(r, q[j].id) /\ r[l].id = q[j].id
    BY DEF Swapped, Has, Pos
  <1>3. l < k /\ i < j  BY <1>1, <1>2, SeqFacts DEF Swapped
  <1>4. PICK a, b \in DOMAIN q : a < b /\ q[a].id = r[l].id /\ q[b].id = r[k].id
    BY <1>3 DEF KeepsOrder
  <1>5. a = j /\ b = i  BY <1>1, <1>2, <1>4 DEF Distinct
  <1> QED BY <1>3, <1>4, <1>5, SeqFacts

(* An order that joins at the back, after others may have left, passes     *)
(* nobody but itself.                                                      *)
LEMMA OnlyTheLast ==
  ASSUME NEW q \in Seq(Order), Distinct(q), NEW t \in Seq(Order), KeepsOrder(q, t),
         NEW o \in Order, \A u \in Orders(t) : u.id # o.id,
         NEW i \in DOMAIN q, NEW j \in DOMAIN q, Swapped(q, Append(t, o), i, j)
  PROVE  q[i].id = o.id
  <1>1. PICK n \in Nat : n = Len(t) /\ DOMAIN t = 1..n  BY SeqFacts
  <1>2. PICK r : r = Append(t, o)  OBVIOUS
  <1>3. /\ r \in Seq(Order) /\ Len(r) = n + 1 /\ r[n + 1] = o
        /\ \A k \in 1..n : r[k] = t[k]
    BY <1>1, <1>2, AppendProperties
  <1>4. DOMAIN r = 1..(n + 1)  BY <1>3, SeqFacts
  <1>5. PICK k \in 1..(n + 1) : k = Pos(r, q[i].id) /\ r[k].id = q[i].id
    BY <1>2, <1>4 DEF Swapped, Has, Pos
  <1>6. PICK l \in 1..(n + 1) : l = Pos(r, q[j].id) /\ r[l].id = q[j].id
    BY <1>2, <1>4 DEF Swapped, Has, Pos
  <1>7. l < k /\ i < j  BY <1>1, <1>2, <1>5, <1>6 DEF Swapped
  <1>8. l \in 1..n /\ (k \in 1..n \/ k = n + 1)  BY <1>1, <1>7
  <1>9. CASE k = n + 1  BY <1>3, <1>5, <1>9
  <1>10. CASE k \in 1..n
    <2>1. PICK a, b \in DOMAIN q : a < b /\ q[a].id = t[l].id /\ q[b].id = t[k].id
      BY <1>1, <1>7, <1>8, <1>10 DEF KeepsOrder
    <2>2. a = j /\ b = i  BY <1>3, <1>5, <1>6, <1>8, <1>10, <2>1 DEF Distinct
    <2> QED BY <1>7, <2>1, <2>2, SeqFacts
  <1> QED BY <1>8, <1>9, <1>10

-----------------------------------------------------------------------------
(* The levels of a book keep their order. *)
LevelsKeep(b, c) == \A s \in Side, p \in Price : KeepsOrder(b.level[s][p], c.level[s][p])

LEMMA SameKeep ==
  ASSUME NEW b, NEW c, c.level = b.level
  PROVE  LevelsKeep(b, c)
  BY DEF LevelsKeep, KeepsOrder

LEMMA LevelsTwice ==
  ASSUME NEW b, NEW c, NEW d, LevelsKeep(b, c), LevelsKeep(c, d)
  PROVE  LevelsKeep(b, d)
  BY KeepsTwice DEF LevelsKeep

(* A book in which one level was replaced. *)
LEMMA SetKeeps ==
  ASSUME NEW b \in BookType, NEW s \in Side, NEW p \in Price, NEW q \in Seq(Order),
         KeepsOrder(b.level[s][p], q)
  PROVE  LevelsKeep(b, SetLevel(b, s, p, q))
  <1>1. PICK c : c = SetLevel(b, s, p, q)  OBVIOUS
  <1>2. /\ c.level[s][p] = q
        /\ \A r \in Side, u \in Price : r # s \/ u # p => c.level[r][u] = b.level[r][u]
    BY <1>1, SetLevelAt
  <1>3. ASSUME NEW r \in Side, NEW u \in Price PROVE KeepsOrder(b.level[r][u], c.level[r][u])
    <2>1. CASE r = s /\ u = p  BY <1>2, <2>1
    <2>2. CASE r # s \/ u # p
      <3>1. c.level[r][u] = b.level[r][u]  BY <1>2, <2>2
      <3> QED BY <3>1 DEF KeepsOrder
    <2> QED BY <2>1, <2>2
  <1> QED BY <1>1, <1>3 DEF LevelsKeep

LEMMA CancelKeeps ==
  ASSUME NEW b \in BookType, NEW i \in Id
  PROVE  LevelsKeep(b, CancelInternal(b, i))
  <1>1. CASE InStops(b, i)
    <2>1. CancelInternal(b, i).level = b.level  BY <1>1, BookParts DEF CancelInternal, BookType
    <2> QED BY <2>1, SameKeep
  <1>2. CASE ~InStops(b, i) /\ b.index[i] # None
    <2>1. PICK s \in Side, p \in Price : b.index[i] = <<s, p>>  BY <1>2, BookParts
    <2>2. PICK q : q = RemoveId(b.level[s][p], i)  OBVIOUS
    <2>3. q \in Seq(Order) /\ KeepsOrder(b.level[s][p], q)
      BY <2>2, BookQueues, RemoveIdType, RemoveKeeps
    <2>4. PICK d : d = SetIndex(b, i, None)  OBVIOUS
    <2>5. d \in BookType /\ d.level = b.level  BY <2>4, SetIndexAt
    <2>6. LevelsKeep(d, SetLevel(d, s, p, q))  BY <2>3, <2>5, SetKeeps
    <2>7. CancelInternal(b, i) = SetLevel(d, s, p, q)
      BY <1>2, <2>1, <2>2, <2>4 DEF CancelInternal
    <2> QED BY <2>5, <2>6, <2>7, SameKeep, LevelsTwice
  <1>3. CASE ~InStops(b, i) /\ b.index[i] = None
    <2>1. CancelInternal(b, i) = b  BY <1>3 DEF CancelInternal
    <2> QED BY <2>1, SameKeep
  <1> QED BY <1>1, <1>2, <1>3

LEMMA OcoKeeps ==
  ASSUME NEW b \in BookType, NEW i \in Id
  PROVE  LevelsKeep(b, MaybeCancelOco(b, i))
  <1>1. CASE b.oco[i] = None  BY <1>1, SameKeep DEF MaybeCancelOco
  <1>2. CASE b.oco[i] # None
    <2>1. PICK j \in Id : j = b.oco[i]  BY <1>2, BookParts
    <2>2. PICK u : u = Unlink(b, i)  OBVIOUS
    <2>3. u \in BookType /\ u.level = b.level  BY <2>2, UnlinkSame
    <2>4. MaybeCancelOco(b, i) = CancelInternal(u, j)  BY <1>2, <2>1, <2>2 DEF MaybeCancelOco
    <2> QED BY <2>3, <2>4, SameKeep, CancelKeeps, LevelsTwice
  <1> QED BY <1>1, <1>2

LEMMA PopKeeps ==
  ASSUME NEW b \in BookType, NEW s \in Side, NEW p \in Price, b.level[s][p] # <<>>
  PROVE  LevelsKeep(b, PopFrontMaker(b, s, p))
  <1>1. PICK q \in Seq(Order) : q = b.level[s][p]  BY BookQueues
  <1>2. PICK t : t = Tail(q)  OBVIOUS
  <1>3. t \in Seq(Order) /\ KeepsOrder(q, t) /\ Head(q) \in Order
    BY <1>1, <1>2, HeadTailProperties, TailKeeps
  <1>4. PICK i \in Id : i = Head(q).id  BY <1>3 DEF Order
  <1>5. PICK d : d = SetIndex(b, i, None)  OBVIOUS
  <1>6. d \in BookType /\ d.level = b.level  BY <1>5, SetIndexAt
  <1>7. PopFrontMaker(b, s, p) = SetLevel(d, s, p, t)
    BY <1>1, <1>2, <1>4, <1>5 DEF PopFrontMaker
  <1>8. LevelsKeep(d, SetLevel(d, s, p, t))  BY <1>1, <1>3, <1>6, SetKeeps
  <1> QED BY <1>6, <1>7, <1>8, SameKeep, LevelsTwice

LEMMA ReplaceKeeps ==
  ASSUME NEW b \in BookType, NEW s \in Side, NEW p \in Price, b.level[s][p] # <<>>,
         NEW o \in Order, o.id = Head(b.level[s][p]).id
  PROVE  LevelsKeep(b, ReplaceFront(b, s, p, o))
  <1>1. PICK q \in Seq(Order) : q = b.level[s][p]  BY BookQueues
  <1>2. PICK r : r = <<o>> \o Tail(q)  OBVIOUS
  <1>3. KeepsOrder(q, r)  BY <1>1, <1>2, FrontKeeps
  <1>4. r \in Seq(Order)
    <2>1. PICK t : t = Tail(q)  OBVIOUS
    <2>2. t \in Seq(Order)  BY <1>1, <2>1, HeadTailProperties
    <2>3. <<o>> \in Seq(Order)  OBVIOUS
    <2> QED BY <1>2, <2>1, <2>2, <2>3, ConcatProperties
  <1> QED BY <1>1, <1>2, <1>3, <1>4, SetKeeps DEF ReplaceFront

-----------------------------------------------------------------------------
(* What FifoKept says of a step. *)
PriorityStep ==
  \A s \in Side, p \in Price :
    LET old == book.level[s][p] new == book'.level[s][p]
    IN \A i, j \in DOMAIN old :
         Swapped(old, new, i, j) =>
           /\ old[i].display # None
           /\ acct'[old[i].id].filled = acct[old[i].id].filled + Effective(old[i])

LEMMA KeepIsPriority ==
  ASSUME BookInv, book' \in BookType, LevelsKeep(book, book')
  PROVE  PriorityStep
  <1>1. ASSUME NEW s \in Side, NEW p \in Price, NEW i \in DOMAIN book.level[s][p],
               NEW j \in DOMAIN book.level[s][p]
        PROVE  ~Swapped(book.level[s][p], book'.level[s][p], i, j)
    <2>1. PICK q \in Seq(Order) : q = book.level[s][p] /\ Distinct(q)
      BY InvFacts, BookQueues DEF Good
    <2>2. PICK r \in Seq(Order) : r = book'.level[s][p]  BY BookQueues
    <2>3. KeepsOrder(q, r)  BY <2>1, <2>2 DEF LevelsKeep
    <2> QED BY <2>1, <2>2, <2>3, NoneSwapped
  <1> QED BY <1>1 DEF PriorityStep

LEMMA FillMakerKeeps ==
  ASSUME BookInv, NEW p \in Price, FillMaker(p)
  PROVE  LevelsKeep(book, book')
  <1>1. Matching(p)  BY DEF FillMaker
  <1>2. PICK s \in Side, i \in Id : s = Opposite(taker.side) /\ i = Maker(p).id
    BY <1>1, MatchingSound
  <1>3. book.level[s][p] # <<>> /\ book \in BookType  BY <1>1, <1>2, MatchingSound, InvFacts
  <1>4. PICK b : b = PopFrontMaker(book, s, p)  OBVIOUS
  <1>5. book' = MaybeCancelOco(b, i)  BY <1>2, <1>4 DEF FillMaker
  <1>6. b \in BookType
    <2>1. Good(b)  BY <1>3, <1>4, InvFacts, PopGood
    <2> QED BY <2>1 DEF Good
  <1> QED BY <1>3, <1>4, <1>5, <1>6, PopKeeps, OcoKeeps, LevelsTwice

LEMMA StpKeeps ==
  ASSUME BookInv, NEW p \in Price, ApplyStp(p)
  PROVE  LevelsKeep(book, book')
  <1>1. Matching(p)
    BY DEF ApplyStp, StpCancelTaker, StpCancelMaker, StpCutMaker, StpCutTaker, StpCutBoth, SelfMatch
  <1>2. PICK s \in Side, m \in Order : s = Opposite(taker.side) /\ m = Maker(p)
    BY <1>1, MatchingSound
  <1>3. /\ book.level[s][p] # <<>> /\ m = Head(book.level[s][p])
        /\ taker.remaining \in Nat /\ m.remaining \in Nat /\ book \in BookType
    BY <1>1, <1>2, MatchingSound, InvFacts
  <1>4. CASE StpCancelTaker(p)
    <2>1. book' = book  BY <1>4 DEF StpCancelTaker
    <2> QED BY <2>1, SameKeep
  <1>5. CASE StpCutMaker(p)
    <2>1. PICK q \in Nat : q = taker.remaining  BY <1>3
    <2>2. q < m.remaining  BY <1>2, <1>5, <2>1 DEF StpCutMaker
    <2>3. m.remaining - q \in Nat  BY <1>3, <2>2
    <2>4. PICK left \in Order : left = [m EXCEPT !.remaining = @ - q] /\ left.id = m.id
      BY <2>3, ShrunkOrder
    <2>5. book' = ReplaceFront(book, s, p, left)  BY <1>2, <1>5, <2>1, <2>4 DEF StpCutMaker
    <2> QED BY <1>3, <2>4, <2>5, ReplaceKeeps
  <1>6. CASE StpCancelMaker(p) \/ StpCutTaker(p) \/ StpCutBoth(p)
    <2>1. book' = PopFrontMaker(book, s, p)
      BY <1>2, <1>6 DEF StpCancelMaker, StpCutTaker, StpCutBoth
    <2> QED BY <1>3, <2>1, PopKeeps
  <1> QED BY <1>4, <1>5, <1>6 DEF ApplyStp

LEMMA CancelOrderKeeps ==
  ASSUME BookInv, NEW i \in Id, CancelOrder(i)
  PROVE  LevelsKeep(book, book')
  <1>1. book \in BookType  BY InvFacts
  <1>2. PICK l \in Id \cup {None} : l = book.oco[i]  BY <1>1, BookParts
  <1>3. PICK b, c : b = Unlink(book, i) /\ c = CancelInternal(b, i)  OBVIOUS
  <1>4. book' = IF l = None THEN c ELSE CancelInternal(c, l)  BY <1>2, <1>3 DEF CancelOrder
  <1>5. b \in BookType /\ b.level = book.level /\ b.stops = book.stops /\ b.index = book.index
    BY <1>1, <1>3, UnlinkSame
  <1>6. c \in BookType
    <2>1. Good(b)  BY <1>5, InvFacts, SameGood
    <2>2. Good(c)  BY <1>3, <2>1, CancelGood
    <2> QED BY <2>2 DEF Good
  <1>7. LevelsKeep(book, c)  BY <1>3, <1>5, SameKeep, CancelKeeps, LevelsTwice
  <1>8. CASE l = None  BY <1>4, <1>7, <1>8
  <1>9. CASE l # None
    <2>1. LevelsKeep(c, book')  BY <1>2, <1>4, <1>6, <1>9, CancelKeeps
    <2> QED BY <1>7, <2>1, LevelsTwice
  <1> QED BY <1>8, <1>9

(* The maker keeps its place, but an iceberg whose peak traded, which goes *)
(* to the back.                                                            *)
LEMMA FillPartPriority ==
  ASSUME BookInv, NEW p \in Price, FillPart(p), book' \in BookType
  PROVE  PriorityStep
  <1>1. Matching(p)  BY DEF FillPart
  <1>2. PICK s \in Side, m \in Order, i \in Id :
          s = Opposite(taker.side) /\ m = Maker(p) /\ i = m.id
    BY <1>1, MatchingSound
  <1>3. PICK n \in Nat : n = MinOf(taker.remaining, Effective(m)) /\ m.remaining - n \in Nat
    BY <1>1, <1>2, QtyFacts
  <1>4. PICK left \in Order : left = [m EXCEPT !.remaining = @ - n] /\ left.id = i
    BY <1>2, <1>3, ShrunkOrder
  <1>5. /\ book' = IF m.display # None /\ n = Effective(m)
                   THEN Requeue(book, s, p, left) ELSE ReplaceFront(book, s, p, left)
        /\ acct' = AddFilled(AddFilled(acct, taker.id, n), i, n)
    BY <1>2, <1>3, <1>4 DEF FillPart, Trade
  <1>6. /\ book.level[s][p] # <<>> /\ m = Head(book.level[s][p]) /\ i # taker.id
        /\ taker.id \in Id /\ book \in BookType
    BY <1>1, <1>2, MatchingSound, InvFacts
  <1>7. CASE ~(m.display # None /\ n = Effective(m))
    <2>1. book' = ReplaceFront(book, s, p, left)  BY <1>5, <1>7
    <2>2. LevelsKeep(book, book')  BY <1>2, <1>4, <1>6, <2>1, ReplaceKeeps
    <2> QED BY <2>2, KeepIsPriority
  <1>8. CASE m.display # None /\ n = Effective(m)
    <2>1. PICK q \in Seq(Order) : q = book.level[s][p] /\ Distinct(q)
      BY InvFacts, BookQueues DEF Good
    <2>2. PICK t : t = Tail(q)  OBVIOUS
    <2>3. t \in Seq(Order) /\ Orders(t) = Others(Orders(q), i) /\ KeepsOrder(q, t)
      BY <1>2, <1>6, <2>1, <2>2, TailSet, TailKeeps
    <2>4. PICK r : r = Append(t, left)  OBVIOUS
    <2>5. r \in Seq(Order)  BY <2>3, <2>4, AppendProperties
    <2>6. book' = SetLevel(book, s, p, r)  BY <1>5, <1>8, <2>1, <2>2, <2>4 DEF Requeue
    <2>7. /\ book'.level[s][p] = r
          /\ \A x \in Side, u \in Price : x # s \/ u # p => book'.level[x][u] = book.level[x][u]
      BY <1>6, <2>5, <2>6, SetLevelAt
    <2>8. acct'[i].filled = acct[i].filled + n
      <3>1. PICK a \in AcctType : a = AddFilled(acct, taker.id, n) /\ a[i] = acct[i]
        BY <1>6, InvFacts, AddsFacts, AcctUpdate DEF Adds
      <3>2. a \in [Id -> [qty: Nat, filled: Nat, cut: Nat]]  BY DEF AcctType
      <3>3. acct'[i] = [qty |-> a[i].qty, filled |-> a[i].filled + n, cut |-> a[i].cut]
        BY <1>5, <3>1, <3>2 DEF AddFilled
      <3> QED BY <3>1, <3>3
    <2>9. ASSUME NEW x \in Side, NEW u \in Price, NEW j \in DOMAIN book.level[x][u],
                 NEW k \in DOMAIN book.level[x][u],
                 Swapped(book.level[x][u], book'.level[x][u], j, k)
          PROVE  /\ book.level[x][u][j].display # None
                 /\ acct'[book.level[x][u][j].id].filled
                      = acct[book.level[x][u][j].id].filled + Effective(book.level[x][u][j])
      <3>1. CASE x # s \/ u # p
        <4>1. PICK v \in Seq(Order) : v = book.level[x][u] /\ Distinct(v)
          BY InvFacts, BookQueues DEF Good
        <4>2. book'.level[x][u] = v  BY <2>7, <3>1, <4>1
        <4>3. KeepsOrder(v, v)  BY DEF KeepsOrder
        <4> QED BY <2>9, <4>1, <4>2, <4>3, NoneSwapped
      <3>2. CASE x = s /\ u = p
        <4>1. j \in DOMAIN q /\ k \in DOMAIN q /\ Swapped(q, Append(t, left), j, k)
          BY <2>1, <2>4, <2>7, <2>9, <3>2
        <4>2. \A v \in Orders(t) : v.id # left.id  BY <1>4, <2>3 DEF Others
        <4>3. q[j].id = left.id  BY <2>1, <2>3, <4>1, <4>2, OnlyTheLast
        <4>4. q[1] = m /\ 1 \in DOMAIN q  BY <1>6, <2>1, SeqFacts
        <4>5. q[j] = m  BY <1>2, <1>4, <2>1, <4>1, <4>3, <4>4 DEF Distinct
        <4> QED BY <1>2, <1>8, <2>1, <2>8, <3>2, <4>5
      <3> QED BY <3>1, <3>2
    <2> QED BY <2>9 DEF PriorityStep
  <1> QED BY <1>7, <1>8

(* An order that rests joins its level at the back. *)
LEMMA RestedPriority ==
  ASSUME BookInv, FinalizeRested, book' \in BookType
  PROVE  PriorityStep
  <1>1. phase = "match" /\ MayRest(taker) /\ book' = InsertMaker(book, taker)
    BY DEF FinalizeRested, LoopDone
  <1>2. PICK o \in Order : o = taker  BY <1>1, InvFacts
  <1>3. PICK i \in Id, s \in Side, p \in Price : i = o.id /\ s = o.side /\ p = o.price
    BY <1>1, <1>2 DEF MayRest, Order
  <1>4. ~InBook(book, o.id)
    <2>1. Sound(Stock(book, work, triggered, "match", o), acct, ended, dropped, placed)
      BY <1>1, <1>2, InvFacts
    <2>2. Unique(Stock(book, work, triggered, "match", o))  BY <2>1 DEF Sound
    <2> QED BY <2>2, InvFacts, BookPart
  <1>5. PICK q \in Seq(Order) : q = book.level[s][p] /\ Distinct(q)
    BY InvFacts, BookQueues DEF Good
  <1>6. \A u \in Orders(q) : u.id # o.id  BY <1>3, <1>4, <1>5 DEF InBook, Kept
  <1>7. PICK r : r = Append(q, o)  OBVIOUS
  <1>8. r \in Seq(Order)  BY <1>5, <1>7, AppendProperties
  <1>9. PICK d : d = SetIndex(book, i, <<s, p>>)  OBVIOUS
  <1>10. d \in BookType /\ d.level = book.level  BY <1>9, InvFacts, SetIndexAt
  <1>11. book' = SetLevel(d, s, p, r)
    BY <1>1, <1>2, <1>3, <1>5, <1>7, <1>9 DEF InsertMaker
  <1>12. /\ book'.level[s][p] = r
         /\ \A x \in Side, u \in Price : x # s \/ u # p => book'.level[x][u] = d.level[x][u]
    BY <1>8, <1>10, <1>11, SetLevelAt
  <1>13. ASSUME NEW x \in Side, NEW u \in Price, NEW j \in DOMAIN book.level[x][u],
                NEW k \in DOMAIN book.level[x][u],
                Swapped(book.level[x][u], book'.level[x][u], j, k)
         PROVE  FALSE
    <2>1. CASE x # s \/ u # p
      <3>1. PICK v \in Seq(Order) : v = book.level[x][u] /\ Distinct(v)
        BY InvFacts, BookQueues DEF Good
      <3>2. book'.level[x][u] = v  BY <1>10, <1>12, <2>1, <3>1
      <3>3. KeepsOrder(v, v)  BY DEF KeepsOrder
      <3> QED BY <1>13, <3>1, <3>2, <3>3, NoneSwapped
    <2>2. CASE x = s /\ u = p
      <3>1. j \in DOMAIN q /\ k \in DOMAIN q /\ Swapped(q, Append(q, o), j, k)
        BY <1>5, <1>7, <1>12, <1>13, <2>2
      <3>2. KeepsOrder(q, q)  BY DEF KeepsOrder
      <3>3. q[j].id = o.id  BY <1>5, <1>6, <3>1, <3>2, OnlyTheLast
      <3> QED BY <1>6, <3>1, <3>3 DEF Orders
    <2> QED BY <2>1, <2>2
  <1> QED BY <1>13 DEF PriorityStep

LEMMA StepPriority ==
  ASSUME BookInv, [Next]_vars
  PROVE  PriorityStep
  <1>0. BookInv' /\ TypeOK' /\ book' \in BookType /\ book \in BookType
    BY StepSound, InvFacts DEF BookInv, TypeOK
  <1>1. ASSUME NEW o \in Inputs, Place(o) PROVE LevelsKeep(book, book')
    <2>1. o \in Order  BY ConstantsAssumption
    <2>2. PICK b : b = RegisterOco(book, o.id, o.oco)  OBVIOUS
    <2>3. b \in BookType /\ b.level = book.level  BY <1>0, <2>1, <2>2, RegisterSame DEF Order
    <2>4. CASE PlaceRejected(o) \/ PlaceActive(o)
      <3>1. book' = b  BY <2>2, <2>4 DEF PlaceRejected, PlaceActive
      <3> QED BY <2>3, <3>1, SameKeep
    <2>5. CASE PlaceStop(o)
      <3>1. PICK q : q = Append(b.stops[o.side][o.stop], o)  OBVIOUS
      <3>2. book' = SetStops(b, o.side, o.stop, q)  BY <2>2, <2>5, <3>1 DEF PlaceStop
      <3>3. book'.level = b.level  BY <2>3, <3>2, BookParts DEF SetStops, BookType
      <3> QED BY <2>3, <3>3, SameKeep
    <2> QED BY <1>1, <2>4, <2>5 DEF Place
  <1>2. ASSUME NEW s \in Side, NEW p \in Price, DrainStops(s, p) PROVE LevelsKeep(book, book')
    <2>1. book' = SetStops(book, s, p, <<>>)  BY <1>2 DEF DrainStops
    <2>2. book'.level = book.level  BY <1>0, <2>1, BookParts DEF SetStops, BookType
    <2> QED BY <2>2, SameKeep
  <1>3. CASE FinalizeEnded
    <2>1. book' = MaybeCancelOco(book, taker.id) /\ phase = "match"
      BY <1>3 DEF FinalizeEnded, LoopDone
    <2>2. taker.id \in Id  BY <2>1, InvFacts DEF Order
    <2> QED BY <1>0, <2>1, <2>2, OcoKeeps, KeepIsPriority
  <1>4. CASE NextInQueue \/ CommandDone \/ UNCHANGED vars
    <2>1. book' = book  BY <1>4 DEF NextInQueue, CommandDone, vars
    <2> QED BY <1>0, <2>1, SameKeep, KeepIsPriority
  <1>5. CASE \E o \in Inputs : Place(o)  BY <1>0, <1>1, <1>5, KeepIsPriority
  <1>6. CASE \E i \in Id : CancelOrder(i)  BY <1>0, <1>6, CancelOrderKeeps, KeepIsPriority
  <1>7. CASE \E p \in Price : Fill(p)
    BY <1>0, <1>7, FillMakerKeeps, KeepIsPriority, FillPartPriority DEF Fill
  <1>8. CASE \E p \in Price : ApplyStp(p)  BY <1>0, <1>8, StpKeeps, KeepIsPriority
  <1>9. CASE FinalizeRested  BY <1>0, <1>9, RestedPriority
  <1>10. CASE \E s \in Side, p \in Price : DrainStops(s, p)  BY <1>0, <1>2, <1>10, KeepIsPriority
  <1> QED BY <1>3, <1>4, <1>5, <1>6, <1>7, <1>8, <1>9, <1>10 DEF Next, Step, Finalize

(* Time priority, for any orders and levels of any length: an order is     *)
(* overtaken by one behind it only when it is an iceberg whose whole       *)
(* displayed quantity traded in this step.                                 *)
THEOREM PriorityKept == Spec => FifoKept
  <1>1. Init => BookInv  BY InitSound
  <1>2. BookInv /\ [Next]_vars => BookInv'  BY StepSound
  <1>3. BookInv /\ [Next]_vars => [PriorityStep]_vars  BY StepPriority
  <1>4. Spec => [][PriorityStep]_vars  BY <1>1, <1>2, <1>3, PTL DEF Spec
  <1> QED BY <1>4 DEF FifoKept, PriorityStep, Swapped

(* The same of the server's book, through crashes and replays.             *)
THEOREM ServerPriorityKept == EngineSpec => FifoKept
  <1>1. EngineInit => BookOK /\ FilesOK  BY EngineBookInit
  <1>2. BookOK /\ FilesOK /\ [EngineNext]_allVars => BookOK' /\ FilesOK'  BY EngineBookStep
  <1>3. BookOK /\ FilesOK /\ [EngineNext]_allVars => [PriorityStep]_vars
    <2> SUFFICES ASSUME BookOK, FilesOK, [EngineNext]_allVars PROVE PriorityStep  OBVIOUS
    <2>1. [Next]_vars \/ Init'  BY EngineStepBook
    <2>2. CASE [Next]_vars  BY <2>2, StepPriority DEF BookOK
    <2>3. CASE Init'
      <3>1. \A s \in Side, p \in Price : book'.level[s][p] = <<>>
        BY <2>3 DEF Init, EmptyBook, EmptyQueues
      <3>2. \A i : ~Has(<<>>, i)  BY DEF Has
      <3> QED BY <3>1, <3>2 DEF PriorityStep, Swapped
    <2> QED BY <2>1, <2>2, <2>3
  <1>4. EngineSpec => [][PriorityStep]_vars  BY <1>1, <1>2, <1>3, PTL DEF EngineSpec
  <1> QED BY <1>4 DEF FifoKept, PriorityStep, Swapped

-----------------------------------------------------------------------------
(* OCO.  What maybe_cancel_oco leaves of a book. *)
LEMMA OcoOut ==
  ASSUME NEW b, Good(b), NEW i \in Id
  PROVE  LET c == MaybeCancelOco(b, i) IN
         /\ Good(c)
         /\ \A k \in Id : InBook(b, k) /\ ~InBook(c, k) => k = b.oco[i]
         /\ \A k \in Id : InBook(b, k) /\ k = b.oco[i] =>
              ~InBook(c, k) /\ k \in CancelledIn(OcoEvents(b, i))
  <1>1. b \in BookType  BY DEF Good
  <1>2. CASE b.oco[i] = None
    <2>1. MaybeCancelOco(b, i) = b  BY <1>2 DEF MaybeCancelOco
    <2>2. \A k \in Id : k # None  BY ConstantsAssumption DEF Id
    <2> QED BY <1>2, <2>1, <2>2
  <1>3. CASE b.oco[i] # None
    <2>1. PICK j \in Id : j = b.oco[i]  BY <1>1, <1>3, BookParts
    <2>2. PICK u : u = Unlink(b, i)  OBVIOUS
    <2>3. u \in BookType /\ u.level = b.level /\ u.stops = b.stops /\ u.index = b.index
      BY <1>1, <2>2, UnlinkSame
    <2>4. Good(u)  BY <2>3, SameGood
    <2>5. PICK c : c = CancelInternal(u, j)  OBVIOUS
    <2>6. Good(c) /\ BookWithout(u, c, j)  BY <2>4, <2>5, CancelGood
    <2>7. MaybeCancelOco(b, i) = c  BY <1>3, <2>1, <2>2, <2>5 DEF MaybeCancelOco
    <2>8. \A k \in Id : InBook(u, k) <=> InBook(b, k)  BY <2>3 DEF InBook, Kept, Parked
    <2>9. \A k \in Id : InBook(c, k) <=> InBook(u, k) /\ k # j
      BY <2>6 DEF BookWithout, InBook, Kept, Parked, Others
    <2>10. InBook(b, j) => j \in CancelledIn(OcoEvents(b, i))
      <3>1. OcoEvents(b, i) = CancelEvents(u, j, "oco")
        BY <1>3, <2>1, <2>2 DEF OcoEvents
      <3>2. InBook(b, j) => OcoEvents(b, i) = <<Cancelled(j, "oco")>>
        BY <2>4, <2>8, <3>1, CancelNames
      <3> QED BY <3>2, NamesOne
    <2> QED BY <2>1, <2>6, <2>7, <2>8, <2>9, <2>10
  <1> QED BY <1>2, <1>3

(* Shrinking the front order, or letting one rest, loses nobody. *)
LEMMA NoLoss ==
  ASSUME NEW b, NEW c, NEW s \in Side, NEW p \in Price, NEW X,
         LevelSet(b, c, s, p, X), \A u \in Orders(b.level[s][p]) : \E w \in X : w.id = u.id,
         NEW i \in Id, InBook(b, i)
  PROVE  InBook(c, i)
  <1>1. PICK r \in Side, v \in Price : Kept(b, i, r, v) \/ Parked(b, i, r, v)  BY DEF InBook
  <1>2. CASE Parked(b, i, r, v)  BY <1>2 DEF LevelSet, Parked, InBook
  <1>3. CASE Kept(b, i, r, v) /\ (r # s \/ v # p)
    <2>1. c.level[r][v] = b.level[r][v]  BY <1>3 DEF LevelSet
    <2> QED BY <1>3, <2>1 DEF Kept, InBook
  <1>4. CASE Kept(b, i, r, v) /\ r = s /\ v = p
    <2>1. PICK u \in Orders(b.level[s][p]) : u.id = i  BY <1>4 DEF Kept
    <2>2. \E w \in Orders(c.level[s][p]) : w.id = i  BY <2>1 DEF LevelSet
    <2> QED BY <2>2 DEF Kept, InBook
  <1> QED BY <1>1, <1>2, <1>3, <1>4

(* What OcoPartnerCancelled says of a step. *)
OcoStep ==
  \A i \in Id : LeavesByTrade(i) /\ book.oco[i] \in Live(book) \ {i}
    => book.oco[i] \in ended' \ Live(book)'

LEMMA LeavesFacts ==
  ASSUME BookInv, BookInv', NEW i \in Id, LeavesByTrade(i)
  PROVE  /\ phase = "match" /\ ~InBook(book', i)
         /\ \/ InBook(book, i) /\ i \notin ended'
            \/ /\ i = taker.id /\ phase' = "drain"
               /\ \A k \in DOMAIN events' : events'[k] # Cancelled(i, "stp")
         /\ book.oco[i] \in Live(book) => book.oco[i] \in Id /\ InBook(book, book.oco[i])
         /\ \A k \in Id : ~InBook(book', k) => k \notin Live(book)'
  <1>1. Good(book) /\ Good(book')  BY DEF BookInv
  <1>2. \A k \in Id : k \in Live(book) <=> InBook(book, k)  BY <1>1, LiveInBook
  <1>3. \A k \in Id : k \in Live(book') <=> InBook(book', k)  BY <1>1, LiveInBook
  <1>4. Live(book)' = Live(book')  BY DEF Live, InStops, Has
  <1>5. Live(book) \subseteq Id  BY DEF Live
  <1> QED BY <1>2, <1>3, <1>4, <1>5 DEF LeavesByTrade

LEMMA FillMakerOco ==
  ASSUME BookInv, BookInv', NEW p \in Price, FillMaker(p)
  PROVE  OcoStep
  <1> SUFFICES ASSUME NEW i \in Id, LeavesByTrade(i), book.oco[i] \in Live(book) \ {i}
               PROVE  book.oco[i] \in ended' \ Live(book)'
    BY DEF OcoStep
  <1>1. Matching(p)  BY DEF FillMaker
  <1>2. PICK s \in Side, n \in Id : s = Opposite(taker.side) /\ n = Maker(p).id
                                    /\ n = Head(book.level[s][p]).id /\ book.level[s][p] # <<>>
    BY <1>1, MatchingSound
  <1>3. PICK q : q = MinOf(taker.remaining, Effective(Maker(p)))  OBVIOUS
  <1>4. PICK b : b = PopFrontMaker(book, s, p)  OBVIOUS
  <1>5. /\ book' = MaybeCancelOco(b, n) /\ phase' = phase
        /\ ended' = ended \cup CancelledIn(<<Filled(taker.id, n, p, q)>> \o OcoEvents(b, n))
    BY <1>2, <1>3, <1>4 DEF FillMaker, Trade, Emit
  <1>6. Good(b) /\ BookWithout(book, b, n) /\ b.oco = book.oco  BY <1>2, <1>4, InvFacts, PopGood
  <1>7. \A k \in Id : InBook(b, k) <=> InBook(book, k) /\ k # n
    BY <1>6 DEF BookWithout, InBook, Kept, Parked, Others
  <1>8. CancelledIn(OcoEvents(b, n)) \subseteq ended'
    <2>1. q \in Nat /\ taker.id \in Id  BY <1>1, <1>3, QtyFacts, MatchingSound
    <2>2. <<Filled(taker.id, n, p, q)>> \in Seq(Event)  BY <2>1, FilledEvent
    <2>3. OcoEvents(b, n) \in Seq(Event)  BY <1>6, OcoEventsType DEF Good
    <2> QED BY <1>5, <2>2, <2>3, NamesJoin
  <1>9. i = n
    <2>1. InBook(book, i) /\ i \notin ended' /\ ~InBook(book', i)  BY <1>5, LeavesFacts
    <2> QED BY <1>5, <1>6, <1>7, <1>8, <2>1, OcoOut
  <1> QED BY <1>5, <1>6, <1>7, <1>8, <1>9, OcoOut, LeavesFacts

(* What a step emits is among the events of the command. *)
LEMMA Emitted ==
  ASSUME TypeOK, NEW q \in Seq(Event), NEW k \in DOMAIN q, events' = events \o q
  PROVE  \E j \in DOMAIN events' : events'[j] = q[k]
  <1>1. PICK v \in Seq(Event) : v = events  BY DEF TypeOK
  <1>2. PICK m \in Nat, n \in Nat : m = Len(v) /\ n = Len(q) /\ DOMAIN q = 1..n  OBVIOUS
  <1>3. PICK w : w = v \o q  OBVIOUS
  <1>4. /\ w \in Seq(Event) /\ Len(w) = m + n
        /\ \A j \in 1..(m + n) : w[j] = IF j <= m THEN v[j] ELSE q[j - m]
    BY <1>2, <1>3, ConcatProperties
  <1>5. m + k \in 1..(m + n) /\ ~(m + k <= m) /\ (m + k) - m = k  BY <1>2
  <1>6. w[m + k] = q[k] /\ DOMAIN w = 1..(m + n)  BY <1>4, <1>5
  <1> QED BY <1>1, <1>3, <1>5, <1>6

LEMMA StpOco ==
  ASSUME BookInv, BookInv', NEW p \in Price, ApplyStp(p)
  PROVE  OcoStep
  <1> SUFFICES ASSUME NEW i \in Id, LeavesByTrade(i) PROVE FALSE  BY DEF OcoStep
  <1>1. Matching(p)
    BY DEF ApplyStp, StpCancelTaker, StpCancelMaker, StpCutMaker, StpCutTaker, StpCutBoth, SelfMatch
  <1>2. PICK s \in Side, m \in Order, n \in Id, t \in Id :
          s = Opposite(taker.side) /\ m = Maker(p) /\ n = m.id /\ t = taker.id
    BY <1>1, MatchingSound
  <1>3. /\ book.level[s][p] # <<>> /\ m = Head(book.level[s][p])
        /\ taker.remaining \in Nat /\ m.remaining \in Nat /\ TypeOK /\ phase = "match"
    BY <1>1, <1>2, MatchingSound, InvFacts
  <1>4. ASSUME book' = PopFrontMaker(book, s, p), InBook(book, i), ~InBook(book', i)  PROVE i = n
    <2>1. BookWithout(book, book', n)  BY <1>2, <1>3, <1>4, InvFacts, PopGood
    <2> QED BY <1>4, <2>1 DEF BookWithout, InBook, Kept, Parked, Others
  <1>5. ASSUME NEW j \in Id, events' = events \o <<Cancelled(j, "stp")>>
        PROVE  \E k \in DOMAIN events' : events'[k] = Cancelled(j, "stp")
    <2>1. PICK q : q = <<Cancelled(j, "stp")>>  OBVIOUS
    <2>2. q \in Seq(Event) /\ 1 \in DOMAIN q /\ q[1] = Cancelled(j, "stp")
      BY <2>1, CancelledEvent DEF Reason
    <2> QED BY <1>3, <1>5, <2>1, <2>2, Emitted
  <1>6. CASE StpCancelTaker(p)
    <2>1. book' = book /\ events' = events \o <<Cancelled(t, "stp")>>
      BY <1>2, <1>6 DEF StpCancelTaker, Emit
    <2> QED BY <1>2, <1>5, <2>1, LeavesFacts
  <1>7. CASE StpCutMaker(p)
    <2>1. PICK q \in Nat : q = taker.remaining  BY <1>3
    <2>2. q < m.remaining  BY <1>2, <1>7, <2>1 DEF StpCutMaker
    <2>3. m.remaining - q \in Nat  BY <1>3, <2>2
    <2>4. PICK left \in Order : left = [m EXCEPT !.remaining = @ - q] /\ left.id = m.id
      BY <2>3, ShrunkOrder
    <2>5. book' = ReplaceFront(book, s, p, left) /\ events' = events \o <<Cancelled(t, "stp")>>
      BY <1>2, <1>7, <2>1, <2>4 DEF StpCutMaker, Emit
    <2>6. LevelSet(book, book', s, p, Others(Orders(book.level[s][p]), left.id) \cup {left})
      BY <1>3, <2>4, <2>5, InvFacts, ReplaceGood
    <2>7. PICK X : X = Others(Orders(book.level[s][p]), left.id) \cup {left}  OBVIOUS
    <2>8. InBook(book, i) => InBook(book', i)  BY <2>6, <2>7, NoLoss DEF Others
    <2> QED BY <1>2, <1>5, <2>5, <2>8, LeavesFacts
  <1>8. CASE StpCancelMaker(p) \/ StpCutTaker(p)
    <2>1. /\ book' = PopFrontMaker(book, s, p) /\ phase' = phase
          /\ ended' = ended \cup CancelledIn(<<Cancelled(n, "stp")>>)
      BY <1>2, <1>8 DEF StpCancelMaker, StpCutTaker, Emit
    <2>2. n \in ended'  BY <2>1, NamesOne
    <2> QED BY <1>3, <1>4, <2>1, <2>2, LeavesFacts
  <1>9. CASE StpCutBoth(p)
    <2>1. PICK q : q = <<Cancelled(n, "stp"), Cancelled(t, "stp")>>  OBVIOUS
    <2>2. /\ book' = PopFrontMaker(book, s, p) /\ events' = events \o q
          /\ ended' = ended \cup CancelledIn(q)
      BY <1>2, <1>9, <2>1 DEF StpCutBoth, Emit
    <2>3. n \in ended'  BY <2>1, <2>2, NamesTwo
    <2>4. q \in Seq(Event) /\ 2 \in DOMAIN q /\ q[2] = Cancelled(t, "stp")
      <3>1. Cancelled(n, "stp") \in Event /\ Cancelled(t, "stp") \in Event
        BY CancelledEvent DEF Reason
      <3> QED BY <2>1, <3>1
    <2>5. \E k \in DOMAIN events' : events'[k] = Cancelled(t, "stp")
      BY <1>3, <2>2, <2>4, Emitted
    <2> QED BY <1>2, <1>4, <2>2, <2>3, <2>5, LeavesFacts
  <1> QED BY <1>6, <1>7, <1>8, <1>9 DEF ApplyStp

LEMMA FillPartOco ==
  ASSUME BookInv, BookInv', NEW p \in Price, FillPart(p)
  PROVE  OcoStep
  <1> SUFFICES ASSUME NEW i \in Id, LeavesByTrade(i) PROVE FALSE  BY DEF OcoStep
  <1>1. Matching(p)  BY DEF FillPart
  <1>2. PICK s \in Side, m \in Order : s = Opposite(taker.side) /\ m = Maker(p)
    BY <1>1, MatchingSound
  <1>3. book.level[s][p] # <<>> /\ m = Head(book.level[s][p])  BY <1>1, <1>2, MatchingSound
  <1>4. PICK q : q = MinOf(taker.remaining, Effective(m))  OBVIOUS
  <1>5. m.remaining - q \in Nat  BY <1>1, <1>2, <1>4, QtyFacts
  <1>6. PICK left \in Order : left = [m EXCEPT !.remaining = @ - q] /\ left.id = m.id
    BY <1>5, ShrunkOrder
  <1>7. /\ book' = Requeue(book, s, p, left) \/ book' = ReplaceFront(book, s, p, left)
        /\ phase' = phase
    BY <1>2, <1>4, <1>6 DEF FillPart, Trade
  <1>8. LevelSet(book, book', s, p, Others(Orders(book.level[s][p]), left.id) \cup {left})
    BY <1>3, <1>6, <1>7, InvFacts, ReplaceGood
  <1>9. PICK X : X = Others(Orders(book.level[s][p]), left.id) \cup {left}  OBVIOUS
  <1>10. InBook(book, i) => InBook(book', i)  BY <1>8, <1>9, NoLoss DEF Others
  <1> QED BY <1>7, <1>10, LeavesFacts

LEMMA FinalizeOco ==
  ASSUME BookInv, BookInv', Finalize
  PROVE  OcoStep
  <1> SUFFICES ASSUME NEW i \in Id, LeavesByTrade(i), book.oco[i] \in Live(book) \ {i}
               PROVE  book.oco[i] \in ended' \ Live(book)'
    BY DEF OcoStep
  <1>1. phase = "match"  BY DEF Finalize, FinalizeRested, FinalizeEnded, LoopDone
  <1>2. PICK o \in Order, t \in Id : o = taker /\ t = o.id  BY <1>1, InvFacts DEF Order
  <1>3. CASE FinalizeRested
    <2>1. MayRest(o) /\ book' = InsertMaker(book, o)  BY <1>2, <1>3 DEF FinalizeRested
    <2>2. PICK s \in Side, p \in Price : s = o.side /\ p = o.price /\ o.price # None
      BY <2>1 DEF MayRest, Order
    <2>3. ~InBook(book, o.id)
      <3>1. Sound(Stock(book, work, triggered, "match", o), acct, ended, dropped, placed)
        BY <1>1, <1>2, InvFacts
      <3>2. Unique(Stock(book, work, triggered, "match", o))  BY <3>1 DEF Sound
      <3> QED BY <3>2, InvFacts, BookPart
    <2>4. LevelSet(book, book', s, p, Orders(book.level[s][p]) \cup {o})
      BY <2>1, <2>2, <2>3, InvFacts, InsertGood
    <2>5. PICK X : X = Orders(book.level[s][p]) \cup {o}  OBVIOUS
    <2>7. InBook(book, i) => InBook(book', i)  BY <2>4, <2>5, NoLoss
    <2>6. InBook(book', t)  BY <1>2, <2>4 DEF LevelSet, InBook, Kept
    <2> QED BY <1>2, <2>6, <2>7, LeavesFacts
  <1>4. CASE FinalizeEnded
    <2>1. PICK f : f = IF taker.remaining = 0 THEN <<>> ELSE <<Cancelled(t, FinalReason(taker))>>
      OBVIOUS
    <2>2. /\ book' = MaybeCancelOco(book, t)
          /\ ended' = ended \cup CancelledIn(f \o OcoEvents(book, t))
      BY <1>2, <1>4, <2>1 DEF FinalizeEnded, Emit
    <2>3. f \in Seq(Event)
      <3>1. FinalReason(taker) \in Reason  BY DEF FinalReason, Reason
      <3> QED BY <2>1, <3>1, CancelledEvent
    <2>4. OcoEvents(book, t) \in Seq(Event)  BY InvFacts, OcoEventsType
    <2>5. CancelledIn(OcoEvents(book, t)) \subseteq ended'  BY <2>2, <2>3, <2>4, NamesJoin
    <2>6. Good(book)  BY InvFacts
    <2>7. i = t
      BY <1>2, <2>2, <2>5, <2>6, LeavesFacts, OcoOut
    <2> QED BY <2>2, <2>5, <2>6, <2>7, LeavesFacts, OcoOut
  <1> QED BY <1>3, <1>4 DEF Finalize

(* An order that leaves by trading, or is finalised without resting, has   *)
(* its OCO partner cancelled in the same step (maybe_cancel_oco), for any  *)
(* book and any links, where the partner rests or waits as a stop.  One in *)
(* the queue of the cascade, and legs that a cancel or self-trade          *)
(* prevention ends, are outside the statement.                             *)
THEOREM PartnersCancelled == Spec => OcoPartnerCancelled
  <1>1. Init => BookInv  BY InitSound
  <1>2. BookInv /\ [Next]_vars => BookInv'  BY StepSound
  <1>3. BookInv /\ BookInv' /\ [Next]_vars => [OcoStep]_vars
    <2> SUFFICES ASSUME BookInv, BookInv', Next PROVE OcoStep  OBVIOUS
    <2>1. CASE phase # "match"  BY <2>1 DEF OcoStep, LeavesByTrade
    <2>2. CASE phase = "match"
      <3>1. \/ \E p \in Price : Fill(p) \/ ApplyStp(p)
            \/ Finalize
        BY <2>2 DEF Next, Step, Place, PlaceRejected, PlaceStop, PlaceActive, Submit, CancelOrder,
                    DrainStops, NextInQueue, CommandDone, RunDone
      <3> QED BY <3>1, FillMakerOco, FillPartOco, StpOco, FinalizeOco DEF Fill
    <2> QED BY <2>1, <2>2
  <1>4. Spec => [][OcoStep]_vars  BY <1>1, <1>2, <1>3, PTL DEF Spec
  <1> QED BY <1>4 DEF OcoPartnerCancelled, OcoStep

-----------------------------------------------------------------------------
(* apply_open_order_updates, event by event. *)

(* The states of open_orders while the events are applied. *)
Applies(op, sub, evs, f) ==
  /\ f = [n \in 0..Len(evs) |-> f[n]]
  /\ f[0] = op
  /\ \A n \in 1..Len(evs) : f[n] = ApplyUpdate(f[n - 1], sub, evs[n])

LEMMA AppliesExists ==
  ASSUME NEW op, NEW sub, NEW evs \in Seq(Event)
  PROVE  \E f : Applies(op, sub, evs, f)
  <1> DEFINE T == {n \in Nat : n <= Len(evs) =>
                     \E f : /\ f = [k \in 0..n |-> f[k]] /\ f[0] = op
                            /\ \A k \in 1..n : f[k] = ApplyUpdate(f[k - 1], sub, evs[k])}
  <1>1. 0 \in T
    <2>1. PICK f : f = [k \in 0..0 |-> op]  OBVIOUS
    <2>2. f = [k \in 0..0 |-> f[k]] /\ f[0] = op /\ 1..0 = {}  BY <2>1
    <2> QED BY <2>2
  <1>2. ASSUME NEW n \in Nat, n \in T PROVE n + 1 \in T
    <2> SUFFICES ASSUME n + 1 <= Len(evs)
                 PROVE  \E g : /\ g = [k \in 0..(n + 1) |-> g[k]] /\ g[0] = op
                               /\ \A k \in 1..(n + 1) : g[k] = ApplyUpdate(g[k - 1], sub, evs[k])
      OBVIOUS
    <2>1. n <= Len(evs)  OBVIOUS
    <2>2. PICK f : /\ f = [k \in 0..n |-> f[k]] /\ f[0] = op
                   /\ \A k \in 1..n : f[k] = ApplyUpdate(f[k - 1], sub, evs[k])
      BY <1>2, <2>1
    <2>3. PICK g : g = [k \in 0..(n + 1) |-> IF k = n + 1 THEN ApplyUpdate(f[n], sub, evs[n + 1]) ELSE f[k]]
      OBVIOUS
    <2>4. g = [k \in 0..(n + 1) |-> g[k]]  BY <2>3
    <2>5. g[n + 1] = ApplyUpdate(f[n], sub, evs[n + 1]) /\ \A k \in 0..n : g[k] = f[k]  BY <2>3
    <2>6. ASSUME NEW k \in 1..(n + 1) PROVE g[k] = ApplyUpdate(g[k - 1], sub, evs[k])
      <3>1. CASE k = n + 1
        <4>1. k - 1 = n /\ n \in 0..n  BY <3>1
        <4> QED BY <2>5, <3>1, <4>1
      <3>2. CASE k # n + 1
        <4>1. k \in 1..n /\ k \in 0..n /\ k - 1 \in 0..n  BY <3>2
        <4> QED BY <2>2, <2>5, <4>1
      <3> QED BY <3>1, <3>2
    <2>7. g[0] = op  BY <2>2, <2>5
    <2> QED BY <2>4, <2>6, <2>7
  <1> HIDE DEF T
  <1>3. \A n \in Nat : n \in T  BY <1>1, <1>2, NatInduct
  <1>4. Len(evs) \in Nat /\ Len(evs) \in T  BY <1>3
  <1> QED BY <1>4 DEF T, Applies

LEMMA AppliesResult ==
  ASSUME NEW op, NEW sub, NEW evs \in Seq(Event)
  PROVE  \E f : Applies(op, sub, evs, f) /\ ApplyUpdates(op, sub, evs) = f[Len(evs)]
  <1> DEFINE Def(f) == f = [n \in 0..Len(evs) |->
                              IF n = 0 THEN op ELSE ApplyUpdate(f[n - 1], sub, evs[n])]
  <1>1. PICK g : Applies(op, sub, evs, g)  BY AppliesExists
  <1>2. Len(evs) \in Nat  OBVIOUS
  <1>3. Def(g)
    <2>1. \A n \in 0..Len(evs) : n = 0 \/ n \in 1..Len(evs)  BY <1>2
    <2>2. \A n \in 0..Len(evs) : g[n] = IF n = 0 THEN op ELSE ApplyUpdate(g[n - 1], sub, evs[n])
      BY <1>1, <2>1 DEF Applies
    <2>3. g = [n \in 0..Len(evs) |-> g[n]]  BY <1>1 DEF Applies
    <2> QED BY <2>2, <2>3
  <1>4. PICK f : f = CHOOSE h : Def(h)  OBVIOUS
  <1>5. Def(f)  BY <1>3, <1>4
  <1>6. Applies(op, sub, evs, f)
    <2>1. \A n \in 1..Len(evs) : n \in 0..Len(evs) /\ n # 0  BY <1>2
    <2>2. 0 \in 0..Len(evs)  BY <1>2
    <2> QED BY <1>5, <2>1, <2>2 DEF Applies
  <1>7. ApplyUpdates(op, sub, evs) = f[Len(evs)]  BY <1>4 DEF ApplyUpdates
  <1> QED BY <1>6, <1>7

(* The events of a prefix lead to the same state. *)
LEMMA AppliesPrefix ==
  ASSUME NEW op, NEW sub, NEW evs \in Seq(Event), NEW g \in Seq(Event), NEW f,
         Applies(op, sub, evs \o g, f)
  PROVE  ApplyUpdates(op, sub, evs) = f[Len(evs)]
  <1>1. PICK m \in Nat, n \in Nat : m = Len(evs) /\ n = Len(g)  OBVIOUS
  <1>2. PICK w : w = evs \o g  OBVIOUS
  <1>3. /\ w \in Seq(Event) /\ Len(w) = m + n
        /\ \A j \in 1..(m + n) : w[j] = IF j <= m THEN evs[j] ELSE g[j - m]
    BY <1>1, <1>2, ConcatProperties
  <1>4. PICK h : Applies(op, sub, evs, h) /\ ApplyUpdates(op, sub, evs) = h[m]
    BY <1>1, AppliesResult
  <1> DEFINE T == {k \in Nat : k <= m => f[k] = h[k]}
  <1>5. 0 \in T  BY <1>2, <1>4 DEF Applies
  <1>6. ASSUME NEW k \in Nat, k \in T PROVE k + 1 \in T
    <2> SUFFICES ASSUME k + 1 <= m PROVE f[k + 1] = h[k + 1]  OBVIOUS
    <2>1. /\ k + 1 \in 1..m /\ k + 1 \in 1..(m + n) /\ (k + 1) - 1 = k /\ k <= m  BY <1>1
    <2>2. h[k + 1] = ApplyUpdate(h[k], sub, evs[k + 1])  BY <1>1, <1>4, <2>1 DEF Applies
    <2>3. f[k + 1] = ApplyUpdate(f[k], sub, w[k + 1])  BY <1>2, <1>3, <2>1 DEF Applies
    <2>4. w[k + 1] = evs[k + 1]  BY <1>3, <2>1
    <2> QED BY <1>6, <2>1, <2>2, <2>3, <2>4
  <1> HIDE DEF T
  <1>7. m \in T  BY <1>5, <1>6, NatInduct
  <1> QED BY <1>1, <1>4, <1>7 DEF T

(* No events, one more event. *)
LEMMA ApplyNothing ==
  ASSUME NEW op, NEW sub
  PROVE  ApplyUpdates(op, sub, <<>>) = op
  <1>1. <<>> \in Seq(Event) /\ Len(<<>>) = 0  OBVIOUS
  <1>2. PICK f : Applies(op, sub, <<>>, f) /\ ApplyUpdates(op, sub, <<>>) = f[0]
    BY <1>1, AppliesResult
  <1> QED BY <1>2 DEF Applies

LEMMA ApplyOneMore ==
  ASSUME NEW op, NEW sub, NEW evs \in Seq(Event), NEW e \in Event
  PROVE  ApplyUpdates(op, sub, evs \o <<e>>) = ApplyUpdate(ApplyUpdates(op, sub, evs), sub, e)
  <1>0. PICK m \in Nat : m = Len(evs)  OBVIOUS
  <1>1. PICK g : g = <<e>>  OBVIOUS
  <1>2. PICK w : w = evs \o g  OBVIOUS
  <1>3. g \in Seq(Event) /\ Len(g) = 1 /\ g[1] = e  BY <1>1
  <1>4. /\ w \in Seq(Event) /\ Len(w) = m + 1
        /\ \A j \in 1..(m + 1) : w[j] = IF j <= m THEN evs[j] ELSE g[j - m]
    <2>1. PICK n \in Nat : n = Len(g)  BY <1>3
    <2>4. n = 1  BY <1>3, <2>1
    <2>2. g \in Seq(Event)  BY <1>3
    <2>3. /\ w \in Seq(Event) /\ Len(w) = m + n
          /\ \A j \in 1..(m + n) : w[j] = IF j <= m THEN evs[j] ELSE g[j - m]
      BY <1>0, <1>2, <2>1, <2>2, ConcatProperties
    <2> QED BY <2>3, <2>4
  <1>5. w[m + 1] = e
    <2>1. m + 1 \in 1..(m + 1) /\ ~(m + 1 <= m) /\ (m + 1) - m = 1  OBVIOUS
    <2> QED BY <1>3, <1>4, <2>1
  <1>6. PICK f : Applies(op, sub, w, f) /\ ApplyUpdates(op, sub, w) = f[m + 1]
    BY <1>4, AppliesResult
  <1>7. f[m + 1] = ApplyUpdate(f[m], sub, e)
    <2>1. m + 1 \in 1..(m + 1) /\ (m + 1) - 1 = m  OBVIOUS
    <2> QED BY <1>4, <1>5, <1>6, <2>1 DEF Applies
  <1>8. ApplyUpdates(op, sub, evs) = f[Len(evs)]
    <2>1. Applies(op, sub, evs \o g, f)  BY <1>2, <1>6
    <2> QED BY <1>3, <2>1, AppliesPrefix
  <1>9. ApplyUpdates(op, sub, evs) = f[m]  BY <1>0, <1>8
  <1> QED BY <1>1, <1>2, <1>6, <1>7, <1>9

-----------------------------------------------------------------------------
(* What single events do to open_orders. *)

OpenType == [Id -> OpenOrder \cup {None}]

LEMMA DecrementFacts ==
  ASSUME NEW op \in OpenType, NEW i \in Id, NEW q \in Nat
  PROVE  /\ Decrement(op, i, q) \in OpenType
         /\ \A j \in Id : j # i => Decrement(op, i, q)[j] = op[j]
         /\ op[i] # None /\ op[i].remaining > q
              => /\ Decrement(op, i, q)[i] # None
                 /\ Decrement(op, i, q)[i].remaining = op[i].remaining - q
  <1>1. PICK d : d = Decrement(op, i, q)  OBVIOUS
  <1>2. op[i] = None \/ (op[i] # None /\ op[i] \in OpenOrder)  BY DEF OpenType
  <1>3. CASE op[i] = None  BY <1>3 DEF Decrement
  <1>4. CASE op[i] # None
    <2>1. op[i] \in OpenOrder /\ op[i].remaining \in Nat  BY <1>2, <1>4 DEF OpenOrder
    <2>2. CASE op[i].remaining <= q
      <3>1. Decrement(op, i, q) = [op EXCEPT ![i] = None]  BY <1>4, <2>2 DEF Decrement
      <3> QED BY <2>1, <2>2, <3>1 DEF OpenType
    <2>3. CASE op[i].remaining > q
      <3>1. PICK r \in Nat : r = op[i].remaining - q  BY <2>1, <2>3
      <3>2. PICK x : x = [op[i] EXCEPT !.remaining = r]  OBVIOUS
      <3>3. x \in OpenOrder /\ x.remaining = r  BY <2>1, <3>2 DEF OpenOrder
      <3>4. x # None  BY <3>3, EngineAssumption
      <3>5. Decrement(op, i, q) = [op EXCEPT ![i] = x]
        <4>1. ~(op[i].remaining <= q)  BY <2>1, <2>3
        <4> QED BY <1>4, <3>1, <3>2, <4>1 DEF Decrement
      <3> QED BY <3>1, <3>3, <3>4, <3>5 DEF OpenType
    <2> QED BY <2>1, <2>2, <2>3
  <1> QED BY <1>3, <1>4

Quiet(g) == \A k \in DOMAIN g : g[k].kind \in {"cancelled", "stop_triggered"}

LEMMA QuietEvent ==
  ASSUME NEW op \in OpenType, NEW sub, NEW e \in Event, e.kind \in {"cancelled", "stop_triggered"}
  PROVE  /\ ApplyUpdate(op, sub, e) \in OpenType
         /\ \A i \in Id : ~(e.kind = "cancelled" /\ e.id = i) => ApplyUpdate(op, sub, e)[i] = op[i]
  <1>1. CASE e.kind = "cancelled"
    <2>1. ApplyUpdate(op, sub, e) = [op EXCEPT ![e.id] = None]  BY <1>1 DEF ApplyUpdate
    <2> QED BY <1>1, <2>1 DEF OpenType
  <1>2. CASE e.kind = "stop_triggered"
    <2>1. ApplyUpdate(op, sub, e) = op  BY <1>2 DEF ApplyUpdate
    <2> QED BY <2>1
  <1> QED BY <1>1, <1>2

(* Cancels and triggers take out the orders cancelled, nothing else. *)
LEMMA QuietFold ==
  ASSUME NEW op, NEW sub, NEW evs \in Seq(Event), NEW q \in Seq(Event), Quiet(q),
         ApplyUpdates(op, sub, evs) \in OpenType
  PROVE  /\ ApplyUpdates(op, sub, evs \o q) \in OpenType
         /\ \A i \in Id : i \notin CancelledIn(q) =>
              ApplyUpdates(op, sub, evs \o q)[i] = ApplyUpdates(op, sub, evs)[i]
  <1>1. PICK m \in Nat, n \in Nat : m = Len(evs) /\ n = Len(q)  OBVIOUS
  <1>2. PICK w : w = evs \o q  OBVIOUS
  <1>3. /\ w \in Seq(Event) /\ Len(w) = m + n
        /\ \A j \in 1..(m + n) : w[j] = IF j <= m THEN evs[j] ELSE q[j - m]
    BY <1>1, <1>2, ConcatProperties
  <1>4. PICK f : Applies(op, sub, w, f) /\ ApplyUpdates(op, sub, w) = f[m + n]
    BY <1>3, AppliesResult
  <1>5. PICK b \in OpenType : b = ApplyUpdates(op, sub, evs) /\ b = f[m]
    <2>1. Applies(op, sub, evs \o q, f)  BY <1>2, <1>4
    <2>2. ApplyUpdates(op, sub, evs) = f[Len(evs)]  BY <2>1, AppliesPrefix
    <2> QED BY <1>1, <2>2
  <1> DEFINE T == {k \in Nat : k <= n => /\ f[m + k] \in OpenType
                                         /\ \A i \in Id : i \notin CancelledIn(q) => f[m + k][i] = b[i]}
  <1>6. 0 \in T  BY <1>5
  <1>7. ASSUME NEW k \in Nat, k \in T PROVE k + 1 \in T
    <2> SUFFICES ASSUME k + 1 <= n
                 PROVE  /\ f[m + (k + 1)] \in OpenType
                        /\ \A i \in Id : i \notin CancelledIn(q) => f[m + (k + 1)][i] = b[i]
      OBVIOUS
    <2>1. PICK j \in 1..(m + n) : /\ j = m + (k + 1) /\ j - 1 = m + k /\ ~(j <= m) /\ j - m = k + 1
                                  /\ k + 1 \in 1..n /\ k <= n
      <3>1. m + (k + 1) \in 1..(m + n)  BY <1>1
      <3> QED BY <1>1, <3>1
    <2>2. PICK e \in Event : e = q[k + 1] /\ k + 1 \in DOMAIN q  BY <1>1, <2>1
    <2>3. w[j] = e  BY <1>3, <2>1, <2>2
    <2>4. PICK g \in OpenType : g = f[m + k] /\ \A i \in Id : i \notin CancelledIn(q) => g[i] = b[i]
      BY <1>7, <2>1
    <2>5. f[j] = ApplyUpdate(g, sub, e)  BY <1>3, <1>4, <2>1, <2>3, <2>4 DEF Applies
    <2>6. e.kind \in {"cancelled", "stop_triggered"}  BY <2>2 DEF Quiet
    <2>7. \A i \in Id : i \notin CancelledIn(q) => ~(e.kind = "cancelled" /\ e.id = i)
      BY <2>2 DEF CancelledIn
    <2>8. PICK h : h = ApplyUpdate(g, sub, e)  OBVIOUS
    <2>9. h \in OpenType /\ \A i \in Id : ~(e.kind = "cancelled" /\ e.id = i) => h[i] = g[i]
      BY <2>6, <2>8, QuietEvent
    <2> QED BY <2>1, <2>4, <2>5, <2>7, <2>8, <2>9
  <1> HIDE DEF T
  <1>8. n \in T  BY <1>6, <1>7, NatInduct
  <1>9. f[m + n] \in OpenType /\ \A i \in Id : i \notin CancelledIn(q) => f[m + n][i] = b[i]
    BY <1>1, <1>8 DEF T
  <1> QED BY <1>2, <1>4, <1>5, <1>9

-----------------------------------------------------------------------------
(* Coverage: an order that may still be live has an entry for the rest of  *)
(* it, once the events so far are applied.                                 *)

Used(a, i) == a[i].filled + a[i].cut

Owing(a, e, d, n) == {i \in Id : i \in 1..n /\ i \notin e /\ i \notin d /\ Used(a, i) < a[i].qty}

Covers(op, a, i) == op[i] # None /\ op[i].remaining + Used(a, i) >= a[i].qty

(* For the order o being placed, with the events so far; the orders in X   *)
(* are in the matching loop and were never rested.                         *)
MatchCover(op, o, evs, a, e, d, n, X) ==
  /\ CancelledIn(evs) \subseteq e
  /\ \A i \in Owing(a, e, d, n) : i # o.id => Covers(op, a, i)
  /\ ApplyUpdates(op, o, evs) \in OpenType
  /\ \A i \in Owing(a, e, d, n) : i \notin X => Covers(ApplyUpdates(op, o, evs), a, i)

(* Trades and decrements only add up. *)
Grows(a, c) == \A i \in Id : c[i].qty = a[i].qty /\ Used(c, i) >= Used(a, i)

LEMMA UsedNat ==
  ASSUME NEW a \in AcctType, NEW i \in Id
  PROVE  Used(a, i) \in Nat /\ a[i].qty \in Nat
  BY AcctNat DEF Used

LEMMA AddsGrows ==
  ASSUME NEW a \in AcctType, NEW c, NEW i \in Id, NEW n \in Nat, Adds(a, c, i, n)
  PROVE  /\ Grows(a, c) /\ c \in AcctType
         /\ Used(c, i) = Used(a, i) + n /\ c[i].qty = a[i].qty
         /\ \A j \in Id : j # i => c[j] = a[j]
  <1>1. c \in AcctType /\ (\A j \in Id : j # i => c[j] = a[j]) /\ c[i].qty = a[i].qty  BY DEF Adds
  <1>2. Used(c, i) = Used(a, i) + n  BY DEF Adds, Used
  <1>3. ASSUME NEW j \in Id PROVE c[j].qty = a[j].qty /\ Used(c, j) >= Used(a, j)
    <2>1. Used(a, j) \in Nat  BY UsedNat
    <2>2. CASE j = i  BY <1>1, <1>2, <2>1, <2>2
    <2>3. CASE j # i
      <3>1. c[j] = a[j]  BY <1>1, <2>3
      <3>2. Used(c, j) = Used(a, j)  BY <3>1 DEF Used
      <3> QED BY <2>1, <3>1, <3>2
    <2> QED BY <2>2, <2>3
  <1> QED BY <1>1, <1>2, <1>3 DEF Grows

LEMMA GrowsTwice ==
  ASSUME NEW a \in AcctType, NEW b \in AcctType, NEW c \in AcctType, Grows(a, b), Grows(b, c)
  PROVE  Grows(a, c)
  <1> SUFFICES ASSUME NEW i \in Id PROVE c[i].qty = a[i].qty /\ Used(c, i) >= Used(a, i)
    BY DEF Grows
  <1>1. Used(a, i) \in Nat /\ Used(b, i) \in Nat /\ Used(c, i) \in Nat  BY UsedNat
  <1> QED BY <1>1 DEF Grows

LEMMA CoversGrows ==
  ASSUME NEW op \in OpenType, NEW a \in AcctType, NEW c \in AcctType, Grows(a, c),
         NEW i \in Id, Covers(op, a, i)
  PROVE  Covers(op, c, i)
  <1>1. op[i] # None /\ op[i].remaining + Used(a, i) >= a[i].qty  BY DEF Covers
  <1>2. op[i] \in OpenOrder  BY <1>1 DEF OpenType
  <1>3. op[i].remaining \in Nat  BY <1>2 DEF OpenOrder
  <1>4. Used(a, i) \in Nat /\ Used(c, i) \in Nat /\ a[i].qty \in Nat  BY UsedNat
  <1>5. c[i].qty = a[i].qty /\ Used(c, i) >= Used(a, i)  BY DEF Grows
  <1> QED BY <1>1, <1>3, <1>4, <1>5 DEF Covers

LEMMA OwingGrows ==
  ASSUME NEW a \in AcctType, NEW c \in AcctType, Grows(a, c), NEW e, NEW f, e \subseteq f,
         NEW d, NEW g, d \subseteq g, NEW n
  PROVE  Owing(c, f, g, n) \subseteq Owing(a, e, d, n)
  <1> SUFFICES ASSUME NEW i \in Owing(c, f, g, n) PROVE i \in Owing(a, e, d, n)  OBVIOUS
  <1>1. i \in Id /\ i \in 1..n /\ i \notin e /\ i \notin d /\ Used(c, i) < c[i].qty  BY DEF Owing
  <1>2. Used(a, i) \in Nat /\ Used(c, i) \in Nat /\ a[i].qty \in Nat  BY <1>1, UsedNat
  <1>3. c[i].qty = a[i].qty /\ Used(c, i) >= Used(a, i)  BY <1>1 DEF Grows
  <1>4. Used(a, i) < a[i].qty  BY <1>1, <1>2, <1>3
  <1> QED BY <1>1, <1>4 DEF Owing

LEMMA QuietCover ==
  ASSUME NEW op \in OpenType, NEW o, NEW evs \in Seq(Event), NEW g \in Seq(Event), Quiet(g),
         NEW a \in AcctType, NEW c \in AcctType, Grows(a, c), NEW e, NEW h, h = e \cup CancelledIn(g),
         NEW d, NEW f, d \subseteq f, NEW n, NEW X, NEW Y,
         MatchCover(op, o, evs, a, e, d, n, X),
         \A i \in X : i \in Y \/ i \notin Owing(c, h, f, n)
  PROVE  MatchCover(op, o, evs \o g, c, h, f, n, Y)
  <1>1. PICK A, B : A = ApplyUpdates(op, o, evs) /\ B = ApplyUpdates(op, o, evs \o g)  OBVIOUS
  <1>2. A \in OpenType /\ CancelledIn(evs) \subseteq e  BY <1>1 DEF MatchCover
  <1>3. B \in OpenType /\ \A i \in Id : i \notin CancelledIn(g) => B[i] = A[i]
    BY <1>1, <1>2, QuietFold
  <1>4. CancelledIn(evs \o g) = CancelledIn(evs) \cup CancelledIn(g)  BY NamesJoin
  <1>5. ASSUME NEW i \in Owing(c, h, f, n)
        PROVE  /\ i # o.id => Covers(op, c, i)
               /\ i \notin Y => Covers(B, c, i)
    <2>1. i \in Id /\ i \notin h  BY DEF Owing
    <2>2. i \in Owing(a, e, d, n)
      <3>1. e \subseteq h  OBVIOUS
      <3> QED BY <3>1, OwingGrows
    <2>3. i # o.id => Covers(op, c, i)  BY <2>1, <2>2, CoversGrows DEF MatchCover
    <2>4. ASSUME i \notin Y PROVE Covers(B, c, i)
      <3>1. i \notin X  BY <2>4
      <3>2. Covers(A, a, i)  BY <1>1, <2>2, <3>1 DEF MatchCover
      <3>3. Covers(A, c, i)  BY <1>2, <2>1, <3>2, CoversGrows
      <3>4. B[i] = A[i]  BY <1>3, <2>1
      <3> QED BY <3>3, <3>4 DEF Covers
    <2> QED BY <2>3, <2>4
  <1> QED BY <1>1, <1>2, <1>3, <1>4, <1>5 DEF MatchCover

(* A fill reduces both entries by what both orders used. *)
LEMMA FilledCovers ==
  ASSUME NEW A \in OpenType, NEW o, NEW t \in Id, NEW m \in Id, t # m, NEW p, NEW q \in Nat,
         NEW B, B = ApplyUpdate(A, o, Filled(t, m, p, q))
  PROVE  /\ B \in OpenType
         /\ \A i \in Id : i # t /\ i # m => B[i] = A[i]
         /\ \A i \in {t, m} : A[i] # None /\ A[i].remaining > q
              => B[i] # None /\ B[i].remaining = A[i].remaining - q
  <1>1. PICK M : M = Decrement(A, m, q)  OBVIOUS
  <1>2. B = Decrement(M, t, q)
    <2>1. PICK e : e = Filled(t, m, p, q)  OBVIOUS
    <2>2. e.kind = "fill" /\ e.taker = t /\ e.maker = m /\ e.qty = q  BY <2>1 DEF Filled
    <2>3. ApplyUpdate(A, o, e) = Decrement(Decrement(A, e.maker, e.qty), e.taker, e.qty)
      BY <2>2 DEF ApplyUpdate
    <2> QED BY <1>1, <2>1, <2>2, <2>3
  <1>4. /\ M \in OpenType /\ \A j \in Id : j # m => M[j] = A[j]
        /\ A[m] # None /\ A[m].remaining > q => M[m] # None /\ M[m].remaining = A[m].remaining - q
    BY <1>1, DecrementFacts
  <1>5. /\ B \in OpenType /\ \A j \in Id : j # t => B[j] = M[j]
        /\ M[t] # None /\ M[t].remaining > q => B[t] # None /\ B[t].remaining = M[t].remaining - q
    BY <1>2, <1>4, DecrementFacts
  <1>6. \A i \in {t, m} : A[i] # None /\ A[i].remaining > q
              => B[i] # None /\ B[i].remaining = A[i].remaining - q
    BY <1>4, <1>5
  <1>7. \A i \in Id : i # t /\ i # m => B[i] = A[i]  BY <1>4, <1>5
  <1> QED BY <1>5, <1>6, <1>7

LEMMA FillCover ==
  ASSUME NEW op \in OpenType, NEW o, NEW evs \in Seq(Event),
         NEW a \in AcctType, NEW b, NEW c, NEW e, NEW d, NEW n, NEW X,
         MatchCover(op, o, evs, a, e, d, n, X),
         NEW t \in Id, NEW m \in Id, t # m, NEW p \in Price, NEW q \in Nat,
         Adds(a, b, t, q), Adds(b, c, m, q)
  PROVE  MatchCover(op, o, evs \o <<Filled(t, m, p, q)>>, c, e, d, n, X)
  <1>1. PICK v \in Event : v = Filled(t, m, p, q)  BY FilledEvent
  <1>2. <<v>> \in Seq(Event) /\ CancelledIn(<<v>>) = {}  BY <1>1, NamesNothing
  <1>3. /\ b \in AcctType /\ Grows(a, b) /\ Used(b, t) = Used(a, t) + q /\ b[t].qty = a[t].qty
        /\ \A j \in Id : j # t => b[j] = a[j]
    BY AddsGrows
  <1>4. /\ c \in AcctType /\ Grows(b, c) /\ Used(c, m) = Used(b, m) + q /\ c[m].qty = b[m].qty
        /\ \A j \in Id : j # m => c[j] = b[j]
    BY <1>3, AddsGrows
  <1>5. Grows(a, c)  BY <1>3, <1>4, GrowsTwice
  <1>6. /\ \A i \in {t, m} : Used(c, i) = Used(a, i) + q /\ c[i].qty = a[i].qty
        /\ \A i \in Id : i # t /\ i # m => c[i] = a[i]
    <2>1. Used(c, t) = Used(b, t) /\ c[t].qty = b[t].qty  BY <1>4 DEF Used
    <2>2. Used(b, m) = Used(a, m) /\ b[m].qty = a[m].qty  BY <1>3 DEF Used
    <2> QED BY <1>3, <1>4, <2>1, <2>2
  <1>7. PICK A, B : A = ApplyUpdates(op, o, evs) /\ B = ApplyUpdate(A, o, v)  OBVIOUS
  <1>8. ApplyUpdates(op, o, evs \o <<v>>) = B  BY <1>7, ApplyOneMore
  <1>9. A \in OpenType /\ CancelledIn(evs) \subseteq e  BY <1>7 DEF MatchCover
  <1>10. /\ B \in OpenType
         /\ \A i \in Id : i # t /\ i # m => B[i] = A[i]
         /\ \A i \in {t, m} : A[i] # None /\ A[i].remaining > q
              => B[i] # None /\ B[i].remaining = A[i].remaining - q
    <2>1. A \in OpenType /\ B = ApplyUpdate(A, o, Filled(t, m, p, q))  BY <1>1, <1>7, <1>9
    <2> QED BY ONLY <2>1, FilledCovers, t \in Id, m \in Id, t # m, q \in Nat
  <1>11. CancelledIn(evs \o <<v>>) \subseteq e  BY <1>2, <1>9, NamesJoin
  <1>12. ASSUME NEW i \in Owing(c, e, d, n)
         PROVE  /\ i # o.id => Covers(op, c, i)
                /\ i \notin X => Covers(B, c, i)
    <2>1. i \in Id /\ Used(c, i) < c[i].qty  BY DEF Owing
    <2>2. i \in Owing(a, e, d, n)  BY <1>4, <1>5, OwingGrows
    <2>3. i # o.id => Covers(op, c, i)  BY <1>4, <1>5, <2>1, <2>2, CoversGrows DEF MatchCover
    <2>4. ASSUME i \notin X PROVE Covers(B, c, i)
      <3>1. A[i] # None /\ A[i].remaining + Used(a, i) >= a[i].qty
        BY <1>7, <2>2, <2>4 DEF MatchCover, Covers
      <3>2. CASE i # t /\ i # m
        <4>1. B[i] = A[i] /\ c[i] = a[i]  BY <1>6, <1>10, <2>1, <3>2
        <4> QED BY <3>1, <4>1 DEF Covers, Used
      <3>3. CASE i \in {t, m}
        <4>1. Used(c, i) = Used(a, i) + q /\ c[i].qty = a[i].qty  BY <1>6, <3>3
        <4>2. A[i] \in OpenOrder  BY <1>9, <2>1, <3>1 DEF OpenType
        <4>3. A[i].remaining \in Nat  BY <4>2 DEF OpenOrder
        <4>4. Used(a, i) \in Nat /\ a[i].qty \in Nat  BY <2>1, UsedNat
        <4>5. A[i].remaining > q  BY <2>1, <3>1, <4>1, <4>3, <4>4
        <4>6. B[i] # None /\ B[i].remaining = A[i].remaining - q  BY <1>10, <3>1, <3>3, <4>5
        <4>7. B[i].remaining + Used(c, i) >= c[i].qty  BY <3>1, <4>1, <4>3, <4>4, <4>6
        <4> QED BY <4>6, <4>7 DEF Covers
      <3> QED BY <3>2, <3>3
    <2> QED BY <2>3, <2>4
  <1> QED BY <1>1, <1>8, <1>10, <1>11, <1>12 DEF MatchCover

(* An order that rests is entered with what it has left. *)
LEMMA RestCover ==
  ASSUME NEW op \in OpenType, NEW o \in Order, NEW evs \in Seq(Event),
         NEW a \in AcctType, NEW e, NEW d, NEW n, NEW X,
         MatchCover(op, o, evs, a, e, d, n, X), NEW k \in Order, Balanced(k, a),
         \/ k.id = o.id /\ X \subseteq {o.id}
         \/ k.id \in Owing(a, e, d, n) /\ X = {}
  PROVE  MatchCover(op, o, evs \o <<Rested(k)>>, a, e, d, n, {})
  <1>1. PICK v \in Event : v = Rested(k)  BY RestedEvent
  <1>2. v.kind = "rested" /\ v.id = k.id /\ v.remaining = k.remaining  BY <1>1 DEF Rested
  <1>3. <<v>> \in Seq(Event) /\ CancelledIn(<<v>>) = {}  BY <1>1, NamesNothing
  <1>4. k.id \in Id /\ k.user \in Users /\ k.remaining \in Nat /\ o.id \in Id /\ o.user \in Users
    BY DEF Order
  <1>5. PICK A, B : A = ApplyUpdates(op, o, evs) /\ B = ApplyUpdate(A, o, v)  OBVIOUS
  <1>6. ApplyUpdates(op, o, evs \o <<v>>) = B  BY <1>5, ApplyOneMore
  <1>7. A \in OpenType /\ CancelledIn(evs) \subseteq e  BY <1>5 DEF MatchCover
  <1>8. CancelledIn(evs \o <<v>>) \subseteq e  BY <1>3, <1>7, NamesJoin
  <1>9. PICK x \in OpenOrder : x.remaining = k.remaining /\ B = [A EXCEPT ![k.id] = x]
    <2>1. CASE k.id = o.id
      <3>1. PICK x : x = [user |-> o.user, remaining |-> k.remaining]  OBVIOUS
      <3>2. x \in OpenOrder /\ x.remaining = k.remaining  BY <1>4, <3>1 DEF OpenOrder
      <3>3. o # None  BY ConstantsAssumption
      <3>4. B = [A EXCEPT ![k.id] = x]  BY <1>2, <1>5, <2>1, <3>1, <3>3 DEF ApplyUpdate
      <3> QED BY <3>2, <3>4
    <2>2. CASE k.id # o.id
      <3>1. Covers(A, a, k.id)  BY <1>5, <2>2 DEF MatchCover
      <3>2. A[k.id] # None  BY <3>1 DEF Covers
      <3>3. A[k.id] \in OpenOrder  BY <1>4, <1>7, <3>2 DEF OpenType
      <3>4. PICK x : x = [A[k.id] EXCEPT !.remaining = k.remaining]  OBVIOUS
      <3>5. x \in OpenOrder /\ x.remaining = k.remaining  BY <1>4, <3>3, <3>4 DEF OpenOrder
      <3>6. B = [A EXCEPT ![k.id].remaining = k.remaining]
        <4>1. o.id # v.id  BY <1>2, <2>2
        <4> QED BY <1>2, <1>5, <3>2, <4>1 DEF ApplyUpdate
      <3> QED BY <3>4, <3>5, <3>6
    <2> QED BY <2>1, <2>2
  <1>10. B \in OpenType /\ B[k.id] = x /\ \A i \in Id : i # k.id => B[i] = A[i]
    BY <1>4, <1>7, <1>9 DEF OpenType
  <1>11. ASSUME NEW i \in Owing(a, e, d, n) PROVE Covers(B, a, i)
    <2>1. i \in Id  BY DEF Owing
    <2>2. CASE i = k.id
      <3>1. k.remaining + a[i].filled + a[i].cut = a[i].qty  BY <2>2 DEF Balanced
      <3>2. a[i].filled \in Nat /\ a[i].cut \in Nat /\ a[i].qty \in Nat  BY <2>1, AcctNat
      <3>3. k.remaining + Used(a, i) >= a[i].qty  BY <1>4, <3>1, <3>2 DEF Used
      <3>4. x # None  BY EngineAssumption
      <3> QED BY <1>9, <1>10, <2>2, <3>3, <3>4 DEF Covers
    <2>3. CASE i # k.id
      <3>1. i \notin X  BY <2>3
      <3>2. Covers(A, a, i)  BY <1>5, <3>1 DEF MatchCover
      <3>3. B[i] = A[i]  BY <1>10, <2>1, <2>3
      <3> QED BY <3>2, <3>3 DEF Covers
    <2> QED BY <2>2, <2>3
  <1>12. \A i \in Owing(a, e, d, n) : i # o.id => Covers(op, a, i)  BY DEF MatchCover
  <1> QED BY <1>1, <1>6, <1>8, <1>10, <1>11, <1>12 DEF MatchCover

-----------------------------------------------------------------------------
(* The steps of match_order. *)

LEMMA QuietLists ==
  /\ Quiet(<<>>)
  /\ \A i, why : Quiet(<<Cancelled(i, why)>>)
  /\ \A i, j, why : Quiet(<<Cancelled(i, why), Cancelled(j, why)>>)
  /\ \A b, i : Quiet(OcoEvents(b, i))
  /\ \A b, i, why : Quiet(CancelEvents(b, i, why))
  <1>1. Quiet(<<>>)  BY DEF Quiet
  <1>2. \A i, why : Quiet(<<Cancelled(i, why)>>)  BY DEF Quiet, Cancelled
  <1>3. ASSUME NEW i, NEW j, NEW why PROVE Quiet(<<Cancelled(i, why), Cancelled(j, why)>>)
    <2>1. PICK q : q = <<Cancelled(i, why), Cancelled(j, why)>>  OBVIOUS
    <2>2. DOMAIN q = {1, 2} /\ q[1] = Cancelled(i, why) /\ q[2] = Cancelled(j, why)  BY <2>1
    <2>3. q[1].kind = "cancelled" /\ q[2].kind = "cancelled"  BY <2>2 DEF Cancelled
    <2> QED BY <2>1, <2>2, <2>3 DEF Quiet
  <1>4. \A b, i, why : Quiet(CancelEvents(b, i, why))  BY <1>1, <1>2 DEF CancelEvents
  <1>5. \A b, i : Quiet(OcoEvents(b, i))  BY <1>1, <1>4 DEF OcoEvents
  <1> QED BY <1>1, <1>2, <1>3, <1>4, <1>5

LEMMA QuietJoin ==
  ASSUME NEW q \in Seq(Event), NEW r \in Seq(Event), Quiet(q), Quiet(r)
  PROVE  q \o r \in Seq(Event) /\ Quiet(q \o r)
  <1>1. PICK m, n, t : m = Len(q) /\ n = Len(r) /\ t = q \o r  OBVIOUS
  <1>2. m \in Nat /\ n \in Nat /\ DOMAIN q = 1..m /\ DOMAIN r = 1..n  BY <1>1
  <1>3. t \in Seq(Event) /\ Len(t) = m + n
        /\ \A j \in 1..(m + n) : t[j] = IF j <= m THEN q[j] ELSE r[j - m]
    BY <1>1, ConcatProperties
  <1>4. DOMAIN t = 1..(m + n)  BY <1>3
  <1>5. ASSUME NEW k \in 1..(m + n) PROVE t[k].kind \in {"cancelled", "stop_triggered"}
    <2>1. CASE k <= m
      <3>1. k \in 1..m /\ t[k] = q[k]  BY <1>2, <1>3, <2>1
      <3> QED BY <1>2, <3>1 DEF Quiet
    <2>2. CASE ~(k <= m)
      <3>1. k - m \in 1..n /\ t[k] = r[k - m]  BY <1>2, <1>3, <2>2
      <3> QED BY <1>2, <3>1 DEF Quiet
    <2> QED BY <2>1, <2>2
  <1> QED BY <1>1, <1>3, <1>4, <1>5 DEF Quiet

Busy(o, ph, tk) == IF ph = "match" /\ tk.id = o.id THEN {o.id} ELSE {}

(* The order in the matching loop is one that owes, unless used up. *)
LEMMA TakerOwes ==
  ASSUME BookInv, phase = "match"
  PROVE  /\ taker \in Order /\ Balanced(taker, acct)
         /\ taker.remaining > 0 => taker.id \in Owing(acct, ended, dropped, placed)
         /\ taker.remaining = 0 => taker.id \notin Owing(acct, ended, dropped, placed)
  <1>1. PICK S : S = Stock(book, work, triggered, phase, taker)  OBVIOUS
  <1>2. Fates(S, acct, ended, dropped, placed)  BY <1>1, InvFacts DEF Sound
  <1>3. taker \in Order  BY InvFacts
  <1>4. Shows(S, book, work, triggered, phase, taker)  BY <1>1, InvFacts, StockShows
  <1>5. taker \in S[TK] /\ TK \in Places  BY <1>4, PlaceNames DEF Shows
  <1>6. /\ taker.id \in 1..placed /\ taker.id \notin ended /\ taker.id \notin dropped
        /\ Balanced(taker, acct)
    BY <1>2, <1>5 DEF Fates
  <1>7. taker.id \in Id /\ taker.remaining \in Nat  BY <1>3 DEF Order
  <1>8. PICK i \in Id : i = taker.id  BY <1>7
  <1>9. acct[i].filled \in Nat /\ acct[i].cut \in Nat /\ acct[i].qty \in Nat  BY InvFacts, AcctNat
  <1>10. taker.remaining + acct[i].filled + acct[i].cut = acct[i].qty  BY <1>6, <1>8 DEF Balanced
  <1>11. Used(acct, i) = acct[i].filled + acct[i].cut  BY DEF Used
  <1>12. taker.remaining > 0 <=> Used(acct, i) < acct[i].qty  BY <1>7, <1>9, <1>10, <1>11
  <1> QED BY <1>3, <1>6, <1>7, <1>8, <1>12 DEF Owing

(* What the quiet steps have in common. *)
LEMMA QuietStepCover ==
  ASSUME BookInv, BookInv', NEW o \in Order, open \in OpenType,
         MatchCover(open, o, events, acct, ended, dropped, placed, Busy(o, phase, taker)),
         NEW g \in Seq(Event), Quiet(g), events' = events \o g,
         ended' = ended \cup CancelledIn(g), dropped \subseteq dropped', placed' = placed,
         Grows(acct, acct'),
         \/ phase # "match"
         \/ phase' = "match" /\ taker'.id = taker.id
         \/ taker.id \notin Owing(acct', ended', dropped', placed')
  PROVE  MatchCover(open, o, events', acct', ended', dropped', placed', Busy(o, phase', taker'))
  <1>1. events \in Seq(Event) /\ acct \in AcctType /\ acct' \in AcctType
    BY DEF BookInv, TypeOK
  <1>2. PICK X, Y : X = Busy(o, phase, taker) /\ Y = Busy(o, phase', taker')  OBVIOUS
  <1>3. \A i \in X : i \in Y \/ i \notin Owing(acct', ended', dropped', placed')
    BY <1>2 DEF Busy
  <1>0. PICK q \in Seq(Event), a \in AcctType, c \in AcctType : q = events /\ a = acct /\ c = acct'
    BY <1>1
  <1>9. PICK e, h, d, f, n : /\ e = ended /\ h = ended' /\ d = dropped
                             /\ f = dropped' /\ n = placed
    OBVIOUS
  <1>4. /\ q = events /\ a = acct /\ c = acct' /\ e = ended /\ h = ended' /\ d = dropped
        /\ f = dropped' /\ n = placed
    BY <1>0, <1>9
  <1>5. MatchCover(open, o, q, a, e, d, n, X)  BY <1>2, <1>4
  <1>6. \A i \in X : i \in Y \/ i \notin Owing(c, h, f, n)  BY <1>3, <1>4
  <1>7. Grows(a, c) /\ h = e \cup CancelledIn(g) /\ d \subseteq f  BY <1>4
  <1>8. MatchCover(open, o, q \o g, c, h, f, n, Y)
    BY ONLY <1>5, <1>6, <1>7, QuietCover, open \in OpenType, q \in Seq(Event), g \in Seq(Event),
            Quiet(g), a \in AcctType, c \in AcctType
  <1> QED BY <1>2, <1>4, <1>8

LEMMA SameGrows ==
  ASSUME NEW a \in AcctType
  PROVE  Grows(a, a)
  <1>1. \A i \in Id : Used(a, i) \in Nat  BY UsedNat
  <1> QED BY <1>1 DEF Grows

LEMMA StpCover ==
  ASSUME BookInv, BookInv', NEW o \in Order, open \in OpenType,
         MatchCover(open, o, events, acct, ended, dropped, placed, Busy(o, phase, taker)),
         NEW p \in Price, ApplyStp(p)
  PROVE  MatchCover(open, o, events', acct', ended', dropped', placed', Busy(o, phase', taker'))
  <1>1. Matching(p) /\ dropped' = dropped /\ placed' = placed
    BY DEF ApplyStp, StpCancelTaker, StpCancelMaker, StpCutMaker, StpCutTaker, StpCutBoth, SelfMatch
  <1>2. PICK i \in Id, j \in Id : i = taker.id /\ j = Maker(p).id  BY <1>1, MatchingSound
  <1>3. taker \in Order /\ taker.remaining \in Nat /\ taker.remaining > 0
        /\ Maker(p).remaining \in Nat /\ phase = "match"
    BY <1>1, MatchingSound
  <1>4. Cancelled(i, "stp") \in Event /\ Cancelled(j, "stp") \in Event  BY CancelledEvent DEF Reason
  <1>5. PICK g : /\ events' = events \o g /\ ended' = ended \cup CancelledIn(g)
                 /\ \/ g = <<Cancelled(i, "stp")>>
                    \/ g = <<Cancelled(j, "stp")>> /\ phase' = phase /\ taker'.id = taker.id
                    \/ g = <<Cancelled(j, "stp"), Cancelled(i, "stp")>>
    <2>1. CASE StpCancelTaker(p)  BY <1>2, <2>1 DEF StpCancelTaker, Emit
    <2>2. CASE StpCancelMaker(p)  BY <1>2, <2>2 DEF StpCancelMaker, Emit
    <2>3. CASE StpCutMaker(p)  BY <1>2, <2>3 DEF StpCutMaker, Emit
    <2>4. CASE StpCutTaker(p)
      <3>1. taker'.id = taker.id  BY <1>3, <2>4 DEF StpCutTaker, Order
      <3> QED BY <1>2, <2>4, <3>1 DEF StpCutTaker, Emit
    <2>5. CASE StpCutBoth(p)  BY <1>2, <2>5 DEF StpCutBoth, Emit
    <2> QED BY <2>1, <2>2, <2>3, <2>4, <2>5 DEF ApplyStp
  <1>6. g \in Seq(Event)
    <2>1. <<Cancelled(i, "stp")>> \in Seq(Event) /\ <<Cancelled(j, "stp")>> \in Seq(Event)  BY <1>4
    <2>2. <<Cancelled(j, "stp"), Cancelled(i, "stp")>> \in Seq(Event)  BY <1>4
    <2> QED BY <1>5, <2>1, <2>2
  <1>7. Quiet(g)  BY <1>5, QuietLists
  <1>8. Grows(acct, acct')
    <2>0. PICK a \in AcctType : a = acct  BY InvFacts
    <2>1. CASE acct' = acct  BY <2>0, <2>1, SameGrows
    <2>2. CASE StpCutMaker(p)
      <3>1. PICK r \in Nat : r = taker.remaining  BY <1>3
      <3>2. PICK b \in AcctType : b = AddCut(a, i, r)  BY AcctUpdate
      <3>3. PICK c \in AcctType : c = AddCut(b, j, r)  BY AcctUpdate
      <3>4. acct' = c  BY <1>2, <2>0, <2>2, <3>1, <3>2, <3>3 DEF StpCutMaker
      <3>5. Adds(a, b, i, r) /\ Adds(b, c, j, r)  BY <3>2, <3>3, AddsFacts
      <3>6. Grows(a, b) /\ Grows(b, c)  BY <3>5, AddsGrows
      <3> QED BY <2>0, <3>4, <3>6, GrowsTwice
    <2>3. CASE StpCutTaker(p) \/ StpCutBoth(p)
      <3>1. PICK r \in Nat : acct' = AddCut(a, i, r)
        BY <1>2, <1>3, <2>0, <2>3 DEF StpCutTaker, StpCutBoth
      <3>2. PICK b \in AcctType : b = AddCut(a, i, r)  BY AcctUpdate
      <3>3. Adds(a, b, i, r)  BY <3>2, AddsFacts
      <3>4. Grows(a, b)  BY <3>3, AddsGrows
      <3> QED BY <2>0, <3>1, <3>2, <3>4
    <2>4. StpCancelTaker(p) \/ StpCancelMaker(p) => acct' = acct  BY DEF StpCancelTaker, StpCancelMaker
    <2> QED BY <2>1, <2>2, <2>3, <2>4 DEF ApplyStp
  <1>9. (phase' = "match" /\ taker'.id = taker.id) \/ taker.id \notin Owing(acct', ended', dropped', placed')
    <2>1. CASE g = <<Cancelled(i, "stp")>> \/ g = <<Cancelled(j, "stp"), Cancelled(i, "stp")>>
      <3>1. i \in CancelledIn(g)  BY <2>1, NamesOne, NamesTwo
      <3>2. i \in ended'  BY <1>5, <3>1
      <3> QED BY <1>2, <3>2 DEF Owing
    <2> QED BY <1>3, <1>5, <2>1
  <1>10. dropped \subseteq dropped'  BY <1>1
  <1> QED BY ONLY <1>1, <1>5, <1>6, <1>7, <1>8, <1>9, <1>10, QuietStepCover, BookInv, BookInv', o \in Order,
            open \in OpenType,
            MatchCover(open, o, events, acct, ended, dropped, placed, Busy(o, phase, taker))

LEMMA FillsCover ==
  ASSUME BookInv, BookInv', NEW o \in Order, open \in OpenType,
         MatchCover(open, o, events, acct, ended, dropped, placed, Busy(o, phase, taker)),
         NEW p \in Price, Fill(p)
  PROVE  MatchCover(open, o, events', acct', ended', dropped', placed', Busy(o, phase', taker'))
  <1>1. Matching(p)  BY DEF Fill, FillMaker, FillPart
  <1>2. PICK t \in Id, m \in Id : t = taker.id /\ m = Maker(p).id /\ t # m  BY <1>1, MatchingSound
  <1>3. PICK q \in Nat : q = MinOf(taker.remaining, Effective(Maker(p))) /\ taker.remaining - q \in Nat
    BY <1>1, QtyFacts
  <1>4. taker \in Order /\ phase = "match" /\ Opposite(taker.side) \in Side
        /\ book.level[Opposite(taker.side)][p] # <<>>
    BY <1>1, MatchingSound
  <1>5. PICK f \in Event : f = Filled(t, m, p, q)  BY FilledEvent
  <1>6. <<f>> \in Seq(Event) /\ CancelledIn(<<f>>) = {}  BY <1>5, NamesNothing
  <1>7. Trade(p, q)  BY <1>3 DEF Fill, FillMaker, FillPart
  <1>8. /\ taker'.id = taker.id /\ phase' = phase /\ dropped' = dropped /\ placed' = placed
        /\ acct' = AddFilled(AddFilled(acct, t, q), m, q)
    BY <1>2, <1>4, <1>7 DEF Trade, Order
  <1>9. PICK X : X = Busy(o, phase, taker) /\ X = Busy(o, phase', taker')  BY <1>8 DEF Busy
  <1>26. PICK w \in Seq(Event), a \in AcctType : w = events /\ a = acct  BY DEF BookInv, TypeOK
  <1>27. PICK e, d, n : e = ended /\ d = dropped /\ n = placed  OBVIOUS
  <1>10. w = events /\ a = acct /\ e = ended /\ d = dropped /\ n = placed  BY <1>26, <1>27
  <1>11. PICK b \in AcctType : b = AddFilled(a, t, q)  BY AcctUpdate
  <1>12. PICK c \in AcctType : c = AddFilled(b, m, q)  BY AcctUpdate
  <1>13. Adds(a, b, t, q) /\ Adds(b, c, m, q) /\ acct' = c  BY <1>8, <1>10, <1>11, <1>12, AddsFacts
  <1>14. MatchCover(open, o, w, a, e, d, n, X)  BY <1>9, <1>10
  <1>15. MatchCover(open, o, w \o <<Filled(t, m, p, q)>>, c, e, d, n, X)
    BY ONLY <1>2, <1>13, <1>14, FillCover, open \in OpenType, w \in Seq(Event), a \in AcctType,
            t \in Id, m \in Id, p \in Price, q \in Nat
  <1>16. PICK g \in Seq(Event) : Quiet(g) /\ Emit(<<f>> \o g)
    <2>1. CASE FillMaker(p)
      <3>1. PICK k : k = PopFrontMaker(book, Opposite(taker.side), p)  OBVIOUS
      <3>2. k \in BookType  BY <1>4, <3>1, InvFacts, PopFrontType
      <3>3. PICK g : g = OcoEvents(k, m)  OBVIOUS
      <3>4. g \in Seq(Event) /\ Quiet(g)  BY <3>2, <3>3, OcoEventsType, QuietLists
      <3>5. Emit(<<f>> \o g)  BY <1>2, <1>3, <1>5, <2>1, <3>1, <3>3 DEF FillMaker
      <3> QED BY <3>4, <3>5
    <2>2. CASE FillPart(p)
      <3>1. Emit(<<f>>)  BY <1>2, <1>3, <1>5, <2>2 DEF FillPart
      <3>2. <<f>> \o <<>> = <<f>>  BY <1>6, ConcatEmptySeq
      <3>3. <<>> \in Seq(Event) /\ Quiet(<<>>)  BY QuietLists
      <3> QED BY <3>1, <3>2, <3>3
    <2> QED BY <2>1, <2>2 DEF Fill
  <1>17. PICK r \in Seq(Event) : r = w \o <<f>>
    <2>1. PICK u : u = <<f>>  OBVIOUS
    <2>2. u \in Seq(Event)  BY <1>6, <2>1
    <2>3. PICK r : r = w \o u  OBVIOUS
    <2>4. r \in Seq(Event)  BY <2>2, <2>3, ConcatProperties
    <2> QED BY <2>1, <2>3, <2>4
  <1>18. events' = r \o g
    <2>1. events' = w \o (<<f>> \o g)  BY <1>10, <1>16 DEF Emit
    <2> QED BY <1>6, <1>17, <2>1, ConcatAssociative
  <1>19. ended' = e \cup CancelledIn(g)
    <2>1. ended' = e \cup CancelledIn(<<f>> \o g)  BY <1>10, <1>16 DEF Emit
    <2>2. CancelledIn(<<f>> \o g) = CancelledIn(<<f>>) \cup CancelledIn(g)  BY <1>6, NamesJoin
    <2> QED BY <1>6, <2>1, <2>2
  <1>20. PICK h : h = e \cup CancelledIn(g)  OBVIOUS
  <1>21. MatchCover(open, o, r, c, e, d, n, X)  BY <1>5, <1>15, <1>17
  <1>22. Grows(c, c)  BY SameGrows
  <1>23. \A i \in X : i \in X \/ i \notin Owing(c, h, d, n)  OBVIOUS
  <1>24. d \subseteq d  OBVIOUS
  <1>25. MatchCover(open, o, r \o g, c, h, d, n, X)
    BY ONLY <1>16, <1>20, <1>21, <1>22, <1>23, <1>24, QuietCover, open \in OpenType, r \in Seq(Event),
            g \in Seq(Event), c \in AcctType
  <1> QED BY <1>8, <1>9, <1>10, <1>13, <1>18, <1>19, <1>20, <1>25

LEMMA FinalizeCover ==
  ASSUME BookInv, BookInv', NEW o \in Order, open \in OpenType,
         MatchCover(open, o, events, acct, ended, dropped, placed, Busy(o, phase, taker)),
         Finalize
  PROVE  MatchCover(open, o, events', acct', ended', dropped', placed', Busy(o, phase', taker'))
  <1>1. phase = "match" /\ phase' = "drain" /\ UNCHANGED <<taker, placed, acct, dropped>>
    BY DEF Finalize, FinalizeRested, FinalizeEnded, LoopDone
  <1>2. /\ taker \in Order /\ Balanced(taker, acct)
        /\ taker.remaining > 0 => taker.id \in Owing(acct, ended, dropped, placed)
        /\ taker.remaining = 0 => taker.id \notin Owing(acct, ended, dropped, placed)
    BY <1>1, TakerOwes
  <1>3. CASE FinalizeRested
    <2>1. taker.remaining > 0 /\ Emit(<<Rested(taker)>>)  BY <1>3 DEF FinalizeRested, MayRest
    <2>2. PICK w \in Seq(Event), a \in AcctType, k \in Order : w = events /\ a = acct /\ k = taker
      BY <1>2 DEF BookInv, TypeOK
    <2>3. PICK e, d, n, X : e = ended /\ d = dropped /\ n = placed /\ X = Busy(o, phase, taker)  OBVIOUS
    <2>4. MatchCover(open, o, w, a, e, d, n, X)  BY <2>2, <2>3
    <2>5. (k.id = o.id /\ X \subseteq {o.id}) \/ (k.id \in Owing(a, e, d, n) /\ X = {})
      BY <1>2, <2>1, <2>2, <2>3 DEF Busy
    <2>6. Balanced(k, a)  BY <1>2, <2>2
    <2>7. MatchCover(open, o, w \o <<Rested(k)>>, a, e, d, n, {})
      BY ONLY <2>4, <2>5, <2>6, RestCover, open \in OpenType, o \in Order, w \in Seq(Event),
              a \in AcctType, k \in Order
    <2>8. events' = w \o <<Rested(k)>> /\ ended' = e
      <3>1. CancelledIn(<<Rested(taker)>>) = {}  BY NamesNothing
      <3> QED BY <2>1, <2>2, <2>3, <3>1 DEF Emit
    <2>9. Busy(o, phase', taker') = {}  BY <1>1 DEF Busy
    <2> QED BY <1>1, <2>2, <2>3, <2>7, <2>8, <2>9
  <1>4. CASE FinalizeEnded
    <2>1. PICK k \in Order : k = taker  BY <1>2
    <2>2. PICK i \in Id : i = k.id /\ k.remaining \in Nat  BY DEF Order
    <2>3. PICK q, r : /\ q = IF k.remaining = 0 THEN <<>> ELSE <<Cancelled(i, FinalReason(k))>>
                      /\ r = OcoEvents(book, i)
      OBVIOUS
    <2>4. Emit(q \o r)  BY <1>4, <2>1, <2>2, <2>3 DEF FinalizeEnded
    <2>5. q \in Seq(Event) /\ Quiet(q)
      <3>1. FinalReason(k) \in Reason  BY DEF FinalReason, Reason
      <3>2. Cancelled(i, FinalReason(k)) \in Event  BY <3>1, CancelledEvent
      <3>3. <<Cancelled(i, FinalReason(k))>> \in Seq(Event) /\ <<>> \in Seq(Event)  BY <3>2
      <3> QED BY <2>3, <3>3, QuietLists
    <2>6. r \in Seq(Event) /\ Quiet(r)  BY <2>3, InvFacts, OcoEventsType, QuietLists
    <2>7. PICK g : g = q \o r  OBVIOUS
    <2>8. g \in Seq(Event) /\ Quiet(g) /\ CancelledIn(g) = CancelledIn(q) \cup CancelledIn(r)
      BY <2>5, <2>6, <2>7, QuietJoin, NamesJoin
    <2>9. events' = events \o g /\ ended' = ended \cup CancelledIn(g)  BY <2>4, <2>7 DEF Emit
    <2>10. taker.id \notin Owing(acct', ended', dropped', placed')
      <3>1. CASE k.remaining = 0
        <4>1. i \notin Owing(acct, ended, dropped, placed)  BY <1>2, <2>1, <2>2, <3>1
        <4> QED BY <1>1, <2>1, <2>2, <2>9, <4>1 DEF Owing
      <3>2. CASE k.remaining # 0
        <4>1. q = <<Cancelled(i, FinalReason(k))>>  BY <2>3, <3>2
        <4>2. CancelledIn(q) = {i}  BY <4>1, NamesOne
        <4>3. i \in ended'  BY <2>8, <2>9, <4>2
        <4> QED BY <2>1, <2>2, <4>3 DEF Owing
      <3> QED BY <3>1, <3>2
    <2>11. Grows(acct, acct')  BY <1>1, InvFacts, SameGrows
    <2>12. dropped \subseteq dropped' /\ placed' = placed  BY <1>1
    <2> QED BY ONLY <2>8, <2>9, <2>10, <2>11, <2>12, QuietStepCover, BookInv, BookInv', o \in Order,
            open \in OpenType,
            MatchCover(open, o, events, acct, ended, dropped, placed, Busy(o, phase, taker))
  <1> QED BY <1>3, <1>4 DEF Finalize

LEMMA DrainCover ==
  ASSUME BookInv, BookInv', NEW o \in Order, open \in OpenType,
         MatchCover(open, o, events, acct, ended, dropped, placed, Busy(o, phase, taker)),
         (\E s \in Side, p \in Price : DrainStops(s, p)) \/ NextInQueue \/ CommandDone
  PROVE  MatchCover(open, o, events', acct', ended', dropped', placed', Busy(o, phase', taker'))
  <1>1. phase = "drain" /\ UNCHANGED <<placed, acct, ended>> /\ dropped \subseteq dropped'
    BY DEF DrainStops, NextInQueue, CommandDone, RunDone, AccountTriggered, hist
  <1>2. events \in Seq(Event)  BY DEF BookInv, TypeOK
  <1>3. PICK g \in Seq(Event) : Quiet(g) /\ events' = events \o g /\ CancelledIn(g) = {}
    <2>1. CASE events' = events
      <3>1. events' = events \o <<>>  BY <1>2, <2>1, ConcatEmptySeq
      <3>2. <<>> \in Seq(Event) /\ Quiet(<<>>) /\ CancelledIn(<<>>) = {}  BY QuietLists, NamesNothing
      <3> QED BY <3>1, <3>2
    <2>2. CASE (NextInQueue \/ CommandDone) /\ Cascade
      <3>1. PICK g : g = [j \in 1..Len(triggered) |-> StopTriggered(triggered[j].id)]  OBVIOUS
      <3>2. events' = events \o g  BY <2>2, <3>1 DEF AccountTriggered, NextInQueue, CommandDone
      <3>3. triggered \in Seq(Order)  BY InvFacts
      <3>4. PICK n \in Nat : n = Len(triggered) /\ \A j \in 1..n : triggered[j] \in Order  BY <3>3
      <3>5. \A j \in 1..n : StopTriggered(triggered[j].id) \in Event
        BY <3>4, TriggeredEvent DEF Order
      <3>6. g \in [1..n -> Event]  BY <3>1, <3>4, <3>5
      <3>7. g \in Seq(Event)  BY <3>6
      <3>8. \A j \in DOMAIN g : g[j].kind = "stop_triggered"  BY <3>1 DEF StopTriggered
      <3>9. Quiet(g) /\ CancelledIn(g) = {}  BY <3>8 DEF Quiet, CancelledIn
      <3> QED BY <3>2, <3>7, <3>9
    <2>3. CASE (NextInQueue \/ CommandDone) /\ ~Cascade
      BY <2>1, <2>3 DEF AccountTriggered, NextInQueue, CommandDone
    <2>4. CASE \E s \in Side, p \in Price : DrainStops(s, p)
      BY <2>1, <2>4 DEF DrainStops
    <2> QED BY <2>2, <2>3, <2>4
  <1>4. ended' = ended \cup CancelledIn(g) /\ placed' = placed  BY <1>1, <1>3
  <1>5. Grows(acct, acct')  BY <1>1, InvFacts, SameGrows
  <1>6. phase # "match" /\ dropped \subseteq dropped'  BY <1>1
  <1> QED BY ONLY <1>3, <1>4, <1>5, <1>6, QuietStepCover, BookInv, BookInv', o \in Order,
            open \in OpenType,
            MatchCover(open, o, events, acct, ended, dropped, placed, Busy(o, phase, taker))

LEMMA StepCover ==
  ASSUME BookInv, BookInv', NEW o \in Order, open \in OpenType,
         MatchCover(open, o, events, acct, ended, dropped, placed, Busy(o, phase, taker)),
         Step
  PROVE  MatchCover(open, o, events', acct', ended', dropped', placed', Busy(o, phase', taker'))
  BY FillsCover, StpCover, FinalizeCover, DrainCover DEF Step

-----------------------------------------------------------------------------
(* The server's steps. *)

Placing == cmd # None /\ cmd.kind = "place"

CoverInv ==
  /\ open \in OpenType
  /\ Placing => MatchCover(open, cmd.order, events, acct, ended, dropped, placed,
                           Busy(cmd.order, phase, taker))
  /\ ~Placing => /\ phase = "idle"
                 /\ \A i \in Owing(acct, ended, dropped, placed) : Covers(open, acct, i)

(* A new order: the others owe what they owed. *)
LEMMA PlaceCover ==
  ASSUME BookInv, BookInv', NEW o \in Inputs, Place(o), open \in OpenType,
         \A i \in Owing(acct, ended, dropped, placed) : Covers(open, acct, i)
  PROVE  MatchCover(open, o, events', acct', ended', dropped', placed', Busy(o, phase', taker'))
  <1>1. o \in Order /\ o.id \in Id  BY ConstantsAssumption DEF Order
  <1>2. /\ phase = "idle" /\ o.id = placed + 1 /\ placed' = placed + 1 /\ dropped' = dropped
        /\ acct' = [acct EXCEPT ![o.id] = [qty |-> o.quantity, filled |-> 0, cut |-> 0]]
    BY DEF Place, PlaceRejected, PlaceStop, PlaceActive, Submit
  <1>3. PICK a \in AcctType, c \in AcctType : a = acct /\ c = acct'  BY DEF BookInv, TypeOK
  <1>4. \A i \in Id : i # o.id => c[i] = a[i]
    BY <1>1, <1>2, <1>3 DEF AcctType
  <1>5. placed \in Nat  BY InvFacts, ConstantsAssumption
  <1>6. ended \subseteq ended'  BY DEF Place, PlaceRejected, PlaceStop, PlaceActive, Output
  <1>7. ASSUME NEW i \in Owing(acct', ended', dropped', placed'), i # o.id
        PROVE  i \in Owing(acct, ended, dropped, placed) /\ Covers(open, acct', i)
    <2>1. i \in Id /\ i \in 1..placed' /\ i \notin ended' /\ i \notin dropped' /\ Used(c, i) < c[i].qty
      BY <1>3 DEF Owing
    <2>2. i \in 1..placed  BY <1>2, <1>5, <1>7, <2>1
    <2>3. Used(c, i) = Used(a, i) /\ c[i] = a[i]  BY <1>4, <1>7, <2>1 DEF Used
    <2>4. i \in Owing(acct, ended, dropped, placed)  BY <1>2, <1>3, <1>6, <2>1, <2>2, <2>3 DEF Owing
    <2>5. Covers(open, acct, i)  BY <2>4
    <2> QED BY <1>3, <2>3, <2>4, <2>5 DEF Covers
  <1>8. PICK w : w = <<>>  OBVIOUS
  <1>9. w \in Seq(Event) /\ CancelledIn(w) = {} /\ ApplyUpdates(open, o, w) = open
    BY <1>8, NamesNothing, ApplyNothing
  <1>10. MatchCover(open, o, w, c, ended', dropped', placed', {o.id})
    BY <1>3, <1>7, <1>9 DEF MatchCover
  <1>11. CASE PlaceRejected(o)
    <2>1. PICK g : g = <<Cancelled(o.id, RejectReason(o))>>  OBVIOUS
    <2>2. events' = g /\ ended' = ended \cup CancelledIn(g) /\ CancelledIn(g) = {o.id}
      BY <1>11, <2>1, NamesOne DEF PlaceRejected, Output
    <2>3. g \in Seq(Event) /\ Quiet(g)
      <3>1. RejectReason(o) \in Reason  BY DEF RejectReason, Reason
      <3>2. Cancelled(o.id, RejectReason(o)) \in Event  BY <1>1, <3>1, CancelledEvent
      <3> QED BY <2>1, <3>2, QuietLists
    <2>4. PICK e, d, n : e = ended' /\ d = dropped' /\ n = placed'  OBVIOUS
    <2>5. e = e \cup CancelledIn(g)  BY <2>2, <2>4
    <2>6. o.id \notin Owing(c, e, d, n)  BY <2>2, <2>4 DEF Owing
    <2>7. \A i \in {o.id} : i \in {} \/ i \notin Owing(c, e, d, n)  BY <2>6
    <2>8. MatchCover(open, o, w, c, e, d, n, {o.id}) /\ Grows(c, c) /\ d \subseteq d
      BY <1>10, <2>4, SameGrows
    <2>9. MatchCover(open, o, w \o g, c, e, d, n, {})
      BY ONLY <1>9, <2>3, <2>5, <2>7, <2>8, QuietCover, open \in OpenType, c \in AcctType
    <2>10. w \o g = g  BY <1>8, <2>3, ConcatEmptySeq
    <2>11. Busy(o, phase', taker') = {}  BY <1>2, <1>11 DEF PlaceRejected, Busy
    <2> QED BY <1>3, <2>2, <2>4, <2>9, <2>10, <2>11
  <1>12. CASE PlaceStop(o)
    <2>1. PICK g : g = <<Rested(o)>>  OBVIOUS
    <2>2. events' = g  BY <1>12, <2>1 DEF PlaceStop, Output
    <2>3. g \in Seq(Event)
      <3>1. Rested(o) \in Event  BY <1>1, RestedEvent
      <3> QED BY <2>1, <3>1
    <2>4. PICK e, d, n : e = ended' /\ d = dropped' /\ n = placed'  OBVIOUS
    <2>5. Balanced(o, c)
      <3>1. c[o.id] = [qty |-> o.quantity, filled |-> 0, cut |-> 0]  BY <1>1, <1>2, <1>3 DEF AcctType
      <3>2. o.remaining = o.quantity /\ o.remaining \in Nat  BY <1>1, ConstantsAssumption DEF Order
      <3>3. c[o.id].qty = o.quantity /\ c[o.id].filled = 0 /\ c[o.id].cut = 0  BY <3>1
      <3> QED BY <3>2, <3>3 DEF Balanced
    <2>6. MatchCover(open, o, w, c, e, d, n, {o.id})  BY <1>10, <2>4
    <2>7. o.id = o.id /\ {o.id} \subseteq {o.id}  OBVIOUS
    <2>8. MatchCover(open, o, w \o <<Rested(o)>>, c, e, d, n, {})
      BY ONLY <1>1, <1>9, <2>5, <2>6, <2>7, RestCover, open \in OpenType, c \in AcctType
    <2>9. w \o <<Rested(o)>> = g  BY <1>8, <2>1, <2>3, ConcatEmptySeq
    <2>10. Busy(o, phase', taker') = {}  BY <1>2, <1>12 DEF PlaceStop, Busy
    <2> QED BY <1>3, <2>2, <2>4, <2>8, <2>9, <2>10
  <1>13. CASE PlaceActive(o)
    <2>1. events' = w /\ phase' = "match" /\ taker' = o  BY <1>8, <1>13 DEF PlaceActive, Output
    <2>2. Busy(o, phase', taker') = {o.id}  BY <2>1 DEF Busy
    <2> QED BY <1>3, <1>10, <2>1, <2>2
  <1> QED BY <1>11, <1>12, <1>13 DEF Place

(* cancel_order: the entries of the orders it names go. *)
LEMMA CancelCover ==
  ASSUME BookInv, BookInv', NEW i \in Id, CancelOrder(i), open \in OpenType,
         \A k \in Owing(acct, ended, dropped, placed) : Covers(open, acct, k)
  PROVE  /\ phase' = "idle" /\ ApplyUpdates(open, None, events') \in OpenType
         /\ \A k \in Owing(acct', ended', dropped', placed') :
              Covers(ApplyUpdates(open, None, events'), acct', k)
  <1>1. phase = "idle" /\ UNCHANGED <<ctl, acct, dropped>>  BY DEF CancelOrder
  <1>2. PICK l : l = book.oco[i]  OBVIOUS
  <1>3. l \in Id \cup {None}  BY <1>2, BookParts, InvFacts
  <1>4. PICK b, c : b = Unlink(book, i) /\ c = CancelInternal(b, i)  OBVIOUS
  <1>5. PICK q, r : q = CancelEvents(b, i, "admin_cancel")
                    /\ r = IF l = None THEN <<>> ELSE CancelEvents(c, l, "oco")
    OBVIOUS
  <1>6. events' = q \o r /\ ended' = ended \cup CancelledIn(q \o r)
    BY <1>2, <1>4, <1>5 DEF CancelOrder, Output
  <1>7. q \in Seq(Event) /\ Quiet(q)  BY <1>5, CancelEventsType, QuietLists DEF Reason
  <1>8. r \in Seq(Event) /\ Quiet(r)
    <2>1. CASE l = None  BY <1>5, <2>1, QuietLists
    <2>2. CASE l # None
      <3>1. l \in Id /\ r = CancelEvents(c, l, "oco")  BY <1>3, <1>5, <2>2
      <3> QED BY <3>1, CancelEventsType, QuietLists DEF Reason
    <2> QED BY <2>1, <2>2
  <1>9. PICK g : g = q \o r  OBVIOUS
  <1>10. g \in Seq(Event) /\ Quiet(g)  BY <1>7, <1>8, <1>9, QuietJoin
  <1>11. PICK w : w = <<>>  OBVIOUS
  <1>12. w \in Seq(Event) /\ ApplyUpdates(open, None, w) = open /\ w \o g = g
    BY <1>10, <1>11, ApplyNothing, ConcatEmptySeq
  <1>13. PICK B : B = ApplyUpdates(open, None, g)  OBVIOUS
  <1>14. B \in OpenType /\ \A k \in Id : k \notin CancelledIn(g) => B[k] = open[k]
    <2>1. ApplyUpdates(open, None, w) \in OpenType  BY <1>12
    <2>2. /\ ApplyUpdates(open, None, w \o g) \in OpenType
          /\ \A k \in Id : k \notin CancelledIn(g) =>
               ApplyUpdates(open, None, w \o g)[k] = ApplyUpdates(open, None, w)[k]
      <3>1. PICK op, sub : op = open /\ sub = None  OBVIOUS
      <3>2. w \in Seq(Event) /\ ApplyUpdates(op, sub, w) \in OpenType  BY <1>12, <2>1, <3>1
      <3>3. /\ ApplyUpdates(op, sub, w \o g) \in OpenType
            /\ \A k \in Id : k \notin CancelledIn(g) =>
                 ApplyUpdates(op, sub, w \o g)[k] = ApplyUpdates(op, sub, w)[k]
        BY ONLY <1>10, <3>2, QuietFold
      <3> QED BY <3>1, <3>3
    <2> QED BY <1>12, <1>13, <2>2
  <1>15. ASSUME NEW k \in Owing(acct', ended', dropped', placed') PROVE Covers(B, acct', k)
    <2>1. k \in Owing(acct, ended, dropped, placed) /\ k \in Id /\ k \notin CancelledIn(g)
      BY <1>1, <1>6, <1>9 DEF Owing, ctl
    <2>2. Covers(open, acct, k) /\ B[k] = open[k]  BY <1>14, <2>1
    <2> QED BY <1>1, <2>2 DEF Covers
  <1>16. phase' = "idle"  BY <1>1 DEF ctl
  <1> QED BY <1>6, <1>9, <1>13, <1>14, <1>15, <1>16

LEMMA SameCover ==
  ASSUME CoverInv, UNCHANGED <<vars, open>>, ~Placing, ~Placing'
  PROVE  CoverInv'
  <1>1. UNCHANGED <<phase, acct, ended, dropped, placed, open>>  BY DEF vars
  <1> QED BY <1>1 DEF CoverInv

(* The updates of the command in progress are applied. *)
LEMMA AppliedCover ==
  ASSUME CoverInv, Placing, phase = "idle", UNCHANGED vars,
         open' = ApplyUpdates(open, cmd.order, events), ~Placing'
  PROVE  CoverInv'
  <1>1. UNCHANGED <<phase, acct, ended, dropped, placed>>  BY DEF vars
  <1>2. Busy(cmd.order, phase, taker) = {}  BY DEF Busy
  <1>3. MatchCover(open, cmd.order, events, acct, ended, dropped, placed, {})
    BY <1>2 DEF CoverInv
  <1>4. open' \in OpenType
    /\ \A i \in Owing(acct, ended, dropped, placed) : Covers(open', acct, i)
    BY <1>3 DEF MatchCover
  <1> QED BY <1>1, <1>4 DEF CoverInv

(* An order that match_order refused is named by a cancel: leaving the     *)
(* entries alone leaves every order that may be live with its own.         *)
LEMMA RejectedCover ==
  ASSUME CoverInv, Placing, phase = "idle", UNCHANGED <<vars, open>>,
         ImmediatePreReject(cmd.order.id, events), ~Placing'
  PROVE  CoverInv'
  <1>1. UNCHANGED <<phase, acct, ended, dropped, placed, open>>  BY DEF vars
  <1>2. PICK o : o = cmd.order  OBVIOUS
  <1>3. /\ CancelledIn(events) \subseteq ended
        /\ \A i \in Owing(acct, ended, dropped, placed) : i # o.id => Covers(open, acct, i)
    BY <1>2 DEF CoverInv, MatchCover
  <1>4. o.id \in CancelledIn(events)
    <2>1. PICK k \in DOMAIN events :
            events[k] \in {Cancelled(o.id, "fok_unfilled"), Cancelled(o.id, "post_only_crossed")}
      BY <1>2 DEF ImmediatePreReject
    <2>2. events[k].kind = "cancelled" /\ events[k].id = o.id  BY <2>1 DEF Cancelled
    <2> QED BY <2>2 DEF CancelledIn
  <1>5. o.id \notin Owing(acct, ended, dropped, placed)  BY <1>3, <1>4 DEF Owing
  <1>6. \A i \in Owing(acct, ended, dropped, placed) : Covers(open, acct, i)  BY <1>3, <1>5
  <1> QED BY <1>1, <1>6 DEF CoverInv

LEMMA NewOrderCover ==
  ASSUME BookInv, BookInv', CoverInv, ~Placing, NEW o \in Inputs, Place(o), open' = open,
         cmd' = PlaceCmd(o)
  PROVE  CoverInv'
  <1>1. Placing' /\ cmd'.order = o
    <2>1. cmd' \in [kind: {"place"}, order: Inputs]  BY DEF PlaceCmd
    <2>2. cmd' # None  BY <2>1, EngineAssumption
    <2> QED BY <2>2 DEF PlaceCmd, Placing
  <1>2. open \in OpenType /\ \A i \in Owing(acct, ended, dropped, placed) : Covers(open, acct, i)
    BY DEF CoverInv
  <1>3. MatchCover(open, o, events', acct', ended', dropped', placed', Busy(o, phase', taker'))
    BY <1>2, PlaceCover
  <1> QED BY <1>1, <1>2, <1>3 DEF CoverInv

LEMMA CancelledCover ==
  ASSUME BookInv, BookInv', CoverInv, ~Placing, NEW i \in Id, CancelOrder(i),
         open' = ApplyUpdates(open, None, events'), ~Placing'
  PROVE  CoverInv'
  <1>1. open \in OpenType /\ \A k \in Owing(acct, ended, dropped, placed) : Covers(open, acct, k)
    BY DEF CoverInv
  <1>2. /\ phase' = "idle" /\ open' \in OpenType
        /\ \A k \in Owing(acct', ended', dropped', placed') : Covers(open', acct', k)
    BY <1>1, CancelCover
  <1> QED BY <1>2 DEF CoverInv

LEMMA RequestCover ==
  ASSUME BookInv, BookInv', CoverInv, Request
  PROVE  CoverInv'
  <1>1. ~Placing  BY DEF Request, PlaceOrder, CancelRequest, CancelAll, SetMarket, ReadOnly, Idle, Placing
  <1>2. ASSUME NEW o \in Inputs, PlaceOrder(o) PROVE CoverInv'
    BY <1>1, <1>2, NewOrderCover DEF PlaceOrder
  <1>3. ASSUME NEW i \in Id, CancelRequest(i) PROVE CoverInv'
    <2>1. CancelOrder(i) /\ open' = ApplyUpdates(open, None, events')
      BY <1>3 DEF CancelRequest, CancelKnownOrder
    <2>2. ~Placing'
      <3>1. cmd' = cmd \/ cmd' = [kind |-> "ack", id |-> None, status |-> "canceled"]
        BY <1>3 DEF CancelRequest
      <3>2. cmd = None  BY <1>3 DEF CancelRequest, Idle
      <3> QED BY <3>1, <3>2 DEF Placing
    <2> QED BY <1>1, <2>1, <2>2, CancelledCover
  <1>4. ASSUME NEW u \in Users, CancelAll(u) PROVE CoverInv'
    <2>1. UNCHANGED <<vars, open>> /\ ~Placing'  BY <1>4 DEF CancelAll, Placing
    <2> QED BY <1>1, <2>1, SameCover
  <1>5. ASSUME NEW h \in BOOLEAN, SetMarket(h) PROVE CoverInv'
    <2>1. UNCHANGED <<vars, open>> /\ ~Placing'  BY <1>5 DEF SetMarket, Placing
    <2> QED BY <1>1, <2>1, SameCover
  <1>6. CASE ReadOnly
    <2>1. UNCHANGED <<vars, open, cmd>>  BY <1>6 DEF ReadOnly, allVars, evars
    <2>2. ~Placing'  BY <1>1, <2>1 DEF Placing
    <2> QED BY <1>1, <2>1, <2>2, SameCover
  <1> QED BY <1>2, <1>3, <1>4, <1>5, <1>6 DEF Request

LEMMA HandleCover ==
  ASSUME BookInv, BookInv', AckInv, CoverInv, Handle
  PROVE  CoverInv'
  <1>1. CASE Match
    <2>1. cmd # None /\ Step /\ UNCHANGED <<cmd, open>>  BY <1>1 DEF Match, evars
    <2>2. Placing  BY <2>1, IdleNoStep DEF AckInv, Placing
    <2>3. PICK o \in Order : o = cmd.order  BY <2>2, ConstantsAssumption DEF AckInv, Placing
    <2>4. open \in OpenType
          /\ MatchCover(open, o, events, acct, ended, dropped, placed, Busy(o, phase, taker))
      BY <2>2, <2>3 DEF CoverInv
    <2>5. MatchCover(open, o, events', acct', ended', dropped', placed', Busy(o, phase', taker'))
      BY <2>1, <2>4, StepCover
    <2>6. Placing' /\ cmd'.order = o  BY <2>1, <2>2, <2>3 DEF Placing
    <2> QED BY <2>1, <2>4, <2>5, <2>6 DEF CoverInv
  <1>2. CASE PlaceReject
    <2>1. /\ Placing /\ phase = "idle" /\ UNCHANGED <<vars, open>> /\ cmd' = None
          /\ ImmediatePreReject(cmd.order.id, events)
      BY <1>2 DEF PlaceReject, Matched, Placing
    <2>2. ~Placing'  BY <2>1 DEF Placing
    <2> QED BY <2>1, <2>2, RejectedCover
  <1>3. CASE PlaceAccept
    <2>1. /\ Placing /\ phase = "idle" /\ UNCHANGED vars /\ cmd'.kind = "ack"
          /\ open' = ApplyUpdates(open, cmd.order, events)
      BY <1>3 DEF PlaceAccept, Matched, Placing
    <2>2. ~Placing'  BY <2>1 DEF Placing
    <2> QED BY <2>1, <2>2, AppliedCover
  <1>4. ASSUME NEW i \in Id, CancelAllNext(i) PROVE CoverInv'
    <2>1. cmd.kind = "cancel_all" /\ cmd' = cmd  BY <1>4 DEF CancelAllNext, Matched
    <2>2. ~Placing /\ ~Placing'  BY <2>1 DEF Placing
    <2>3. CASE open[i] = None
      <3>1. UNCHANGED <<vars, open>>  BY <1>4, <2>3 DEF CancelAllNext
      <3> QED BY <2>2, <3>1, SameCover
    <2>4. CASE open[i] # None
      <3>1. CancelOrder(i) /\ open' = ApplyUpdates(open, None, events')
        BY <1>4, <2>4 DEF CancelAllNext, CancelKnownOrder
      <3> QED BY <2>2, <3>1, CancelledCover
    <2> QED BY <2>3, <2>4
  <1>5. CASE CancelAllEnd \/ LogEvent \/ Respond
    <2>1. UNCHANGED <<vars, open>> /\ cmd.kind \in {"cancel_all", "ack"}
          /\ (cmd' = None \/ cmd' = cmd \/ cmd' = [kind |-> "ack", id |-> None, status |-> "canceled"])
      BY <1>5 DEF CancelAllEnd, LogEvent, Respond, Matched
    <2>2. ~Placing /\ ~Placing'  BY <2>1 DEF Placing
    <2> QED BY <2>1, <2>2, SameCover
  <1> QED BY <1>1, <1>2, <1>3, <1>4, <1>5 DEF Handle

LEMMA EmptyCover ==
  ASSUME placed = 0, phase = "idle", cmd = None, open = [i \in Id |-> None]
  PROVE  CoverInv
  <1>1. Owing(acct, ended, dropped, placed) = {}  BY DEF Owing
  <1>2. open \in OpenType  BY DEF OpenType
  <1> QED BY <1>1, <1>2 DEF CoverInv, Placing

LEMMA EmptyCoverNext ==
  ASSUME placed' = 0, phase' = "idle", cmd' = None, open' = [i \in Id |-> None]
  PROVE  CoverInv'
  <1>1. Owing(acct', ended', dropped', placed') = {}  BY DEF Owing
  <1>2. open' \in OpenType  BY DEF OpenType
  <1> QED BY <1>1, <1>2 DEF CoverInv, Placing

LEMMA RecoverCover ==
  ASSUME BookInv, BookInv', FilesOK, CoverInv, Recover \/ Crash
  PROVE  CoverInv'
  <1>1. CASE Start \/ ReplayEnd
    <2>1. UNCHANGED <<vars, open, cmd>>  BY <1>1 DEF Start, ReplayEnd
    <2>2. UNCHANGED <<phase, taker, events, acct, ended, dropped, placed>>  BY <2>1 DEF vars
    <2> QED BY <2>1, <2>2 DEF CoverInv, Placing
  <1>2. CASE ReplayPlace
    <2>1. cursor < Len(wal) /\ cmd = None /\ open' = open  BY <1>2 DEF ReplayPlace
    <2>2. PICK c \in Commands : c = wal[cursor + 1]  BY <2>1, NextRecord
    <2>3. c.kind = "place" /\ Place(c.order) /\ cmd' = c  BY <1>2, <2>2 DEF ReplayPlace
    <2>4. PICK o \in Inputs : o = c.order  BY <2>3, CommandFacts
    <2>5. c = PlaceCmd(o)  BY <2>3, <2>4 DEF Commands, PlaceCmd, CancelCmd
    <2>6. ~Placing  BY <2>1 DEF Placing
    <2> QED BY <2>1, <2>3, <2>4, <2>5, <2>6, NewOrderCover
  <1>3. CASE ReplayApply
    <2>1. /\ Placing /\ phase = "idle" /\ UNCHANGED vars /\ cmd' = None
          /\ open' = ApplyUpdates(open, cmd.order, events)
      BY <1>3 DEF ReplayApply, Matched, Placing
    <2>2. ~Placing'  BY <2>1 DEF Placing
    <2> QED BY <2>1, <2>2, AppliedCover
  <1>4. CASE ReplayCancel
    <2>1. cursor < Len(wal) /\ cmd = None /\ cmd' = cmd  BY <1>4 DEF ReplayCancel
    <2>2. PICK c \in Commands : c = wal[cursor + 1]  BY <2>1, NextRecord
    <2>3. c.kind = "cancel"  BY <1>4, <2>2 DEF ReplayCancel
    <2>4. PICK i \in Id : i = c.id  BY <2>3, CommandFacts
    <2>5. ~Placing /\ ~Placing'  BY <2>1 DEF Placing
    <2>6. CASE open[i] = None
      <3>1. UNCHANGED <<vars, open>>  BY <1>4, <2>2, <2>4, <2>6 DEF ReplayCancel
      <3> QED BY <2>5, <3>1, SameCover
    <2>7. CASE open[i] # None
      <3>1. CancelOrder(i) /\ open' = ApplyUpdates(open, None, events')
        BY <1>4, <2>2, <2>4, <2>7 DEF ReplayCancel
      <3> QED BY <2>5, <3>1, CancelledCover
    <2> QED BY <2>6, <2>7
  <1>5. CASE Crash
    <2>1. placed' = 0 /\ phase' = "idle" /\ cmd' = None /\ open' = [i \in Id |-> None]
      BY <1>5 DEF Crash, ForgetBook
    <2> QED BY <2>1, EmptyCoverNext
  <1> QED BY <1>1, <1>2, <1>3, <1>4, <1>5 DEF Recover

LEMMA EngineCoverStep ==
  ASSUME BookOK, FilesOK, AckInv, CoverInv, [EngineNext]_allVars
  PROVE  BookOK' /\ FilesOK' /\ AckInv' /\ CoverInv'
  <1>1. BookOK' /\ FilesOK' /\ AckInv'  BY EngineAckStep
  <1>2. BookInv /\ BookInv'  BY <1>1 DEF BookOK
  <1>3. CASE UNCHANGED allVars
    <2>1. UNCHANGED <<vars, open, cmd>>  BY <1>3 DEF allVars, evars
    <2>2. UNCHANGED <<phase, taker, events, acct, ended, dropped, placed>>  BY <2>1 DEF vars
    <2>3. CoverInv'  BY <2>1, <2>2 DEF CoverInv, Placing
    <2> QED BY <1>1, <2>3
  <1> QED BY <1>1, <1>2, <1>3, RequestCover, HandleCover, RecoverCover DEF EngineNext

(* A live order owes what its entry in the book has left. *)
LEMMA LiveOwes ==
  ASSUME BookInv, NEW i \in Live(book)
  PROVE  /\ i \in Id /\ i \in Owing(acct, ended, dropped, placed)
         /\ book.index[i] # None => Remaining(i) \in Nat /\ Remaining(i) + Used(acct, i) = acct[i].qty
  <1>1. i \in Id  BY DEF Live
  <1>2. InBook(book, i)  BY <1>1, InvFacts, LiveInBook
  <1>3. PICK S : S = Stock(book, work, triggered, phase, taker)  OBVIOUS
  <1>4. Positive(S) /\ Fates(S, acct, ended, dropped, placed)  BY <1>3, InvFacts DEF Sound
  <1>5. Shows(S, book, work, triggered, phase, taker)  BY <1>3, InvFacts, StockShows
  <1>6. /\ acct[i].filled \in Nat /\ acct[i].cut \in Nat /\ acct[i].qty \in Nat
    BY <1>1, InvFacts, AcctNat
  <1>7. ASSUME NEW x \in Places \ {TK}, NEW o \in S[x], o.id = i
        PROVE  /\ i \in Owing(acct, ended, dropped, placed)
               /\ o.remaining \in Nat /\ o.remaining + Used(acct, i) = acct[i].qty
    <2>1. /\ i \in 1..placed /\ i \notin ended /\ i \notin dropped
          /\ o.remaining + acct[i].filled + acct[i].cut = acct[i].qty
      BY <1>4, <1>7 DEF Fates, Balanced
    <2>2. o.remaining > 0  BY <1>4, <1>7 DEF Positive
    <2>3. o.remaining \in Nat  BY <1>5, <1>7, OrderNat DEF Shows
    <2>4. Used(acct, i) < acct[i].qty /\ o.remaining + Used(acct, i) = acct[i].qty
      BY <1>6, <2>1, <2>2, <2>3 DEF Used
    <2> QED BY <1>1, <2>1, <2>3, <2>4 DEF Owing
  <1>8. i \in Owing(acct, ended, dropped, placed)
    <2>1. PICK s \in Side, p \in Price : Kept(book, i, s, p) \/ Parked(book, i, s, p)  BY <1>2 DEF InBook
    <2>2. /\ LV(s, p) \in Places \ {TK} /\ ST(s, p) \in Places \ {TK}
          /\ S[LV(s, p)] = Orders(book.level[s][p]) /\ S[ST(s, p)] = Orders(book.stops[s][p])
      BY <1>5, PlaceNames DEF Shows
    <2> QED BY <1>7, <2>1, <2>2 DEF Kept, Parked
  <1>9. ASSUME book.index[i] # None
        PROVE  Remaining(i) \in Nat /\ Remaining(i) + Used(acct, i) = acct[i].qty
    <2>1. book.index[i] \in Side \X Price  BY <1>1, <1>9, InvFacts, BookParts
    <2>2. PICK s \in Side, p \in Price : book.index[i] = <<s, p>>  BY <2>1
    <2>3. book.index[i][1] = s /\ book.index[i][2] = p  BY <2>2
    <2>4. Kept(book, i, s, p)  BY <1>1, <2>2, InvFacts DEF Good
    <2>5. PICK q : q = book.level[s][p]  OBVIOUS
    <2>6. \E k \in DOMAIN q : q[k].id = i  BY <2>4, <2>5 DEF Kept, Orders
    <2>7. PICK k \in DOMAIN q : k = Pos(q, i) /\ q[k].id = i  BY <2>6 DEF Pos
    <2>8. q[k] \in Orders(q)  BY DEF Orders
    <2>9. q[k] \in S[LV(s, p)] /\ LV(s, p) \in Places \ {TK}  BY <1>5, <2>5, <2>8, PlaceNames DEF Shows
    <2>10. q[k].remaining \in Nat /\ q[k].remaining + Used(acct, i) = acct[i].qty  BY <1>7, <2>7, <2>9
    <2>11. Remaining(i) = q[k].remaining  BY <2>3, <2>5, <2>7 DEF Remaining
    <2> QED BY <2>10, <2>11
  <1> QED BY <1>1, <1>8, <1>9

LEMMA CoverHolds ==
  ASSUME BookOK, CoverInv
  PROVE  OpenCoversLive
  <1> SUFFICES ASSUME Idle, NEW i \in Live(book)
               PROVE  open[i] # None /\ (book.index[i] # None => open[i].remaining >= Remaining(i))
    BY DEF OpenCoversLive
  <1>1. BookInv /\ cmd = None  BY DEF BookOK, Idle
  <1>2. /\ i \in Id /\ i \in Owing(acct, ended, dropped, placed)
        /\ book.index[i] # None => Remaining(i) \in Nat /\ Remaining(i) + Used(acct, i) = acct[i].qty
    BY <1>1, LiveOwes
  <1>3. Covers(open, acct, i) /\ open \in OpenType  BY <1>1, <1>2 DEF CoverInv, Placing
  <1>4. open[i] # None /\ open[i].remaining + Used(acct, i) >= acct[i].qty  BY <1>3 DEF Covers
  <1>5. open[i] \in OpenOrder  BY <1>2, <1>3, <1>4 DEF OpenType
  <1>6. open[i].remaining \in Nat  BY <1>5 DEF OpenOrder
  <1>7. Used(acct, i) \in Nat /\ acct[i].qty \in Nat  BY <1>1, <1>2, InvFacts, UsedNat
  <1> QED BY <1>2, <1>4, <1>6, <1>7

(* Between requests every live order of the book, a parked stop included,  *)
(* has an entry in open_orders that covers what it has left, so cancel and *)
(* cancel_all can reach it: through fills, cascades, self-trade            *)
(* prevention, rejects, crashes and replays.                               *)
THEOREM LiveOrdersReachable == EngineSpec => []OpenCoversLive
  <1>1. EngineInit => BookOK /\ FilesOK /\ AckInv /\ CoverInv
    <2>1. EngineInit => reply = None /\ cmd = None  BY DEF EngineInit
    <2>2. EngineInit => placed = 0 /\ phase = "idle" /\ cmd = None /\ open = [i \in Id |-> None]
      BY DEF EngineInit, Init
    <2>3. EngineInit => CoverInv  BY <2>2, EmptyCover
    <2> QED BY <2>1, <2>3, EngineBookInit DEF AckInv, TerminalAckIsFinal
  <1>2. BookOK /\ FilesOK /\ AckInv /\ CoverInv /\ [EngineNext]_allVars
          => BookOK' /\ FilesOK' /\ AckInv' /\ CoverInv'
    BY EngineCoverStep
  <1>3. BookOK /\ CoverInv => OpenCoversLive  BY CoverHolds
  <1> QED BY <1>1, <1>2, <1>3, PTL DEF EngineSpec

-----------------------------------------------------------------------------
(* The types of the server's state, and its history of completed commands. *)

(* One record may be without its history: the command in progress, or the  *)
(* last one before a crash, until the replay has worked through the WAL.   *)
ServerInv ==
  /\ mode \in {"up", "down", "replay"} /\ todo \subseteq Id /\ halted \in BOOLEAN
  /\ crashes \in 0..MaxCrashes /\ cursor \in 0..Len(wal)
  /\ done \in Seq([book: BookType, open: OpenType, starved: BOOLEAN])
  /\ Len(done) \in {Len(wal), Len(wal) - 1}
  /\ mode = "down" => cursor = 0
  /\ mode = "up" /\ ~Placing => Len(done) = Len(wal)
  /\ mode = "replay" /\ ~Placing /\ cursor = Len(wal) => Len(done) = Len(wal)

LEMMA CompleteFacts ==
  ASSUME NEW n \in Nat, Complete(n), book' \in BookType, open' \in OpenType,
         done \in Seq([book: BookType, open: OpenType, starved: BOOLEAN])
  PROVE  /\ done' \in Seq([book: BookType, open: OpenType, starved: BOOLEAN])
         /\ n > Len(done) => Len(done') = Len(done) + 1
         /\ ~(n > Len(done)) => done' = done
  <1>1. PICK D, r : /\ D = [book: BookType, open: OpenType, starved: BOOLEAN]
                    /\ r = [book |-> book', open |-> open', starved |-> Starved]
    OBVIOUS
  <1>2. r \in D /\ done \in Seq(D)
    <2>1. Starved \in BOOLEAN  BY DEF Starved
    <2> QED  BY <1>1, <2>1
  <1>3. done' = IF n > Len(done) THEN Append(done, r) ELSE done  BY <1>1 DEF Complete
  <1>4. Append(done, r) \in Seq(D) /\ Len(Append(done, r)) = Len(done) + 1  BY <1>2
  <1> QED BY <1>1, <1>2, <1>3, <1>4

LEMMA ServerStep ==
  ASSUME BookOK', FilesOK, FilesOK', AckInv, CoverInv, CoverInv', ServerInv, [EngineNext]_allVars
  PROVE  ServerInv'
  <1>1. PICK D : D = [book: BookType, open: OpenType, starved: BOOLEAN]  OBVIOUS
  <1>2. PICK w \in Nat, k \in Nat, c \in Nat : w = Len(wal) /\ k = Len(done) /\ c = cursor
    BY DEF FilesOK, ServerInv
  <1>3. /\ mode \in {"up", "down", "replay"} /\ todo \subseteq Id /\ halted \in BOOLEAN
        /\ crashes \in 0..MaxCrashes /\ c \in 0..w /\ k \in {w, w - 1} /\ done \in Seq(D)
        /\ mode = "down" => c = 0
        /\ mode = "up" /\ ~Placing => k = w
        /\ mode = "replay" /\ ~Placing /\ c = w => k = w
    BY <1>1, <1>2 DEF ServerInv
  <1>4. book' \in BookType /\ open' \in OpenType  BY DEF BookOK, TypeOK, CoverInv
  <1>5. ASSUME NEW r, wal' = Append(wal, r) PROVE Len(wal') = w + 1  BY <1>2, <1>5 DEF FilesOK
  <1>6. ASSUME NEW o \in Inputs, PlaceOrder(o) PROVE ServerInv'
    <2>1. /\ mode = "up" /\ cmd = None /\ wal' = Append(wal, PlaceCmd(o)) /\ cmd' = PlaceCmd(o)
          /\ UNCHANGED <<mode, todo, cursor, halted, crashes, done>>
      BY <1>6 DEF PlaceOrder, Idle
    <2>2. Len(wal') = w + 1 /\ k = w  BY <1>3, <1>5, <2>1 DEF Placing
    <2>3. Placing'
      <3>1. cmd' \in [kind: {"place"}, order: Inputs]  BY <2>1 DEF PlaceCmd
      <3>2. cmd' # None  BY <3>1, EngineAssumption
      <3> QED BY <2>1, <3>2 DEF PlaceCmd, Placing
    <2>4. c \in 0..(w + 1) /\ k = (w + 1) - 1  BY <1>2, <1>3, <2>2
    <2> QED BY <1>1, <1>2, <1>3, <2>1, <2>2, <2>3, <2>4 DEF ServerInv
  <1>7. ASSUME NEW i \in Id, CancelKnownOrder(i), mode = "up", ~Placing, ~Placing',
               UNCHANGED <<mode, cursor, halted, crashes>>, todo' \subseteq Id
        PROVE  ServerInv'
    <2>1. wal' = Append(wal, CancelCmd(i)) /\ Complete(Len(wal'))  BY <1>7 DEF CancelKnownOrder
    <2>2. Len(wal') = w + 1 /\ k = w  BY <1>3, <1>5, <1>7, <2>1
    <2>3. PICK n \in Nat : n = Len(wal') /\ n > Len(done)  BY <1>2, <2>2
    <2>4. done' \in Seq(D) /\ Len(done') = k + 1
      BY <1>1, <1>2, <1>3, <1>4, <2>1, <2>3, CompleteFacts
    <2>5. c \in 0..(w + 1)  BY <1>2, <1>3
    <2> QED BY <1>1, <1>2, <1>3, <1>7, <2>2, <2>4, <2>5 DEF ServerInv
  <1>8. ASSUME NEW i \in Id, CancelRequest(i) PROVE ServerInv'
    <2>1. CancelKnownOrder(i) /\ mode = "up" /\ cmd = None /\ UNCHANGED <<mode, todo, cursor, halted, crashes>>
      BY <1>8 DEF CancelRequest, Idle
    <2>2. cmd' = cmd \/ cmd' = [kind |-> "ack", id |-> None, status |-> "canceled"]
      BY <1>8 DEF CancelRequest
    <2>3. ~Placing /\ ~Placing' /\ todo' \subseteq Id  BY <1>3, <2>1, <2>2 DEF Placing
    <2> QED BY <1>7, <2>1, <2>3
  <1>9. ASSUME NEW i \in Id, CancelAllNext(i) PROVE ServerInv'
    <2>1. /\ mode = "up" /\ cmd.kind = "cancel_all" /\ todo' = todo \ {i}
          /\ UNCHANGED <<mode, cmd, cursor, halted, crashes>>
      BY <1>9 DEF CancelAllNext, Matched
    <2>2. ~Placing /\ ~Placing' /\ todo' \subseteq Id  BY <1>3, <2>1 DEF Placing
    <2>3. CASE open[i] = None
      <3>1. wal' = wal /\ done' = done  BY <1>9, <2>3 DEF CancelAllNext
      <3> QED BY <1>1, <1>2, <1>3, <2>1, <2>2, <3>1 DEF ServerInv
    <2>4. CASE open[i] # None
      <3>1. CancelKnownOrder(i)  BY <1>9, <2>4 DEF CancelAllNext
      <3> QED BY <1>7, <2>1, <2>2, <3>1
    <2> QED BY <2>3, <2>4
  <1>10. CASE PlaceReject \/ PlaceAccept
    <2>1. /\ mode = "up" /\ UNCHANGED <<mode, todo, wal, cursor, halted, crashes>> /\ Complete(Len(wal))
          /\ cmd' = None \/ cmd'.kind = "ack"
      BY <1>10 DEF PlaceReject, PlaceAccept
    <2>2. ~Placing'  BY <2>1 DEF Placing
    <2>3. PICK n \in Nat : n = w /\ Complete(n)  BY <1>2, <2>1
    <2>4. done' \in Seq(D) /\ Len(done') = w
      <3>1. /\ done' \in Seq(D) /\ (w > k => Len(done') = k + 1) /\ (~(w > k) => done' = done)
        BY <1>1, <1>2, <1>3, <1>4, <2>3, CompleteFacts
      <3> QED BY <1>2, <1>3, <3>1
    <2> QED BY <1>1, <1>2, <1>3, <2>1, <2>2, <2>4 DEF ServerInv
  <1>11. CASE Match
    <2>1. UNCHANGED <<mode, cmd, todo, wal, cursor, halted, crashes, done>>  BY <1>11 DEF Match, evars
    <2> QED BY <2>1 DEF ServerInv, Placing
  <1>12. CASE UNCHANGED allVars \/ ReadOnly
    <2>1. UNCHANGED <<mode, cmd, todo, wal, cursor, halted, crashes, done>>
      BY <1>12 DEF ReadOnly, allVars, evars
    <2> QED BY <2>1 DEF ServerInv, Placing
  <1>13. CASE \/ \E u \in Users : CancelAll(u)
              \/ \E h \in BOOLEAN : SetMarket(h)
              \/ CancelAllEnd \/ LogEvent \/ Respond
    <2>1. /\ mode = "up" /\ (cmd = None \/ cmd.kind # "place")
          /\ UNCHANGED <<mode, wal, cursor, crashes, done>>
          /\ todo' \subseteq Id /\ halted' \in BOOLEAN
      BY <1>3, <1>13 DEF CancelAll, SetMarket, CancelAllEnd, LogEvent, Respond, Idle, Matched
    <2>2. k = w  BY <1>3, <2>1 DEF Placing
    <2> QED BY <1>1, <1>2, <1>3, <2>1, <2>2 DEF ServerInv
  <1>14. CASE Start
    <2>1. /\ mode' = "replay" /\ UNCHANGED <<cmd, todo, wal, cursor, halted, crashes, done>>
          /\ mode = "down"
      BY <1>14 DEF Start
    <2>2. c = w => k = w  BY <1>2, <1>3, <2>1
    <2> QED BY <1>1, <1>2, <1>3, <2>1, <2>2 DEF ServerInv
  <1>15. CASE ReplayPlace
    <2>1. /\ mode = "replay" /\ cursor < Len(wal) /\ cmd' = wal[cursor + 1]
          /\ cmd'.kind = "place" /\ cursor' = cursor + 1
          /\ UNCHANGED <<mode, todo, wal, halted, crashes, done>>
      BY <1>15 DEF ReplayPlace
    <2>2. Placing'
      <3>1. PICK r \in Commands : r = wal[cursor + 1]  BY <2>1, NextRecord
      <3>2. PICK o \in Inputs : r = PlaceCmd(o)
        <4>1. r.kind = "place"  BY <2>1, <3>1
        <4>2. \A i \in Id : CancelCmd(i).kind = "cancel"  BY DEF CancelCmd
        <4> QED BY <4>1, <4>2 DEF Commands
      <3>3. r \in [kind: {"place"}, order: Inputs]  BY <3>2 DEF PlaceCmd
      <3>4. r # None  BY <3>3, EngineAssumption
      <3> QED BY <2>1, <3>1, <3>4 DEF Placing
    <2>3. c + 1 \in 0..w  BY <1>2, <1>3, <2>1
    <2> QED BY <1>1, <1>2, <1>3, <2>1, <2>2, <2>3 DEF ServerInv
  <1>16. ASSUME NEW n \in 0..w, Complete(n), cursor' = n, mode = "replay",
                UNCHANGED <<mode, todo, wal, halted, crashes>>
         PROVE  ServerInv'
    <2>1. n \in Nat  BY <1>2
    <2>2. /\ done' \in Seq(D) /\ (n > k => Len(done') = k + 1) /\ (~(n > k) => done' = done)
      BY <1>1, <1>2, <1>3, <1>4, <1>16, <2>1, CompleteFacts
    <2>3. Len(done') \in {w, w - 1} /\ (n = w => Len(done') = w)  BY <1>2, <1>3, <2>1, <2>2
    <2> QED BY <1>1, <1>2, <1>3, <1>16, <2>2, <2>3 DEF ServerInv
  <1>17. CASE ReplayApply
    <2>1. mode = "replay" /\ UNCHANGED <<mode, todo, wal, cursor, halted, crashes>> /\ Complete(cursor)
      BY <1>17 DEF ReplayApply
    <2>2. c \in 0..w /\ Complete(c) /\ cursor' = c  BY <1>2, <1>3, <2>1
    <2> QED BY <1>16, <2>1, <2>2
  <1>18. CASE ReplayCancel
    <2>1. /\ mode = "replay" /\ cursor < Len(wal) /\ cursor' = cursor + 1
          /\ UNCHANGED <<mode, todo, wal, halted, crashes>> /\ Complete(cursor')
      BY <1>18 DEF ReplayCancel
    <2>2. PICK n \in 0..w : n = c + 1  BY <1>2, <2>1
    <2>3. Complete(n) /\ cursor' = n  BY <1>2, <2>1, <2>2
    <2> QED BY <1>16, <2>1, <2>3
  <1>19. CASE ReplayEnd
    <2>1. /\ mode = "replay" /\ cmd = None /\ cursor = Len(wal) /\ mode' = "up"
          /\ UNCHANGED <<cmd, todo, wal, cursor, halted, crashes, done>>
      BY <1>19 DEF ReplayEnd
    <2>2. k = w  BY <1>2, <1>3, <2>1 DEF Placing
    <2> QED BY <1>1, <1>2, <1>3, <2>1, <2>2 DEF ServerInv
  <1>20. CASE Crash
    <2>1. /\ crashes < MaxCrashes /\ mode' = "down" /\ crashes' = crashes + 1 /\ todo' = {}
          /\ cursor' = 0 /\ halted' = FALSE /\ UNCHANGED <<wal, done>>
      BY <1>20 DEF Crash
    <2>2. crashes' \in 0..MaxCrashes /\ 0 \in 0..w  BY <1>2, <1>3, <2>1, EngineAssumption
    <2> QED BY <1>1, <1>2, <1>3, <2>1, <2>2 DEF ServerInv
  <1> QED BY <1>6, <1>8, <1>9, <1>10, <1>11, <1>12, <1>13, <1>14, <1>15, <1>17, <1>18, <1>19, <1>20
             DEF EngineNext, Request, Handle, Recover

(* The server's state has its types through crashes and replays, and no    *)
(* command of the WAL but the last is ever without its completed state:    *)
(* a replay works through every record before requests are served.         *)
THEOREM ServerTypeCorrect == EngineSpec => []EngineTypeOK
  <1>1. EngineInit => BookOK /\ FilesOK /\ AckInv /\ CoverInv /\ ServerInv
    <2>1. EngineInit => reply = None /\ cmd = None  BY DEF EngineInit
    <2>2. EngineInit => placed = 0 /\ phase = "idle" /\ cmd = None /\ open = [i \in Id |-> None]
      BY DEF EngineInit, Init
    <2>3. EngineInit => CoverInv  BY <2>2, EmptyCover
    <2>4. ASSUME EngineInit PROVE ServerInv
      <3>1. /\ mode = "up" /\ todo = {} /\ wal = <<>> /\ cursor = 0 /\ halted = FALSE /\ crashes = 0
            /\ done = <<>>
        BY <2>4 DEF EngineInit
      <3>2. Len(wal) = 0 /\ Len(done) = 0
            /\ done \in Seq([book: BookType, open: OpenType, starved: BOOLEAN])
        BY <3>1
      <3>3. 0 \in 0..MaxCrashes /\ 0 \in 0..0  BY EngineAssumption
      <3>4. todo \subseteq Id /\ halted \in BOOLEAN  BY <3>1
      <3> QED BY <3>1, <3>2, <3>3, <3>4 DEF ServerInv
    <2> QED BY <2>1, <2>3, <2>4, EngineBookInit DEF AckInv, TerminalAckIsFinal
  <1>2. BookOK /\ FilesOK /\ AckInv /\ CoverInv /\ ServerInv /\ [EngineNext]_allVars
          => BookOK' /\ FilesOK' /\ AckInv' /\ CoverInv' /\ ServerInv'
    BY EngineCoverStep, ServerStep
  <1>3. CoverInv /\ ServerInv => EngineTypeOK  BY DEF CoverInv, ServerInv, EngineTypeOK, OpenType
  <1> QED BY <1>1, <1>2, <1>3, PTL DEF EngineSpec

-----------------------------------------------------------------------------
(* The files under the server.  The WAL file implements the durable log    *)
(* for what is acknowledged while no torn length prefix is in it, and the  *)
(* records of the command WAL are numbered without gaps, for any number of *)
(* appends, failed flushes and crashes at any byte.                        *)

Rec == [kind: {"record"}, seq: Nat, cmd: Nat]

CutKinds == {"length", "payload"}

Piece == Rec \cup {Cut(w) : w \in CutKinds}

(* r is what precedes the first cut of the file f, which is one in w. *)
CutAt(f, r, w) == \E t \in Seq(Piece) : f = (r \o <<Cut(w)>>) \o t

Numbered(f) == \A k \in DOMAIN f : f[k].seq = k

(* The inductive invariant: while the process runs the file is whole or    *)
(* its first cut is in a length prefix, what was acknowledged in front of  *)
(* the cut is readable, and in a whole file what the buffer would add goes *)
(* on with the numbering.                                                  *)
WalInv ==
  /\ buffer \in Seq(Rec) /\ sequence \in Nat /\ appends \in Nat
  /\ \/ file \in Seq(Rec)
     \/ \E r \in Seq(Rec), w \in CutKinds : CutAt(file, r, w) /\ (up => w = "length")
  /\ ~up => buffer = <<>>
  /\ acked \subseteq 1..appends
  /\ acked \ hidden \subseteq Abstract!Stored(Payloads(Readable(file)))
  /\ CountFirst => /\ Numbered(Readable(file))
                   /\ up /\ file \in Seq(Rec) =>
                        Numbered(file \o buffer) /\ sequence = Len(file) + Len(buffer)

-----------------------------------------------------------------------------
(* The pieces of a file of whole records. *)
LEMMA KindOfRecord ==
  ASSUME NEW f \in Seq(Rec)
  PROVE  /\ DOMAIN f = 1..Len(f) /\ Len(f) \in Nat
         /\ \A k \in DOMAIN f : f[k].kind = "record" /\ f[k].cmd \in Nat /\ f[k].seq \in Nat
  <1>1. DOMAIN f = 1..Len(f) /\ Len(f) \in Nat  OBVIOUS
  <1>2. \A k \in 1..Len(f) : f[k] \in Rec       BY ElementOfSeq
  <1>3. \A x \in Rec : x.kind = "record" /\ x.cmd \in Nat /\ x.seq \in Nat  BY DEF Rec
  <1> QED  BY <1>1, <1>2, <1>3

(* replay returns the whole of an intact file and reports it clean. *)
LEMMA ReadWhole ==
  ASSUME NEW f \in Seq(Rec)
  PROVE  Readable(f) = f /\ ReadsClean(f) = {TRUE} /\ ~TornPrefix(f)
  <1>1. \A k \in DOMAIN f : f[k].kind = "record"
    BY KindOfRecord
  <1>2. Broken(f) = {}
    BY <1>1 DEF Broken
  <1> QED  BY <1>2 DEF Readable, ReadsClean, TornPrefix

(* replay returns what precedes the first cut. *)
LEMMA ReadCut ==
  ASSUME NEW f, NEW r \in Seq(Rec), NEW w \in CutKinds, CutAt(f, r, w)
  PROVE  /\ Readable(f) = r /\ (TornPrefix(f) <=> w = "length")
         /\ f \notin Seq(Rec)
         /\ TRUE \in ReadsClean(f) => w = "length"
  <1>1. PICK t \in Seq(Piece) : f = (r \o <<Cut(w)>>) \o t  BY DEF CutAt
  <1>2. Cut(w) \in Piece /\ r \in Seq(Piece) /\ <<Cut(w)>> \in Seq(Piece)
    <2>1. Cut(w) \in Piece  BY DEF Piece
    <2>2. Rec \subseteq Piece  BY DEF Piece
    <2> QED  BY <2>1, <2>2, SeqMonotonic
  <1>3. PICK q \in Seq(Piece) : q = r \o <<Cut(w)>>  BY <1>2, ConcatProperties
  <1>4. /\ Len(q) = Len(r) + 1 /\ Len(r) \in Nat
        /\ \A k \in 1..Len(r) : q[k] = r[k]
        /\ q[Len(r) + 1] = Cut(w)
    BY <1>2, <1>3
  <1>5. /\ f \in Seq(Piece) /\ Len(f) = Len(q) + Len(t) /\ Len(t) \in Nat
        /\ \A k \in 1..Len(q) : f[k] = q[k]
    BY <1>1, <1>3, ConcatProperties
  <1>6. /\ \A k \in 1..Len(r) : f[k] = r[k] /\ f[k].kind = "record"
        /\ f[Len(r) + 1].kind = w /\ w # "record"
        /\ DOMAIN f = 1..Len(f) /\ Len(r) + 1 \in DOMAIN f
    <2>1. \A k \in 1..Len(r) : r[k].kind = "record"  BY KindOfRecord
    <2> QED  BY <1>4, <1>5, <2>1 DEF Cut, CutKinds
  <1>7. Len(r) + 1 \in Broken(f) /\ \A k \in Broken(f) : k \in Nat /\ Len(r) + 1 <= k
    BY <1>4, <1>5, <1>6 DEF Broken
  <1>8. Min(Broken(f)) = Len(r) + 1
    <2>1. \A x \in Broken(f) : (\A y \in Broken(f) : x <= y) => x = Len(r) + 1
      BY <1>4, <1>7
    <2> QED  BY <1>7, <2>1 DEF Min
  <1>9. SubSeq(f, 1, Len(r)) = r
    BY <1>4, <1>5, <1>6
  <1>10. Readable(f) = r
    <2>1. Broken(f) # {}  BY <1>7
    <2>2. Readable(f) = SubSeq(f, 1, Min(Broken(f)) - 1)  BY <2>1 DEF Readable
    <2>3. Len(r) + 1 - 1 = Len(r)  BY <1>4
    <2> QED  BY <2>2, <2>3, <1>8, <1>9
  <1>11. TornPrefix(f) <=> w = "length"
    BY <1>6, <1>7, <1>8 DEF TornPrefix
  <1>12. TRUE \in ReadsClean(f) => w = "length"
    <2>1. Broken(f) # {}  BY <1>7
    <2>2. Len(r) + 1 \in Min(Broken(f))..Len(f)  BY <1>4, <1>5, <1>8
    <2>3. w # "length" => ReadsClean(f) = {FALSE}  BY <1>6, <2>1, <2>2 DEF ReadsClean
    <2> QED  BY <2>3
  <1>13. f \notin Seq(Rec)
    <2>1. f \in Seq(Rec) => f[Len(r) + 1].kind = "record"  BY <1>6, KindOfRecord
    <2> QED  BY <1>6, <2>1
  <1> QED  BY <1>10, <1>11, <1>12, <1>13

(* What is written behind a cut leaves the cut the first one. *)
LEMMA CutGrows ==
  ASSUME NEW f, NEW r \in Seq(Rec), NEW w \in CutKinds, CutAt(f, r, w), NEW g \in Seq(Piece)
  PROVE  CutAt(f \o g, r, w)
  <1>1. PICK t \in Seq(Piece) : f = (r \o <<Cut(w)>>) \o t  BY DEF CutAt
  <1>2. PICK q \in Seq(Piece) : q = r \o <<Cut(w)>>
    <2>1. Cut(w) \in Piece  BY DEF Piece
    <2>2. Rec \subseteq Piece  BY DEF Piece
    <2>3. r \in Seq(Piece) /\ <<Cut(w)>> \in Seq(Piece)  BY <2>1, <2>2, SeqMonotonic
    <2> QED  BY <2>3, ConcatProperties
  <1>3. t \o g \in Seq(Piece)  BY ConcatProperties
  <1>4. (q \o t) \o g = q \o (t \o g)  BY ConcatAssociative
  <1> QED  BY <1>1, <1>2, <1>3, <1>4 DEF CutAt

(* The elements of two sequences of records put together. *)
LEMMA Together ==
  ASSUME NEW f \in Seq(Rec), NEW g \in Seq(Rec)
  PROVE  /\ f \o g \in Seq(Rec) /\ Len(f \o g) = Len(f) + Len(g)
         /\ Len(f) \in Nat /\ Len(g) \in Nat
         /\ \A k \in 1..Len(f) : (f \o g)[k] = f[k]
         /\ \A k \in 1..Len(g) : (f \o g)[Len(f) + k] = g[k]
  BY ConcatProperties

(* Records appended to records leave the old ones a prefix. *)
LEMMA Grow ==
  ASSUME NEW f \in Seq(Rec), NEW g \in Seq(Rec)
  PROVE  /\ Abstract!Extends(Payloads(f \o g), Payloads(f))
         /\ Abstract!Stored(Payloads(f)) \subseteq Abstract!Stored(Payloads(f \o g))
         /\ \A k \in DOMAIN g : g[k].cmd \in Abstract!Stored(Payloads(f \o g))
  <1>1. f \o g \in Seq(Rec) /\ Len(f \o g) = Len(f) + Len(g)  BY Together
  <1>2. /\ \A k \in 1..Len(f) : (f \o g)[k] = f[k]
        /\ \A k \in 1..Len(g) : (f \o g)[Len(f) + k] = g[k]
    BY Together
  <1> DEFINE cf == Payloads(f)
             cg == Payloads(f \o g)
  <1>3. /\ cf = [k \in 1..Len(f) |-> f[k].cmd]
        /\ cg = [k \in 1..(Len(f) + Len(g)) |-> (f \o g)[k].cmd]
        /\ Len(f) \in Nat /\ Len(g) \in Nat
    BY <1>1, KindOfRecord DEF Payloads
  <1>4. \A k \in 1..Len(f) : cg[k] = cf[k]
    BY <1>2, <1>3
  <1>5. cf \in Seq(Nat) /\ cg \in Seq(Nat) /\ Len(cf) = Len(f) /\ Len(cg) = Len(f) + Len(g)
    <2>1. \A k \in 1..Len(f) : f[k].cmd \in Nat  BY KindOfRecord
    <2>2. \A k \in 1..(Len(f) + Len(g)) : (f \o g)[k].cmd \in Nat  BY <1>1, KindOfRecord
    <2> QED  BY <1>3, <2>1, <2>2
  <1>6. SubSeq(cg, 1, Len(cf)) = cf
    <2> HIDE DEF cf, cg
    <2> QED  BY <1>3, <1>4, <1>5
  <1>7. Abstract!Extends(cg, cf)
    BY <1>3, <1>5, <1>6 DEF Abstract!Extends
  <1>8. Abstract!Stored(cf) \subseteq Abstract!Stored(cg)
    BY <1>3, <1>4 DEF Abstract!Stored
  <1>9. \A k \in DOMAIN g : g[k].cmd \in Abstract!Stored(cg)
    <2>1. \A k \in 1..Len(g) : Len(f) + k \in DOMAIN cg /\ cg[Len(f) + k] = g[k].cmd
      BY <1>2, <1>3
    <2> QED  BY <2>1 DEF Abstract!Stored
  <1> QED  BY <1>7, <1>8, <1>9

(* Some of the records being written leave a numbered file. *)
LEMMA NumberedPart ==
  ASSUME NEW f \in Seq(Rec), NEW g \in Seq(Rec), NEW k \in 0..Len(g), Numbered(f \o g)
  PROVE  Numbered(f \o SubSeq(g, 1, k))
  <1>1. /\ f \o g \in Seq(Rec) /\ Len(f \o g) = Len(f) + Len(g)
        /\ \A j \in 1..Len(f) : (f \o g)[j] = f[j]
        /\ \A j \in 1..Len(g) : (f \o g)[Len(f) + j] = g[j]
        /\ Len(f) \in Nat /\ Len(g) \in Nat
    BY Together
  <1>2. SubSeq(g, 1, k) \in Seq(Rec) /\ Len(SubSeq(g, 1, k)) = k
        /\ \A j \in 1..k : SubSeq(g, 1, k)[j] = g[j]
    BY <1>1, SubSeqProperties
  <1>h. PICK h \in Seq(Rec) : h = SubSeq(g, 1, k)  BY <1>2
  <1>3. /\ f \o h \in Seq(Rec) /\ Len(f \o h) = Len(f) + k
        /\ \A j \in 1..Len(f) : (f \o h)[j] = f[j]
        /\ \A j \in 1..k : (f \o h)[Len(f) + j] = h[j]
    <2>1. Len(h) = k  BY <1>2, <1>h
    <2> QED  BY <2>1, Together
  <1>4. \A j \in 1..(Len(f) + Len(g)) : (f \o g)[j].seq = j
    BY <1>1 DEF Numbered
  <1>5. \A j \in 1..Len(f) : (f \o h)[j].seq = j
    BY <1>1, <1>3, <1>4
  <1>6. \A j \in 1..k : (f \o h)[Len(f) + j].seq = Len(f) + j
    BY <1>1, <1>2, <1>h, <1>3, <1>4
  <1>7. \A j \in 1..(Len(f) + k) : j \in 1..Len(f) \/ (j - Len(f) \in 1..k /\ j = Len(f) + (j - Len(f)))
    BY <1>1
  <1>8. DOMAIN (f \o h) = 1..(Len(f) + k)  BY <1>3
  <1> QED  BY <1>h, <1>5, <1>6, <1>7, <1>8 DEF Numbered

(* One more record, with the next number. *)
LEMMA NumberedNext ==
  ASSUME NEW f \in Seq(Rec), Numbered(f), NEW x \in Rec, x.seq = Len(f) + 1
  PROVE  Numbered(Append(f, x))
  BY DEF Numbered

-----------------------------------------------------------------------------
(* The new record, and the file and buffer it goes to. *)
LEMMA NewRecordFacts ==
  ASSUME WalInv, up, file \in Seq(Rec)
  PROVE  /\ NewRecord \in Rec /\ NewRecord.cmd = appends + 1 /\ NewRecord.seq = sequence + 1
         /\ Append(buffer, NewRecord) \in Seq(Rec)
         /\ Len(Append(buffer, NewRecord)) = Len(buffer) + 1
         /\ file \in Seq(Rec) /\ buffer \in Seq(Rec) /\ Readable(file) = file
         /\ file \o Append(buffer, NewRecord) = Append(file \o buffer, NewRecord)
         /\ CountFirst => Numbered(file \o Append(buffer, NewRecord))
  <1>1. /\ NewRecord \in Rec /\ NewRecord.cmd = appends + 1 /\ NewRecord.seq = sequence + 1
    BY DEF NewRecord, Record, Rec, WalInv
  <1>2. buffer \in Seq(Rec)  BY DEF WalInv
  <1>3. Append(buffer, NewRecord) \in Seq(Rec) /\ Len(Append(buffer, NewRecord)) = Len(buffer) + 1
    BY <1>1, <1>2
  <1>4. file \o Append(buffer, NewRecord) = Append(file \o buffer, NewRecord)
    BY <1>1, <1>2
  <1>5. ASSUME CountFirst PROVE Numbered(Append(file \o buffer, NewRecord))
    <2>1. Numbered(file \o buffer) /\ sequence = Len(file) + Len(buffer)  BY <1>5 DEF WalInv
    <2>2. file \o buffer \in Seq(Rec) /\ Len(file \o buffer) = Len(file) + Len(buffer)
      BY <1>2, ConcatProperties
    <2> QED  BY <1>1, <2>1, <2>2, NumberedNext
  <1> QED  BY <1>1, <1>2, <1>3, <1>4, <1>5, ReadWhole

-----------------------------------------------------------------------------
(* What a step does to the log a reader sees and to the acknowledgements.  *)
LogStep == Abstract!LogStep \/ UNCHANGED <<Payloads(Readable(file)), acked \ hidden>>

(* The empty file of a first start. *)
LEMMA InitInv ==
  ASSUME WalInit
  PROVE  WalInv /\ Abstract!LogInit
  <1>1. file = <<>> /\ file \in Seq(Rec) /\ Readable(file) = <<>>
    <2>1. <<>> \in Seq(Rec)  OBVIOUS
    <2>2. file = <<>>         BY DEF WalInit
    <2> QED  BY <2>1, <2>2, ReadWhole
  <1>2. Payloads(<<>>) = <<>>  BY DEF Payloads
  <1>3. Numbered(<<>>) /\ <<>> \o <<>> = <<>>  BY DEF Numbered
  <1>4. WalInv
    BY <1>1, <1>3 DEF WalInit, WalInv
  <1> QED  BY <1>1, <1>2, <1>4 DEF Abstract!LogInit, WalInit

(* What the process writes is a sequence of pieces. *)
LEMMA WritesPieces ==
  ASSUME WalInv, NEW w \in CutKinds
  PROVE  /\ NewRecord \in Rec /\ Append(buffer, NewRecord) \in Seq(Rec)
         /\ Len(Append(buffer, NewRecord)) = Len(buffer) + 1 /\ Len(buffer) \in Nat
         /\ buffer \in Seq(Piece) /\ <<NewRecord>> \in Seq(Piece) /\ <<Cut(w)>> \in Seq(Piece)
         /\ \A k \in 0..Len(buffer) : /\ SubSeq(Append(buffer, NewRecord), 1, k) \in Seq(Rec)
                                      /\ SubSeq(Append(buffer, NewRecord), 1, k) \in Seq(Piece)
  <1>1. NewRecord \in Rec  BY DEF NewRecord, Record, Rec, WalInv
  <1>2. Rec \subseteq Piece /\ Cut(w) \in Piece  BY DEF Piece
  <1>3. buffer \in Seq(Rec)  BY DEF WalInv
  <1>4. PICK g \in Seq(Rec) : g = Append(buffer, NewRecord)
    <2>1. Append(buffer, NewRecord) \in Seq(Rec)  BY <1>1, <1>3
    <2> QED  BY <2>1
  <1>5. Len(g) = Len(buffer) + 1 /\ Len(buffer) \in Nat  BY <1>1, <1>3, <1>4
  <1>6. \A k \in 0..Len(buffer) : SubSeq(g, 1, k) \in Seq(Rec)
    <2> TAKE k \in 0..Len(buffer)
    <2>1. \A j \in 1..k : g[j] \in Rec  BY <1>5, ElementOfSeq
    <2>2. 1 \in Int /\ k \in Int  BY <1>5
    <2> QED  BY <2>1, <2>2, SubSeqProperties
  <1>7. \A h \in Seq(Rec) : h \in Seq(Piece)  BY <1>2, SeqMonotonic
  <1>8. <<NewRecord>> \in Seq(Piece) /\ <<Cut(w)>> \in Seq(Piece)  BY <1>1, <1>2
  <1> QED  BY <1>1, <1>3, <1>4, <1>5, <1>6, <1>7, <1>8

(* append to a whole file: the buffer and the new record reach it. *)
LEMMA AppendWhole ==
  ASSUME WalInv, AppendOk, file \in Seq(Rec)
  PROVE  WalInv' /\ LogStep
  <1> DEFINE g == Append(buffer, NewRecord)
  <1>1. /\ up /\ up' /\ buffer' = <<>> /\ sequence' = sequence + 1 /\ appends' = appends + 1
        /\ acked' = acked \cup {appends + 1} /\ file' = file \o buffer \o <<NewRecord>>
        /\ hidden' = hidden
    BY ReadWhole DEF AppendOk
  <1>2. /\ g \in Seq(Rec) /\ Len(g) = Len(buffer) + 1 /\ Readable(file) = file
        /\ file \o g = Append(file \o buffer, NewRecord)
        /\ CountFirst => Numbered(file \o g)
        /\ NewRecord \in Rec /\ NewRecord.cmd = appends + 1 /\ buffer \in Seq(Rec)
    BY <1>1, NewRecordFacts
  <1>3. file' = file \o g
    <2>1. file \o buffer \in Seq(Rec)  BY <1>2, ConcatProperties
    <2> QED  BY <1>1, <1>2, <2>1
  <1>4. file' \in Seq(Rec) /\ Len(file') = Len(file) + Len(buffer) + 1
    BY <1>2, <1>3, ConcatProperties
  <1>5. Readable(file') = file'  BY <1>4, ReadWhole
  <1>6. /\ Abstract!Extends(Payloads(file'), Payloads(file))
        /\ Abstract!Stored(Payloads(file)) \subseteq Abstract!Stored(Payloads(file'))
        /\ \A k \in DOMAIN g : g[k].cmd \in Abstract!Stored(Payloads(file'))
    BY <1>2, <1>3, Grow
  <1>7. appends + 1 \in Abstract!Stored(Payloads(file'))
    <2>1. Len(g) \in DOMAIN g /\ g[Len(g)] = NewRecord  BY <1>2
    <2> QED  BY <2>1, <1>2, <1>6
  <1>8. /\ acked' \ hidden' \subseteq Abstract!Stored(Payloads(file'))
        /\ acked \ hidden \subseteq acked' \ hidden'
    BY <1>1, <1>2, <1>6, <1>7 DEF WalInv
  <1>9. CountFirst => Numbered(file' \o buffer') /\ sequence' = Len(file') + Len(buffer')
    <2>1. file' \o buffer' = file' /\ Len(buffer') = 0  BY <1>1, <1>4
    <2>2. CountFirst => sequence = Len(file) + Len(buffer)  BY <1>1 DEF WalInv
    <2>3. Len(file) \in Nat /\ Len(buffer) \in Nat  BY <1>2
    <2>4. CountFirst => Numbered(file')  BY <1>2, <1>3
    <2>5. CountFirst => sequence' = Len(file') + 0  BY <1>1, <1>4, <2>2, <2>3
    <2> QED  BY <2>1, <2>4, <2>5
  <1>10. CountFirst => Numbered(Readable(file'))  BY <1>2, <1>3, <1>5
  <1>11. buffer' \in Seq(Rec) /\ sequence' \in Nat /\ appends' \in Nat /\ acked' \subseteq 1..appends'
    BY <1>1 DEF WalInv
  <1>12. WalInv'
    <2>1. (acked \ hidden \subseteq Abstract!Stored(Payloads(Readable(file))))'
      BY <1>5, <1>8 DEF Abstract!Stored
    <2>2. (CountFirst => Numbered(Readable(file)))'  BY <1>10
    <2>3. (CountFirst => Numbered(file \o buffer) /\ sequence = Len(file) + Len(buffer))'  BY <1>9
    <2>4. (file \in Seq(Rec))' /\ up'  BY <1>1, <1>4
    <2>5. (/\ buffer \in Seq(Rec) /\ sequence \in Nat /\ appends \in Nat
           /\ acked \subseteq 1..appends)'
      BY <1>11
    <2> QED  BY <2>1, <2>2, <2>3, <2>4, <2>5 DEF WalInv
  <1>13. Abstract!LogStep
    BY <1>2, <1>5, <1>6, <1>8 DEF Abstract!LogStep, Abstract!Stored, Abstract!Extends
  <1> QED  BY <1>12, <1>13 DEF LogStep

(* append behind a torn length prefix: a reader gets what it got before,   *)
(* and the acknowledgement is one that replay will not find.               *)
LEMMA AppendBehind ==
  ASSUME WalInv, AppendOk, file \notin Seq(Rec)
  PROVE  WalInv' /\ LogStep
  <1>1. /\ up /\ up' /\ buffer' = <<>> /\ sequence' = sequence + 1 /\ appends' = appends + 1
        /\ acked' = acked \cup {appends + 1} /\ file' = file \o buffer \o <<NewRecord>>
        /\ hidden' = IF TornPrefix(file) THEN hidden \cup {appends + 1} ELSE hidden
    BY DEF AppendOk
  <1>2. PICK r \in Seq(Rec) : CutAt(file, r, "length")
    BY <1>1 DEF WalInv
  <1>3. "length" \in CutKinds  BY DEF CutKinds
  <1>4. Readable(file) = r /\ TornPrefix(file)  BY <1>2, <1>3, ReadCut
  <1>5. CutAt(file', r, "length")
    <2>1. buffer \in Seq(Piece) /\ <<NewRecord>> \in Seq(Piece)  BY <1>3, WritesPieces
    <2>2. CutAt(file \o buffer, r, "length")  BY <1>2, <1>3, <2>1, CutGrows
    <2> QED  BY <1>1, <1>3, <2>1, <2>2, CutGrows
  <1>6. Readable(file') = r /\ file' \notin Seq(Rec)  BY <1>3, <1>5, ReadCut
  <1>7. acked' \ hidden' = acked \ hidden
    <2>1. appends + 1 \notin acked  BY DEF WalInv
    <2> QED  BY <1>1, <1>4, <2>1
  <1>8. UNCHANGED <<Payloads(Readable(file)), acked \ hidden>>  BY <1>4, <1>6, <1>7
  <1>9. WalInv'
    <2>1. (acked \ hidden \subseteq Abstract!Stored(Payloads(Readable(file))))'
      BY <1>4, <1>6, <1>7 DEF WalInv, Abstract!Stored
    <2>2. (CountFirst => Numbered(Readable(file)))'  BY <1>4, <1>6 DEF WalInv
    <2>3. (\E s \in Seq(Rec), w \in CutKinds : CutAt(file, s, w) /\ (up => w = "length"))'
      BY <1>3, <1>5
    <2>4. (/\ buffer \in Seq(Rec) /\ sequence \in Nat /\ appends \in Nat
           /\ acked \subseteq 1..appends)'
      BY <1>1 DEF WalInv
    <2> QED  BY <1>1, <1>6, <2>1, <2>2, <2>3, <2>4 DEF WalInv
  <1> QED  BY <1>8, <1>9 DEF LogStep

(* A failed flush changes the buffer only. *)
LEMMA AppendFailsInv ==
  ASSUME WalInv, AppendFails
  PROVE  WalInv' /\ LogStep
  <1>1. /\ up /\ up' /\ file' = file /\ acked' = acked /\ appends' = appends + 1
        /\ buffer' = Append(buffer, NewRecord) /\ hidden' = hidden
        /\ sequence' = IF CountFirst THEN sequence + 1 ELSE sequence
    BY DEF AppendFails
  <1>2. "length" \in CutKinds  BY DEF CutKinds
  <1>3. buffer' \in Seq(Rec) /\ Len(buffer') = Len(buffer) + 1 /\ Len(buffer) \in Nat
    BY <1>1, <1>2, WritesPieces
  <1>4. sequence' \in Nat /\ appends' \in Nat /\ acked' \subseteq 1..appends'
    BY <1>1 DEF WalInv
  <1>5. ASSUME CountFirst, file \in Seq(Rec)
        PROVE  Numbered(file' \o buffer') /\ sequence' = Len(file') + Len(buffer')
    <2>1. sequence = Len(file) + Len(buffer)  BY <1>1, <1>5 DEF WalInv
    <2>2. Len(file) \in Nat  BY <1>5
    <2>3. Numbered(file \o buffer')  BY <1>1, <1>5, NewRecordFacts
    <2> QED  BY <1>1, <1>3, <1>5, <2>1, <2>2, <2>3
  <1>6. WalInv'
    <2>1. (\/ file \in Seq(Rec)
           \/ \E r \in Seq(Rec), w \in CutKinds : CutAt(file, r, w) /\ (up => w = "length"))'
      BY <1>1 DEF WalInv
    <2>2. (acked \ hidden \subseteq Abstract!Stored(Payloads(Readable(file))))'
      BY <1>1 DEF WalInv, Abstract!Stored
    <2>3. (CountFirst => Numbered(Readable(file)))'  BY <1>1 DEF WalInv
    <2>4. (CountFirst /\ file \in Seq(Rec) =>
             Numbered(file \o buffer) /\ sequence = Len(file) + Len(buffer))'
      BY <1>1, <1>5
    <2> QED  BY <1>1, <1>3, <1>4, <2>1, <2>2, <2>3, <2>4 DEF WalInv
  <1> QED  BY <1>1, <1>6 DEF LogStep

(* The file that a crash in the middle of a write leaves of a whole one. *)
LEMMA CutWrite ==
  ASSUME WalInv, up, file \in Seq(Rec), NEW k \in 0..Len(buffer), NEW w \in CutKinds, NEW f,
         f = file \o SubSeq(Append(buffer, NewRecord), 1, k) \o <<Cut(w)>>
  PROVE  /\ \E r \in Seq(Rec) : CutAt(f, r, w)
         /\ Abstract!Extends(Payloads(Readable(f)), Payloads(Readable(file)))
         /\ acked \ hidden \subseteq Abstract!Stored(Payloads(Readable(f)))
         /\ CountFirst => Numbered(Readable(f))
  <1>1. PICK g \in Seq(Rec) : g = Append(buffer, NewRecord)  BY NewRecordFacts
  <1>2. /\ Readable(file) = file /\ Len(g) = Len(buffer) + 1
        /\ buffer \in Seq(Rec) /\ (CountFirst => Numbered(file \o g))
    BY <1>1, NewRecordFacts
  <1>3. k \in 0..Len(g)  BY <1>2
  <1>4. PICK h \in Seq(Rec) : h = SubSeq(g, 1, k)  BY <1>1, WritesPieces
  <1>5. PICK r \in Seq(Rec) : r = file \o h  BY Together
  <1>6. CutAt(f, r, w)
    <2>1. r \in Seq(Piece) /\ <<Cut(w)>> \in Seq(Piece)
      <3>1. Rec \subseteq Piece  BY DEF Piece
      <3> QED  BY <3>1, SeqMonotonic, WritesPieces
    <2>2. PICK q \in Seq(Piece) : q = r \o <<Cut(w)>>  BY <2>1, ConcatProperties
    <2>3. f = q \o <<>> /\ <<>> \in Seq(Piece)  BY <1>1, <1>4, <1>5, <2>2
    <2> QED  BY <2>2, <2>3 DEF CutAt
  <1>7. Readable(f) = r  BY <1>6, ReadCut
  <1>8. /\ Abstract!Extends(Payloads(r), Payloads(file))
        /\ Abstract!Stored(Payloads(file)) \subseteq Abstract!Stored(Payloads(r))
    BY <1>2, <1>5, Grow
  <1>9. acked \ hidden \subseteq Abstract!Stored(Payloads(file))  BY <1>2 DEF WalInv
  <1>10. CountFirst => Numbered(r)  BY <1>2, <1>3, <1>4, <1>5, NumberedPart
  <1> QED  BY <1>2, <1>6, <1>7, <1>8, <1>9, <1>10

(* What a crash leaves of any file: a reader gets what it got before, or   *)
(* more of the records that were being written.                            *)
LEMMA CrashFile ==
  ASSUME WalInv, WalCrash
  PROVE  /\ \/ file' \in Seq(Rec)
            \/ \E r \in Seq(Rec), w \in CutKinds : CutAt(file', r, w)
         /\ acked \ hidden \subseteq Abstract!Stored(Payloads(Readable(file')))
         /\ CountFirst => Numbered(Readable(file'))
         /\ LogStep
  <1>1. up /\ acked' = acked /\ hidden' = hidden  BY DEF WalCrash
  <1>2. CASE file' = file
    BY <1>1, <1>2 DEF WalInv, LogStep
  <1>3. CASE \E k \in 0..Len(buffer), w \in Cuts :
               file' = file \o SubSeq(Append(buffer, NewRecord), 1, k) \o <<Cut(w)>>
    <2>1. PICK k \in 0..Len(buffer), w \in CutKinds :
            file' = file \o SubSeq(Append(buffer, NewRecord), 1, k) \o <<Cut(w)>>
      BY <1>3, WalAssumption DEF CutKinds
    <2>2. CASE file \in Seq(Rec)
      <3>1. /\ \E r \in Seq(Rec) : CutAt(file', r, w)
            /\ Abstract!Extends(Payloads(Readable(file')), Payloads(Readable(file)))
            /\ acked \ hidden \subseteq Abstract!Stored(Payloads(Readable(file')))
            /\ CountFirst => Numbered(Readable(file'))
        BY <1>1, <2>1, <2>2, CutWrite
      <3>2. Abstract!LogStep
        BY <1>1, <3>1 DEF Abstract!LogStep, Abstract!Stored, Abstract!Extends
      <3> QED  BY <3>1, <3>2 DEF LogStep
    <2>3. CASE file \notin Seq(Rec)
      <3>1. PICK r \in Seq(Rec), v \in CutKinds : CutAt(file, r, v)  BY <2>3 DEF WalInv
      <3>2. CutAt(file', r, v)
        <4>1. /\ SubSeq(Append(buffer, NewRecord), 1, k) \in Seq(Piece)
              /\ <<Cut(w)>> \in Seq(Piece)
          BY WritesPieces
        <4>2. CutAt(file \o SubSeq(Append(buffer, NewRecord), 1, k), r, v)
          BY <3>1, <4>1, CutGrows
        <4> QED  BY <2>1, <4>1, <4>2, CutGrows
      <3>3. Readable(file) = r /\ Readable(file') = r  BY <3>1, <3>2, ReadCut
      <3> QED  BY <1>1, <3>2, <3>3 DEF WalInv, LogStep
    <2> QED  BY <2>2, <2>3
  <1> QED  BY <1>2, <1>3 DEF WalCrash

(* The process dies, between two writes or in the middle of one. *)
LEMMA CrashInv ==
  ASSUME WalInv, WalCrash
  PROVE  WalInv' /\ LogStep
  <1>1. /\ ~up' /\ buffer' = <<>> /\ acked' = acked /\ hidden' = hidden
        /\ sequence' = sequence /\ appends' \in Nat /\ acked' \subseteq 1..appends'
    BY DEF WalCrash, WalInv
  <1>2. (acked \ hidden \subseteq Abstract!Stored(Payloads(Readable(file))))'
    BY <1>1, CrashFile DEF Abstract!Stored
  <1>3. (buffer \in Seq(Rec) /\ buffer = <<>> /\ sequence \in Nat /\ appends \in Nat)'
    BY <1>1 DEF WalInv
  <1>4. (CountFirst => Numbered(Readable(file)))'  BY CrashFile
  <1> QED  BY <1>1, <1>2, <1>3, <1>4, CrashFile DEF WalInv

(* After a restart the sequence goes on from the number of records. *)
LEMMA LastSeqIsLen ==
  ASSUME NEW f, Readable(f) \in Seq(Rec)
  PROVE  LastSeq(f) \in Nat /\ (Numbered(Readable(f)) => LastSeq(f) = Len(Readable(f)))
  <1>1. CASE Readable(f) = <<>>  BY <1>1 DEF LastSeq
  <1>2. CASE Readable(f) # <<>>
    <2>1. Len(Readable(f)) \in DOMAIN Readable(f)  BY <1>2, EmptySeq
    <2>2. LastSeq(f) = Readable(f)[Len(Readable(f))].seq  BY <1>2 DEF LastSeq
    <2> QED  BY <2>1, <2>2, KindOfRecord DEF Numbered
  <1> QED  BY <1>1, <1>2

(* open truncates the cut that replay reports, leaves a torn prefix that   *)
(* it does not see, and finds the last number.                             *)
LEMMA OpenInv ==
  ASSUME WalInv, Open
  PROVE  WalInv' /\ LogStep
  <1>1. /\ ~up /\ up' /\ buffer' = buffer /\ buffer = <<>> /\ acked' = acked /\ hidden' = hidden
        /\ appends' = appends /\ sequence' = LastSeq(file)
        /\ file' = Readable(file) \/ (file' = file /\ TRUE \in ReadsClean(file))
    BY DEF Open, WalInv, ReadsClean
  <1>2. PICK r \in Seq(Rec) :
          /\ Readable(file) = r /\ Readable(file') = r
          /\ file' = r \/ (CutAt(file', r, "length") /\ file' \notin Seq(Rec))
    <2>1. CASE file \in Seq(Rec)  BY <1>1, <2>1, ReadWhole
    <2>2. CASE file \notin Seq(Rec)
      <3>1. PICK r \in Seq(Rec), w \in CutKinds : CutAt(file, r, w)  BY <2>2 DEF WalInv
      <3>2. Readable(file) = r /\ (TRUE \in ReadsClean(file) => w = "length")
        BY <3>1, ReadCut
      <3> QED  BY <1>1, <2>2, <3>1, <3>2, ReadWhole
    <2> QED  BY <2>1, <2>2
  <1>3. sequence' \in Nat /\ (CountFirst => Numbered(r) /\ sequence' = Len(r))
    BY <1>1, <1>2, LastSeqIsLen DEF WalInv
  <1>4. WalInv'
    <2>1. (\/ file \in Seq(Rec)
           \/ \E s \in Seq(Rec), w \in CutKinds : CutAt(file, s, w) /\ (up => w = "length"))'
      BY <1>2 DEF CutKinds
    <2>2. (acked \ hidden \subseteq Abstract!Stored(Payloads(Readable(file))))'
      BY <1>1, <1>2 DEF WalInv, Abstract!Stored
    <2>3. (CountFirst => Numbered(Readable(file)))'  BY <1>2, <1>3
    <2>4. (CountFirst /\ file \in Seq(Rec) =>
             Numbered(file \o buffer) /\ sequence = Len(file) + Len(buffer))'
      <3>1. r \o buffer' = r /\ Len(buffer') = 0 /\ Len(r) \in Nat  BY <1>1
      <3>2. CountFirst => sequence' = Len(r) + 0  BY <1>3, <3>1
      <3> QED  BY <1>2, <1>3, <3>1, <3>2
    <2>5. (/\ buffer \in Seq(Rec) /\ sequence \in Nat /\ appends \in Nat
           /\ acked \subseteq 1..appends)'
      BY <1>1, <1>3 DEF WalInv
    <2> QED  BY <1>1, <2>1, <2>2, <2>3, <2>4, <2>5 DEF WalInv
  <1>5. LogStep
    BY <1>1, <1>2 DEF LogStep
  <1> QED  BY <1>4, <1>5

(* Every step keeps the invariant and is a step of the durable log. *)
LEMMA NextInv ==
  ASSUME WalInv, [WalNext]_walVars
  PROVE  WalInv' /\ LogStep
  <1>1. CASE WalNext
    BY <1>1, AppendWhole, AppendBehind, AppendFailsInv, CrashInv, OpenInv DEF WalNext
  <1>2. CASE UNCHANGED walVars
    <2>1. /\ file' = file /\ buffer' = buffer /\ sequence' = sequence /\ up' = up
          /\ appends' = appends /\ acked' = acked /\ hidden' = hidden
      BY <1>2 DEF walVars
    <2>2. WalInv'  BY <2>1 DEF WalInv, Abstract!Stored
    <2> QED  BY <2>1, <2>2 DEF LogStep
  <1> QED  BY <1>1, <1>2

-----------------------------------------------------------------------------
(* Wal::append, the flush that fails, a crash at any byte of a write and   *)
(* Wal::open together are a durable log for what is acknowledged while no  *)
(* torn length prefix is in the file: what a reader gets only grows and    *)
(* holds every such append.  Behind a torn prefix, which replay does not   *)
(* see (wal.rs:146), nothing is promised.                                  *)
THEOREM ImplementsDurableLog == WalSpec => Durable
  <1>1. WalInit => WalInv /\ Abstract!LogInit  BY InitInv
  <1>2. WalInv /\ [WalNext]_walVars => WalInv' /\ LogStep  BY NextInv
  <1>3. LogStep => [Abstract!LogStep]_<<Payloads(Readable(file)), acked \ hidden>>  BY DEF LogStep
  <1> QED  BY <1>1, <1>2, <1>3, PTL DEF WalSpec, Durable, Abstract!LogSpec

(* The records a reader of the command WAL gets are numbered 1, 2, 3, ...  *)
(* after any failed flushes and crashes at any byte: append counts before  *)
(* it writes, so a record left in the BufWriter keeps its number, and open *)
(* goes on from the last record it can read.                               *)
THEOREM RecordsNumbered ==
  ASSUME CountFirst
  PROVE  WalSpec => []NumberedByOne
  <1>1. WalInit => WalInv  BY InitInv
  <1>2. WalInv /\ [WalNext]_walVars => WalInv'  BY NextInv
  <1>3. WalInv => NumberedByOne  BY DEF WalInv, Numbered, NumberedByOne
  <1> QED  BY <1>1, <1>2, <1>3, PTL DEF WalSpec
=============================================================================
