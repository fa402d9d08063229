----------------------------- MODULE Settlement -----------------------------
(***************************************************************************)
(* An order's way through the services: place_order and cancel_order of    *)
(* services/api, the engine server's connections, the event bridge and the *)
(* settlement worker, over the tables orders, balances, ledger_entries,    *)
(* trades and engine_events.                                               *)
(*                                                                         *)
(* Each SQL statement outside a transaction and each transaction is one    *)
(* action.  The engine is reduced to what its callers see of it: an order  *)
(* is accepted or rejected, trades with makers at their price, rests or is *)
(* cancelled; OrderBook and Engine have the rest.  The event log holds the *)
(* events settlement looks at, an event's seq is its position.  Amounts    *)
(* are integers in units of 1/Scale, in which fees in basis points are     *)
(* exact: the columns are NUMERIC(38, 18) and round an amount that has     *)
(* more digits, which no lot or tick size excludes and which is left out.  *)
(***************************************************************************)
EXTENDS Integers, Sequences, FiniteSets, FiniteSetsExt

CONSTANTS
  Orders,        \* the ids of the orders callers may place
  Ord,           \* what the order with an id is, see OrderInput
  Users,
  Scale,         \* BPS_DENOMINATOR, 10_000 in the code
  MakerFeeBps, TakerFeeBps,
  Funds,         \* what every user has of either asset at the start, in whole units
  None,
  MaxRequests,   \* bound: place and cancel requests
  MaxFailures    \* bound: requests given up and connections broken

Asset == {"base", "quote"}
Conn  == {"api", "direct"}

(* A direct order comes over a connection of its own, as the market        *)
(* maker's do: the API knows nothing of it.  cid is the client_order_id.   *)
(* place_order asks for a price and does not look at its sign.             *)
OrderInput ==
  [user: Users, side: {"buy", "sell"}, type: {"limit", "ioc", "post_only"},
   price: Int, qty: Nat \ {0}, cid: STRING \cup {None}, via: Conn]

Status == {"pending", "new", "partial", "filled", "canceled"}
Row    == [status: Status, filled: Nat]

(* Nobody is on both sides: self-trade prevention is OrderBook's. *)
ASSUME SettlementAssumption ==
  /\ Orders \subseteq Nat \ {0} /\ Ord \in [Orders -> OrderInput]
  /\ IsFiniteSet(Orders) /\ IsFiniteSet(Users)
  /\ Scale \in Nat \ {0} /\ MakerFeeBps \in 0..Scale /\ TakerFeeBps \in 0..Scale
  /\ Funds \in Nat /\ MaxRequests \in Nat
  /\ MaxFailures \in Nat /\ None \notin Row /\ None \notin Status \cup {"rejected"}
  /\ \A o, p \in Orders : Ord[o].user = Ord[p].user => Ord[o].side = Ord[p].side

VARIABLES
  rows,       \* orders: status and filled_quantity, None if there is no row
  bal,        \* balances: available and locked
  ledger,     \* ledger_entries: the sum of amount per user and asset
  trades,     \* trades: the seqs of the fills in the table
  stored,     \* engine_events: the seqs in the table ...
  processed,  \* ... and those with processed_at
  pc,         \* where the place request of an order is
  cancel,     \* where its cancel request is
  answer,     \* the engine's reply to a place request, until the API has it
  queue,      \* per connection: requests the server has not read
  busy,       \* the order that is being matched, and its connection
  live,       \* what the engine's book has left of an order
  log,        \* the engine's event log
  bundle,     \* per connection: the events of a request, not yet broadcast
  link,       \* the bridge is connected
  channel,    \* the events on their way to the bridge
  failures    \* counts them

db     == <<rows, bal, ledger, trades>>
api    == <<pc, cancel, answer>>
engine == <<queue, busy, live, log, bundle>>
bridge == <<link, channel, stored, processed>>
vars   == <<db, api, engine, bridge, failures>>

Failure == failures < MaxFailures /\ failures' = failures + 1

-----------------------------------------------------------------------------
(* balance_lock_params and lock_obligation: the same for these types. *)
LockAsset(o)     == IF Ord[o].side = "buy" THEN "quote" ELSE "base"
Obligation(o, q) == q * Scale * (IF Ord[o].side = "buy" THEN Ord[o].price ELSE 1)

(* available and locked of one balance moved by these amounts. *)
Move(b, u, a, av, lk) ==
  [b EXCEPT ![u][a] = [available |-> @.available + av, locked |-> @.locked + lk]]

(* Mutant of Valid: the CHECKs are missing. *)
ValidAlways(b) == TRUE

(* The CHECKs of the table. *)
Valid(b) == \A u \in Users, a \in Asset : b[u][a].available >= 0 /\ b[u][a].locked >= 0

Lock(b, o, amount) == Move(b, Ord[o].user, LockAsset(o), -amount, amount)

SetStatus(o, s) == rows' = [rows EXCEPT ![o].status = s]

Init ==
  /\ rows = [o \in Orders |-> None]
  /\ bal = [u \in Users |-> [a \in Asset |-> [available |-> Funds * Scale, locked |-> 0]]]
  /\ ledger = [u \in Users |-> [a \in Asset |-> Funds * Scale]]
  /\ trades = {} /\ stored = {} /\ processed = {}
  /\ pc = [o \in Orders |-> "none"] /\ cancel = [o \in Orders |-> "none"]
  /\ answer = [o \in Orders |-> None]
  /\ queue = [c \in Conn |-> <<>>] /\ busy = None /\ live = [o \in Orders |-> 0]
  /\ log = <<>> /\ bundle = [c \in Conn |-> <<>>]
  /\ link = TRUE /\ channel = <<>> /\ failures = 0

-----------------------------------------------------------------------------
(* place_order of the API, up to the engine. *)

(* find_by_client_order_id. *)
SameCid(o) ==
  {p \in Orders : rows[p] # None /\ Ord[o].cid # None
                  /\ Ord[p].cid = Ord[o].cid /\ Ord[p].user = Ord[o].user}

Started == {o \in Orders : pc[o] # "none"}
Request == Cardinality(Started) + Cardinality({o \in Orders : cancel[o] # "none"}) < MaxRequests

(* The idempotency check.  What else may be refused before the lock (bad   *)
(* input, an unknown or halted market) leaves nothing behind.              *)
PlaceOrder(o) ==
  /\ pc[o] = "none" /\ Ord[o].via = "api" /\ Request
  /\ pc' = [pc EXCEPT ![o] = IF SameCid(o) = {} THEN "checked" ELSE "done"]
  /\ UNCHANGED <<db, cancel, answer, engine, bridge, failures>>

(* Mutant of TryLockBalance: the price of one unit is locked. *)
TryLockUnit(o) ==
  /\ pc[o] = "checked"
  /\ bal' = Lock(bal, o, Obligation(o, 1))
  /\ pc' = [pc EXCEPT ![o] = "locked"]
  /\ UNCHANGED <<rows, ledger, trades, cancel, answer, engine, bridge, failures>>

(* try_lock_balance: one statement checks and locks.  A buy order with a   *)
(* negative price has a negative amount: it moves locked to available.     *)
TryLockBalance(o) ==
  /\ pc[o] = "checked"
  /\ LET b == Lock(bal, o, Obligation(o, Ord[o].qty))
     IN IF Valid(b) THEN bal' = b /\ pc' = [pc EXCEPT ![o] = "locked"]
        ELSE pc' = [pc EXCEPT ![o] = "done"] /\ UNCHANGED bal
  /\ UNCHANGED <<rows, ledger, trades, cancel, answer, engine, bridge, failures>>

(* insert: the unique key on the client_order_id or the CHECK on the price *)
(* may refuse the row; the handler returns and the lock stays as it is.    *)
InsertPending(o) ==
  /\ pc[o] = "locked"
  /\ IF SameCid(o) = {} /\ Ord[o].price > 0
     THEN /\ rows' = [rows EXCEPT ![o] = [status |-> "pending", filled |-> 0]]
          /\ pc' = [pc EXCEPT ![o] = "inserted"]
     ELSE pc' = [pc EXCEPT ![o] = "leaked"] /\ UNCHANGED rows
  /\ UNCHANGED <<bal, ledger, trades, cancel, answer, engine, bridge, failures>>

(* EngineClient::place. *)
Send(o) ==
  /\ pc[o] = "inserted"
  /\ queue' = [queue EXCEPT !["api"] = Append(@, [kind |-> "place", id |-> o])]
  /\ pc' = [pc EXCEPT ![o] = "sent"]
  /\ UNCHANGED <<db, cancel, answer, busy, live, log, bundle, bridge, failures>>

(* The client gives up, before or after the request reached the engine. *)
GiveUp(o) ==
  /\ pc[o] \in {"inserted", "sent"} /\ Failure
  /\ pc' = [pc EXCEPT ![o] = "unlocking"]
  /\ UNCHANGED <<db, cancel, answer, engine, bridge>>

Rejected(o) ==
  /\ pc[o] = "sent" /\ answer[o] = "rejected"
  /\ pc' = [pc EXCEPT ![o] = "unlocking"]
  /\ UNCHANGED <<db, cancel, answer, engine, bridge, failures>>

(* The spawned unlock_balance; the row stays pending.  If a CHECK refuses  *)
(* the update the task logs the error.                                     *)
UnlockBalance(o) ==
  /\ pc[o] = "unlocking"
  /\ LET b == Lock(bal, o, -Obligation(o, Ord[o].qty))
     IN bal' = IF Valid(b) THEN b ELSE bal
  /\ pc' = [pc EXCEPT ![o] = "done"]
  /\ UNCHANGED <<rows, ledger, trades, cancel, answer, engine, bridge, failures>>

(* update_status with the status of the ack, whatever the row has by now. *)
Acked(o) ==
  /\ pc[o] = "sent" /\ answer[o] \notin {None, "rejected"}
  /\ SetStatus(o, answer[o])
  /\ pc' = [pc EXCEPT ![o] = "done"]
  /\ UNCHANGED <<bal, ledger, trades, cancel, answer, engine, bridge, failures>>

(* A direct client places its order without the API. *)
PlaceDirect(o) ==
  /\ pc[o] = "none" /\ Ord[o].via = "direct" /\ Request
  /\ queue' = [queue EXCEPT !["direct"] = Append(@, [kind |-> "place", id |-> o])]
  /\ pc' = [pc EXCEPT ![o] = "done"]
  /\ UNCHANGED <<db, cancel, answer, busy, live, log, bundle, bridge, failures>>

-----------------------------------------------------------------------------
(* cancel_order of the API. *)
Final(s) == s \in {"filled", "canceled", "rejected"}

(* The row is read and the request sent in one step: if the row becomes    *)
(* final in between, the engine does not have the order any more and       *)
(* rejects the request.                                                    *)
CancelOrder(o) ==
  /\ cancel[o] = "none" /\ Ord[o].via = "api" /\ Request
  /\ rows[o] # None /\ ~Final(rows[o].status)
  /\ queue' = [queue EXCEPT !["api"] = Append(@, [kind |-> "cancel", id |-> o])]
  /\ cancel' = [cancel EXCEPT ![o] = "sent"]
  /\ UNCHANGED <<db, pc, answer, busy, live, log, bundle, bridge, failures>>

CancelGivesUp(o) ==
  /\ cancel[o] \in {"sent", "acked", "rejected"} /\ Failure
  /\ cancel' = [cancel EXCEPT ![o] = "done"]
  /\ UNCHANGED <<db, pc, answer, engine, bridge>>

(* update_status after the ack; a reject is an error response only. *)
CancelAnswered(o) ==
  /\ cancel[o] \in {"acked", "rejected"}
  /\ IF cancel[o] = "acked" THEN SetStatus(o, "canceled") ELSE UNCHANGED rows
  /\ cancel' = [cancel EXCEPT ![o] = "done"]
  /\ UNCHANGED <<bal, ledger, trades, pc, answer, engine, bridge, failures>>

-----------------------------------------------------------------------------
(* The engine server.  A connection handles a request under the state      *)
(* mutex (busy), answers, and broadcasts the events under the mutex again; *)
(* in between the other connection may be served.                          *)
Crosses(o, m) ==
  /\ Ord[o].side # Ord[m].side
  /\ IF Ord[o].side = "buy" THEN Ord[m].price <= Ord[o].price ELSE Ord[m].price >= Ord[o].price

Makers(o) == {m \in Orders \ {o} : live[m] > 0 /\ Crosses(o, m)}

(* Any order at the best price: OrderBook has the queue of a level. *)
BestMakers(o) ==
  {m \in Makers(o) : \A n \in Makers(o) :
     IF Ord[o].side = "buy" THEN Ord[m].price <= Ord[n].price ELSE Ord[m].price >= Ord[n].price}

Fetches(c, kind) ==
  /\ busy = None /\ bundle[c] = <<>>
  /\ queue[c] # <<>> /\ Head(queue[c]).kind = kind
  /\ queue' = [queue EXCEPT ![c] = Tail(@)]

Emit(c, e) ==
  /\ log' = Append(log, e)
  /\ bundle' = [bundle EXCEPT ![c] = Append(@, Len(log) + 1)]

Reply(o, s) == answer' = [answer EXCEPT ![o] = s]

(* validate_wire_order and immediate_pre_reject. *)
Refuses(o) == Ord[o].price <= 0 \/ (Ord[o].type = "post_only" /\ Makers(o) # {})

(* Mutant of EngineReject: the error path does not answer. *)
EngineRejectSilent(c) ==
  LET o == Head(queue[c]).id
  IN /\ Fetches(c, "place")
     /\ Refuses(o)
     /\ UNCHANGED <<db, api, busy, live, log, bundle, bridge, failures>>

EngineReject(c) ==
  LET o == Head(queue[c]).id
  IN /\ Fetches(c, "place")
     /\ Refuses(o)
     /\ Reply(o, "rejected")
     /\ UNCHANGED <<db, pc, cancel, busy, live, log, bundle, bridge, failures>>

EngineAccept(c) ==
  LET o == Head(queue[c]).id
  IN /\ Fetches(c, "place")
     /\ ~Refuses(o)
     /\ busy' = [id |-> o, conn |-> c]
     /\ live' = [live EXCEPT ![o] = Ord[o].qty]
     /\ Emit(c, [kind |-> "accepted", id |-> o])
     /\ UNCHANGED <<db, api, bridge, failures>>

EngineFill(m) ==
  /\ busy # None /\ live[busy.id] > 0 /\ m \in BestMakers(busy.id)
  /\ LET o == busy.id
         q == IF live[o] < live[m] THEN live[o] ELSE live[m]
     IN /\ live' = [live EXCEPT ![o] = @ - q, ![m] = @ - q]
        /\ Emit(busy.conn, [kind |-> "fill", taker |-> o, maker |-> m, price |-> Ord[m].price, qty |-> q])
  /\ UNCHANGED <<db, api, queue, busy, bridge, failures>>

EngineAnswer ==
  /\ busy # None
  /\ LET o == busy.id
     IN /\ live[o] = 0 \/ Makers(o) = {}
        /\ IF Ord[o].type = "ioc" /\ live[o] > 0
           THEN /\ live' = [live EXCEPT ![o] = 0]
                /\ Emit(busy.conn, [kind |-> "canceled", id |-> o])
                /\ Reply(o, "canceled")
           ELSE /\ Reply(o, IF live[o] = 0 THEN "filled"
                            ELSE IF live[o] < Ord[o].qty THEN "partial" ELSE "new")
                /\ UNCHANGED <<live, log, bundle>>
  /\ busy' = None
  /\ UNCHANGED <<db, pc, cancel, queue, bridge, failures>>

EngineCancel(c) ==
  LET o == Head(queue[c]).id
  IN /\ Fetches(c, "cancel")
     /\ IF live[o] > 0
        THEN live' = [live EXCEPT ![o] = 0] /\ Emit(c, [kind |-> "canceled", id |-> o])
        ELSE UNCHANGED <<live, log, bundle>>
     /\ cancel' = [cancel EXCEPT ![o] = IF @ # "sent" THEN @
                                        ELSE IF live[o] > 0 THEN "acked" ELSE "rejected"]
     /\ UNCHANGED <<db, pc, answer, busy, bridge, failures>>

(* The second critical section.  Nobody receives what is broadcast while   *)
(* the bridge is not connected.                                            *)
Broadcast(c) ==
  /\ busy = None /\ bundle[c] # <<>>
  /\ bundle' = [bundle EXCEPT ![c] = <<>>]
  /\ channel' = IF link THEN channel \o bundle[c] ELSE channel
  /\ UNCHANGED <<db, api, queue, busy, live, log, link, stored, processed, failures>>

(* The API's connection breaks: reader_loop drops the pending requests and *)
(* their callers get an error, unless the answer is already theirs.        *)
(* What the server has not read or not broadcast yet is lost, because      *)
(* handle_connection returns when it cannot answer, or handled all the     *)
(* same.                                                                   *)
ConnectionBreaks ==
  /\ busy = None /\ Failure
  /\ \/ UNCHANGED <<queue, bundle>>
     \/ queue' = [queue EXCEPT !["api"] = <<>>] /\ bundle' = [bundle EXCEPT !["api"] = <<>>]
  /\ \E lost \in SUBSET {o \in Orders : pc[o] = "sent"} :
       /\ \A o \in Orders : pc[o] = "sent" /\ answer[o] = None => o \in lost
       /\ pc' = [o \in Orders |-> IF o \in lost THEN "unlocking" ELSE pc[o]]
  /\ \E lost \in SUBSET {o \in Orders : cancel[o] \in {"sent", "acked", "rejected"}} :
       /\ \A o \in Orders : cancel[o] = "sent" => o \in lost
       /\ cancel' = [o \in Orders |-> IF o \in lost THEN "done" ELSE cancel[o]]
  /\ UNCHANGED <<db, answer, busy, live, log, bridge>>

-----------------------------------------------------------------------------
(* The bridge: run_once in a loop. *)
PersistEvent ==
  /\ link /\ channel # <<>>
  /\ stored' = stored \cup {Head(channel)}
  /\ channel' = Tail(channel)
  /\ UNCHANGED <<db, api, engine, link, processed, failures>>

Disconnect ==
  /\ link /\ Failure
  /\ link' = FALSE /\ channel' = <<>>
  /\ UNCHANGED <<db, api, engine, stored, processed>>

Reconnect ==
  /\ ~link /\ link' = TRUE
  /\ UNCHANGED <<db, api, engine, channel, stored, processed, failures>>

-----------------------------------------------------------------------------
(* The settlement worker: process_next settles the unprocessed event with  *)
(* the lowest seq and marks it, in one transaction.                        *)
Unprocessed == stored \ processed
IsNext(s)   == s \in Unprocessed /\ \A t \in Unprocessed : s <= t

(* The ledger entries of a fill: amounts moved between the two users, and  *)
(* the fees taken from what each of them receives.                         *)
Buyer(e)  == IF Ord[e.taker].side = "buy" THEN Ord[e.taker].user ELSE Ord[e.maker].user
Seller(e) == IF Ord[e.taker].side = "buy" THEN Ord[e.maker].user ELSE Ord[e.taker].user

Notional(e) == e.price * e.qty * Scale
Got(e)      == e.qty * Scale - e.qty * TakerFeeBps
Earned(e)   == Notional(e) - e.price * e.qty * MakerFeeBps

(* Mutant of ApplyFillLedger: the buyer pays its own limit. *)
ApplyFillAtLimit(b, e) ==
  LET limit == IF Ord[e.taker].side = "buy" THEN Ord[e.taker].price ELSE Ord[e.maker].price
  IN Move(Move(Move(Move(b, Buyer(e), "base", Got(e), 0),
                    Buyer(e), "quote", 0, -limit * e.qty * Scale),
               Seller(e), "quote", Earned(e), 0),
          Seller(e), "base", 0, -e.qty * Scale)

ApplyFillLedger(b, e) ==
  Move(Move(Move(Move(b, Buyer(e), "base", Got(e), 0),
                 Buyer(e), "quote", 0, -Notional(e)),
            Seller(e), "quote", Earned(e), 0),
       Seller(e), "base", 0, -(e.qty * Scale))

Entry(l, u, a, amount) == [l EXCEPT ![u][a] = @ + amount]

(* Mutant of FillAmounts: the fees have no entries. *)
FillAmountsNoFees(l, e) ==
  Entry(Entry(Entry(Entry(l, Buyer(e), "base", e.qty * Scale),
                    Buyer(e), "quote", -Notional(e)),
              Seller(e), "quote", Notional(e)),
        Seller(e), "base", -(e.qty * Scale))

FillAmounts(l, e) ==
  Entry(Entry(Entry(Entry(l, Buyer(e), "base", Got(e)),
                    Buyer(e), "quote", -Notional(e)),
              Seller(e), "quote", Earned(e)),
        Seller(e), "base", -(e.qty * Scale))

UpdateOrderFill(r, o, q) ==
  [r EXCEPT ![o] = [filled |-> @.filled + q,
                    status |-> IF @.filled + q >= Ord[o].qty THEN "filled" ELSE "partial"]]

(* Mutant of FillRows: the maker's row is forgotten. *)
FillRowsTaker(s) == UpdateOrderFill(rows, log[s].taker, log[s].qty)

(* settle_fill: a trade with this seq is there already, or both rows and   *)
(* the balances change.                                                    *)
FillRows(s) ==
  IF s \in trades THEN rows
  ELSE UpdateOrderFill(UpdateOrderFill(rows, log[s].taker, log[s].qty), log[s].maker, log[s].qty)
FillBal(s)    == IF s \in trades THEN bal ELSE ApplyFillLedger(bal, log[s])
FillLedger(s) == IF s \in trades THEN ledger ELSE FillAmounts(ledger, log[s])

(* settle_order_accepted: an order the API did not insert is inserted here *)
(* and its funds are locked.                                               *)
AcceptedRows(o) ==
  IF rows[o] # None THEN rows ELSE [rows EXCEPT ![o] = [status |-> "new", filled |-> 0]]

(* Mutant of AcceptedBal: locks for an order the API inserted, too. *)
AcceptedBalAlways(o) == Lock(bal, o, Obligation(o, Ord[o].qty))

AcceptedBal(o) ==
  IF rows[o] # None THEN bal ELSE Lock(bal, o, Obligation(o, Ord[o].qty))

(* settle_cancel: nothing to do for a row that is already final. *)
Closed(o) == rows[o].status \in {"canceled", "filled"}
CanceledRows(o) == IF Closed(o) THEN rows ELSE [rows EXCEPT ![o].status = "canceled"]
CanceledBal(o) ==
  IF Closed(o) THEN bal ELSE Lock(bal, o, -Obligation(o, Ord[o].qty - rows[o].filled))

(* The rows fetch_order must find, and what the transaction leaves. *)
Needed(e) == CASE e.kind = "fill" -> {e.taker, e.maker}
               [] e.kind = "canceled" -> {e.id}
               [] OTHER -> {}
NewRows(s) ==
  CASE log[s].kind = "fill" -> FillRows(s)
    [] log[s].kind = "canceled" -> CanceledRows(log[s].id)
    [] OTHER -> AcceptedRows(log[s].id)
NewBal(s) ==
  CASE log[s].kind = "fill" -> FillBal(s)
    [] log[s].kind = "canceled" -> CanceledBal(log[s].id)
    [] OTHER -> AcceptedBal(log[s].id)

Settleable(s) == (\A o \in Needed(log[s]) : rows[o] # None) /\ Valid(NewBal(s))

ProcessNext(s) ==
  /\ IsNext(s)
  /\ Settleable(s)
  /\ rows' = NewRows(s) /\ bal' = NewBal(s)
  /\ IF log[s].kind = "fill"
     THEN trades' = trades \cup {s} /\ ledger' = FillLedger(s)
     ELSE UNCHANGED <<trades, ledger>>
  /\ processed' = processed \cup {s}
  /\ UNCHANGED <<api, engine, link, channel, stored, failures>>

(* The transaction fails: a row is missing or a CHECK refuses.  The worker *)
(* exits and takes the bridge task with it; the supervisor restarts both.  *)
ProcessFails(s) ==
  /\ IsNext(s) /\ ~Settleable(s)
  /\ link /\ link' = FALSE /\ channel' = <<>>
  /\ UNCHANGED <<db, api, engine, stored, processed, failures>>

-----------------------------------------------------------------------------
ApiStep(o) ==
  \/ TryLockBalance(o) \/ InsertPending(o) \/ Send(o) \/ UnlockBalance(o)
  \/ Rejected(o) \/ Acked(o) \/ CancelAnswered(o)

EngineStep ==
  \/ \E c \in Conn : EngineReject(c) \/ EngineAccept(c) \/ EngineCancel(c) \/ Broadcast(c)
  \/ \E m \in Orders : EngineFill(m)
  \/ EngineAnswer

Worker == \E s \in stored : ProcessNext(s) \/ ProcessFails(s)

Next ==
  \/ \E o \in Orders : \/ PlaceOrder(o) \/ PlaceDirect(o) \/ CancelOrder(o) \/ ApiStep(o)
                       \/ GiveUp(o) \/ CancelGivesUp(o)
  \/ EngineStep
  \/ ConnectionBreaks \/ PersistEvent \/ Disconnect \/ Reconnect
  \/ Worker

(* Handlers, connections, the bridge and the worker keep running; clients  *)
(* need not send anything and nothing has to fail.                         *)
Spec ==
  /\ Init /\ [][Next]_vars
  /\ WF_vars(\E o \in Orders : ApiStep(o)) /\ WF_vars(EngineStep)
  /\ WF_vars(PersistEvent \/ Reconnect) /\ WF_vars(Worker)

-----------------------------------------------------------------------------
Message == [kind: {"place", "cancel"}, id: Orders]
Event   == [kind: {"accepted", "canceled"}, id: Orders]
             \cup [kind: {"fill"}, taker: Orders, maker: Orders, price: Int, qty: Nat]

(* Type invariant.  That a balance is a pair of naturals is INV-3 of PRD   *)
(* 9.3, which the CHECKs of the table ensure for every writer.             *)
SettlementTypeOK ==
  /\ rows \in [Orders -> Row \cup {None}]
  /\ bal \in [Users -> [Asset -> [available: Nat, locked: Nat]]]
  /\ ledger \in [Users -> [Asset -> Int]]
  /\ pc \in [Orders -> {"none", "checked", "locked", "inserted", "sent", "unlocking", "leaked", "done"}]
  /\ cancel \in [Orders -> {"none", "sent", "acked", "rejected", "done"}]
  /\ answer \in [Orders -> Status \cup {"rejected", None}]
  /\ queue \in [Conn -> Seq(Message)]
  /\ busy \in [id: Orders, conn: Conn] \cup {None}
  /\ live \in [Orders -> Nat]
  /\ log \in Seq(Event)
  /\ bundle \in [Conn -> Seq(DOMAIN log)] /\ channel \in Seq(DOMAIN log)
  /\ stored \subseteq DOMAIN log /\ processed \subseteq stored /\ trades \subseteq processed

(* PRD 9.3 INV-1: the ledger entries of a user and asset add up to the     *)
(* balance, although the API moves balances without writing entries.       *)
LedgerAddsUp ==
  \A u \in Users, a \in Asset : ledger[u][a] = bal[u][a].available + bal[u][a].locked

Total(a) == SumFunction([u \in Users |-> bal[u][a].available + bal[u][a].locked])
Fees(a)  == SumFunction([s \in trades |-> log[s].qty * (IF a = "base" THEN TakerFeeBps
                                                       ELSE log[s].price * MakerFeeBps)])

(* Value only moves: what all users have of an asset is what they began    *)
(* with minus the fees of the trades, whatever was lost, retried or        *)
(* released in between.                                                    *)
ValueConserved == \A a \in Asset : Total(a) + Fees(a) = Cardinality(Users) * Funds * Scale

TradesOf(o) == {s \in trades : o \in {log[s].taker, log[s].maker}}

(* PRD 9.3 INV-5: filled_quantity is the sum of the order's trades, and no *)
(* more than the order's quantity: an event is settled at most once.       *)
FilledMatchesTrades ==
  \A o \in Orders :
    /\ TradesOf(o) # {} => rows[o] # None
    /\ rows[o] # None => /\ rows[o].filled = SumFunction([s \in TradesOf(o) |-> log[s].qty])
                         /\ rows[o].filled <= Ord[o].qty

(* Requests whose lock took from what is locked for other orders, and that *)
(* nothing undoes: their row cannot be inserted.                           *)
Loosening == {o \in Orders : pc[o] \in {"locked", "leaked"}
                             /\ Ord[o].side = "buy" /\ Ord[o].price < 0}

(* Nothing failed, all orders came through the API, and no buy order with  *)
(* a negative price has got past the lock.                                 *)
Calm == failures = 0 /\ (\A o \in Started : Ord[o].via = "api") /\ Loosening = {}

(* Then settlement never meets an event it cannot apply: the rows exist    *)
(* and the locks the API took cover every fill and every refund.  A        *)
(* failure, a direct order without funds or a negative price may make an   *)
(* event that is never settled.                                            *)
NoPoisonEvent == Calm => \A s \in Unprocessed : IsNext(s) => Settleable(s)

(* Events are settled as they should: once each, and without getting stuck. *)
EventsApply == FilledMatchesTrades /\ NoPoisonEvent

OfBalance(u, a) == {o \in Orders : Ord[o].user = u /\ LockAsset(o) = a}
Owed(u, a) == SumFunction([o \in OfBalance(u, a) |-> Obligation(o, live[o])])

(* PRD 9.3 INV-2: "For any active order, the locked amount in `balances`   *)
(* is >= remaining order obligation".                                      *)
LocksCoverLive == \A u \in Users, a \in Asset : bal[u][a].locked >= Owed(u, a)

(* It holds as long as nothing fails and no negative price has lowered a   *)
(* lock, also while settlement lags behind.                                *)
CalmLocksCoverLive == Calm => LocksCoverLive

(* No handler waits for ever, whatever fails, and if nothing fails and no  *)
(* negative price lowers a lock, every event the engine has logged is      *)
(* settled in the end.                                                     *)
EverythingSettles ==
  <>[](/\ \A o \in Orders : pc[o] \in {"none", "leaked", "done"}
       /\ Calm => processed = DOMAIN log)

Quiet ==
  /\ \A o \in Orders : pc[o] \in {"none", "done"} /\ cancel[o] \in {"none", "done"}
  /\ busy = None /\ queue = [c \in Conn |-> <<>>] /\ bundle = [c \in Conn |-> <<>>]
  /\ channel = <<>> /\ Unprocessed = {}

-----------------------------------------------------------------------------
(* Statements of the repository that the code does not meet: LocksCoverLive*)
(* when a request times out, the one that follows when nothing fails but a *)
(* buy order has a negative price, and the last.                           *)

(* PRD 9.3 INV-2 as long as no request fails and all come through the API. *)
UnfailingLocksCover ==
  failures = 0 /\ (\A o \in Started : Ord[o].via = "api") => LocksCoverLive

(* PRD 15.4: a cancel will "Refund the unused `locked` to `available`".    *)
(* The API writes canceled into the row before settlement sees the event,  *)
(* and settle_cancel skips a row that is canceled.                         *)
Refunded == Quiet /\ Calm => \A u \in Users, a \in Asset : bal[u][a].locked = Owed(u, a)
=============================================================================
