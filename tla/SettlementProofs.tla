-------------------------- MODULE SettlementProofs --------------------------
(***************************************************************************)
(* For any orders, users, fees and bounds: the tables stay well typed, no  *)
(* balance is ever negative, the ledger entries of a user and asset add up *)
(* to the balance, value only moves, and an order's filled quantity is the *)
(* sum of its trades.  If nothing fails and all orders come through the    *)
(* API, every event can be settled and the locks cover the live orders.    *)
(***************************************************************************)
EXTENDS Settlement, Sums

Balances == [Users -> [Asset -> [available: Int, locked: Int]]]
Amounts  == [Users -> [Asset -> Int]]

(* The entries l explain the balances b. *)
Explains(l, b) ==
  \A u \in Users, a \in Asset : l[u][a] = b[u][a].available + b[u][a].locked

(* The row an update_status needs is there: rows are inserted before the   *)
(* engine is asked, and never deleted.                                     *)
RowKept ==
  \A o \in Orders : pc[o] \in {"inserted", "sent"} \/ cancel[o] # "none" => rows[o] # None

Inv == SettlementTypeOK /\ RowKept

-----------------------------------------------------------------------------
(* Balances. *)

LEMMA MoveType ==
  ASSUME NEW b \in Balances, NEW u \in Users, NEW a \in Asset, NEW av \in Int, NEW lk \in Int
  PROVE  /\ Move(b, u, a, av, lk) \in Balances
         /\ \A v \in Users, c \in Asset :
              Move(b, u, a, av, lk)[v][c].available + Move(b, u, a, av, lk)[v][c].locked
                = b[v][c].available + b[v][c].locked + (IF v = u /\ c = a THEN av + lk ELSE 0)
  BY DEF Balances, Move

LEMMA OrderType ==
  ASSUME NEW o \in Orders
  PROVE  /\ Ord[o].user \in Users /\ LockAsset(o) \in Asset
         /\ Ord[o].qty \in Nat /\ Ord[o].price \in Int
         /\ Scale \in Nat /\ TakerFeeBps \in Nat /\ MakerFeeBps \in Nat
         /\ \A q \in Int : Obligation(o, q) \in Int
  <1>1. Ord[o] \in OrderInput /\ Scale \in Nat /\ TakerFeeBps \in Nat /\ MakerFeeBps \in Nat
    BY SettlementAssumption
  <1>2. Ord[o].user \in Users /\ Ord[o].qty \in Nat /\ Ord[o].price \in Int
    BY <1>1 DEF OrderInput
  <1>3. ASSUME NEW q \in Int PROVE Obligation(o, q) \in Int
    <2>1. q * Scale \in Int  BY <1>1
    <2> QED BY <1>2, <2>1 DEF Obligation
  <1> QED BY <1>1, <1>2, <1>3 DEF LockAsset, Asset

LEMMA LockKeepsSum ==
  ASSUME NEW b \in Balances, NEW o \in Orders, NEW x \in Int
  PROVE  /\ Lock(b, o, x) \in Balances
         /\ \A v \in Users, c \in Asset :
              Lock(b, o, x)[v][c].available + Lock(b, o, x)[v][c].locked
                = b[v][c].available + b[v][c].locked
  <1>1. Ord[o].user \in Users /\ LockAsset(o) \in Asset  BY OrderType
  <1> DEFINE m == Move(b, Ord[o].user, LockAsset(o), -x, x)
  <1>2. -x \in Int /\ -x + x = 0  OBVIOUS
  <1>3. /\ m \in Balances
        /\ \A v \in Users, c \in Asset :
             m[v][c].available + m[v][c].locked = b[v][c].available + b[v][c].locked
               + (IF v = Ord[o].user /\ c = LockAsset(o) THEN -x + x ELSE 0)
    BY <1>1, <1>2, MoveType
  <1>4. \A v \in Users, c \in Asset : b[v][c].available + b[v][c].locked \in Int  BY DEF Balances
  <1>5. m = Lock(b, o, x)  BY DEF Lock
  <1> HIDE DEF m
  <1> QED BY <1>2, <1>3, <1>4, <1>5

LEMMA LockExplained ==
  ASSUME NEW b \in Balances, NEW o \in Orders, NEW x \in Int, NEW l, Explains(l, b)
  PROVE  Explains(l, Lock(b, o, x))
  BY LockKeepsSum DEF Explains

(* A valid balance is a pair of naturals. *)
LEMMA ValidIsNat ==
  ASSUME NEW b \in Balances, Valid(b)
  PROVE  b \in [Users -> [Asset -> [available: Nat, locked: Nat]]]
  BY DEF Balances, Valid

-----------------------------------------------------------------------------
(* The entries of a fill. *)

LEMMA EntryExplains ==
  ASSUME NEW b \in Balances, NEW l \in Amounts, NEW u \in Users, NEW a \in Asset,
         NEW av \in Int, NEW lk \in Int, NEW x \in Int, x = av + lk
  PROVE  /\ Entry(l, u, a, x) \in Amounts
         /\ Explains(l, b) => Explains(Entry(l, u, a, x), Move(b, u, a, av, lk))
  <1> DEFINE n == Entry(l, u, a, x)
  <1>1. /\ n \in Amounts
        /\ \A v \in Users, c \in Asset : n[v][c] = l[v][c] + (IF v = u /\ c = a THEN x ELSE 0)
    BY DEF Amounts, Entry
  <1> HIDE DEF n
  <1>2. ASSUME Explains(l, b), NEW v \in Users, NEW c \in Asset
        PROVE  n[v][c] = Move(b, u, a, av, lk)[v][c].available + Move(b, u, a, av, lk)[v][c].locked
    <2>1. l[v][c] = b[v][c].available + b[v][c].locked  BY <1>2 DEF Explains
    <2>2. n[v][c] = l[v][c] + (IF v = u /\ c = a THEN x ELSE 0)  BY <1>1
    <2> QED BY <2>1, <2>2, MoveType
  <1> QED BY <1>1, <1>2 DEF Explains, n

LEMMA FillParts ==
  ASSUME NEW e \in Event, e.kind = "fill"
  PROVE  /\ e.taker \in Orders /\ e.maker \in Orders /\ e.qty \in Nat
         /\ Buyer(e) \in Users /\ Seller(e) \in Users
         /\ Got(e) \in Int /\ Notional(e) \in Int /\ Earned(e) \in Int /\ e.qty * Scale \in Int
  <1>1. e.taker \in Orders /\ e.maker \in Orders /\ e.qty \in Nat /\ e.price \in Int  BY DEF Event
  <1>2. Scale \in Nat /\ TakerFeeBps \in Nat /\ MakerFeeBps \in Nat  BY SettlementAssumption
  <1>3. Buyer(e) \in Users /\ Seller(e) \in Users  BY <1>1, OrderType DEF Buyer, Seller
  <1>4. e.qty * Scale \in Int /\ e.qty * TakerFeeBps \in Int /\ e.price * e.qty \in Int  BY <1>1, <1>2
  <1>5. (e.price * e.qty) * Scale \in Int /\ (e.price * e.qty) * MakerFeeBps \in Int  BY <1>2, <1>4
  <1> QED BY <1>1, <1>3, <1>4, <1>5 DEF Got, Notional, Earned

LEMMA FillExplained ==
  ASSUME NEW b \in Balances, NEW l \in Amounts, NEW e \in Event, e.kind = "fill"
  PROVE  /\ ApplyFillLedger(b, e) \in Balances /\ FillAmounts(l, e) \in Amounts
         /\ Explains(l, b) => Explains(FillAmounts(l, e), ApplyFillLedger(b, e))
  <1> DEFINE n == -Notional(e)
             q == -(e.qty * Scale)
             b1 == Move(b, Buyer(e), "base", Got(e), 0)
             b2 == Move(b1, Buyer(e), "quote", 0, n)
             b3 == Move(b2, Seller(e), "quote", Earned(e), 0)
             l1 == Entry(l, Buyer(e), "base", Got(e))
             l2 == Entry(l1, Buyer(e), "quote", n)
             l3 == Entry(l2, Seller(e), "quote", Earned(e))
  <1>1. /\ Buyer(e) \in Users /\ Seller(e) \in Users /\ "base" \in Asset /\ "quote" \in Asset
        /\ Got(e) \in Int /\ Earned(e) \in Int /\ n \in Int /\ q \in Int
    BY FillParts DEF Asset
  <1> HIDE DEF n, q
  <1>2. Got(e) = Got(e) + 0 /\ Earned(e) = Earned(e) + 0 /\ n = 0 + n /\ q = 0 + q  BY <1>1
  <1>3. b1 \in Balances /\ l1 \in Amounts /\ (Explains(l, b) => Explains(l1, b1))
    BY <1>1, <1>2, MoveType, EntryExplains
  <1> HIDE DEF b1, l1
  <1>4. b2 \in Balances /\ l2 \in Amounts /\ (Explains(l1, b1) => Explains(l2, b2))
    BY <1>1, <1>2, <1>3, MoveType, EntryExplains
  <1> HIDE DEF b2, l2
  <1>5. b3 \in Balances /\ l3 \in Amounts /\ (Explains(l2, b2) => Explains(l3, b3))
    BY <1>1, <1>2, <1>4, MoveType, EntryExplains
  <1> HIDE DEF b3, l3
  <1>6. /\ Move(b3, Seller(e), "base", 0, q) \in Balances
        /\ Entry(l3, Seller(e), "base", q) \in Amounts
        /\ Explains(l3, b3) => Explains(Entry(l3, Seller(e), "base", q), Move(b3, Seller(e), "base", 0, q))
    BY <1>1, <1>2, <1>5, MoveType, EntryExplains
  <1>7. /\ ApplyFillLedger(b, e) = Move(b3, Seller(e), "base", 0, q)
        /\ FillAmounts(l, e) = Entry(l3, Seller(e), "base", q)
    BY DEF ApplyFillLedger, FillAmounts, n, q, b1, b2, b3, l1, l2, l3
  <1> QED BY <1>3, <1>4, <1>5, <1>6, <1>7

-----------------------------------------------------------------------------
(* Sequences. *)

LEMMA SeqGrows ==
  ASSUME NEW S, NEW T, S \subseteq T, NEW s \in Seq(S)
  PROVE  s \in Seq(T)
  OBVIOUS

LEMMA Joined ==
  ASSUME NEW S, NEW s \in Seq(S), NEW t \in Seq(S)
  PROVE  s \o t \in Seq(S)
  OBVIOUS

LEMMA Fetched ==
  ASSUME SettlementTypeOK, NEW c \in Conn, NEW k, Fetches(c, k)
  PROVE  Head(queue[c]).id \in Orders /\ queue' \in [Conn -> Seq(Message)]
  <1>1. queue[c] \in Seq(Message) /\ queue[c] # <<>>  BY DEF SettlementTypeOK, Fetches
  <1>2. Head(queue[c]) \in Message /\ Tail(queue[c]) \in Seq(Message)  BY <1>1
  <1> QED BY <1>2 DEF SettlementTypeOK, Fetches, Message

LEMMA Emitted ==
  ASSUME SettlementTypeOK, NEW c \in Conn, NEW e \in Event, Emit(c, e)
  PROVE  /\ log' \in Seq(Event) /\ DOMAIN log \subseteq DOMAIN log'
         /\ bundle' \in [Conn -> Seq(DOMAIN log')] /\ channel \in Seq(DOMAIN log')
  <1>1. /\ log \in Seq(Event) /\ bundle \in [Conn -> Seq(DOMAIN log)] /\ channel \in Seq(DOMAIN log)
        /\ log' = Append(log, e) /\ bundle' = [bundle EXCEPT ![c] = Append(@, Len(log) + 1)]
    BY DEF SettlementTypeOK, Emit
  <1>2. /\ log' \in Seq(Event) /\ DOMAIN log \subseteq DOMAIN log' /\ Len(log) + 1 \in DOMAIN log'
    BY <1>1
  <1>3. \A d \in Conn : bundle[d] \in Seq(DOMAIN log')  BY <1>1, <1>2, SeqGrows
  <1>4. Append(bundle[c], Len(log) + 1) \in Seq(DOMAIN log')  BY <1>2, <1>3
  <1>5. bundle' \in [Conn -> Seq(DOMAIN log')]  BY <1>1, <1>3, <1>4
  <1> QED BY <1>1, <1>2, <1>5, SeqGrows

-----------------------------------------------------------------------------
(* The handlers of the API. *)

USE DEF api, db, engine, bridge

LEMMA InitInv == Init => Inv /\ LedgerAddsUp
  <1> SUFFICES ASSUME Init PROVE Inv /\ LedgerAddsUp  OBVIOUS
  <1>1. Funds * Scale \in Nat /\ Funds * Scale = Funds * Scale + 0  BY SettlementAssumption
  <1>2. SettlementTypeOK  BY <1>1 DEF Init, SettlementTypeOK
  <1>3. RowKept  BY DEF Init, RowKept
  <1>4. LedgerAddsUp  BY <1>1 DEF Init, LedgerAddsUp
  <1> QED BY <1>2, <1>3, <1>4 DEF Inv

LEMMA PlaceInv ==
  ASSUME Inv, NEW o \in Orders,
         \/ PlaceOrder(o) \/ GiveUp(o) \/ Rejected(o) \/ Send(o) \/ PlaceDirect(o)
         \/ CancelOrder(o) \/ CancelGivesUp(o)
  PROVE  Inv' /\ UNCHANGED <<bal, ledger>>
  <1>1. CASE PlaceOrder(o) BY <1>1 DEF Inv, SettlementTypeOK, RowKept, PlaceOrder
  <1>2. CASE GiveUp(o) BY <1>2 DEF Inv, SettlementTypeOK, RowKept, GiveUp
  <1>3. CASE Rejected(o) BY <1>3 DEF Inv, SettlementTypeOK, RowKept, Rejected
  <1>4. CASE Send(o) BY <1>4 DEF Inv, SettlementTypeOK, RowKept, Send, Message, Conn
  <1>5. CASE PlaceDirect(o) BY <1>5 DEF Inv, SettlementTypeOK, RowKept, PlaceDirect, Message, Conn
  <1>6. CASE CancelOrder(o) BY <1>6 DEF Inv, SettlementTypeOK, RowKept, CancelOrder, Message, Conn
  <1>7. CASE CancelGivesUp(o) BY <1>7 DEF Inv, SettlementTypeOK, RowKept, CancelGivesUp
  <1> QED BY <1>1, <1>2, <1>3, <1>4, <1>5, <1>6, <1>7

LEMMA RowsInv ==
  ASSUME Inv, NEW o \in Orders, InsertPending(o) \/ Acked(o) \/ CancelAnswered(o)
  PROVE  Inv' /\ UNCHANGED <<bal, ledger>>
  <1>0. None \notin Row  BY SettlementAssumption
  <1>1. CASE InsertPending(o)
    <2>1. [status |-> "pending", filled |-> 0] \in Row  BY DEF Row, Status
    <2>2. /\ rows' \in [Orders -> Row \cup {None}]
          /\ \A p \in Orders : rows[p] # None => rows'[p] # None
          /\ pc'[o] = "inserted" => rows'[o] # None
      BY <1>0, <1>1, <2>1 DEF InsertPending, Inv, SettlementTypeOK
    <2> QED BY <1>1, <2>2 DEF Inv, SettlementTypeOK, RowKept, InsertPending
  <1>2. CASE Acked(o)
    <2>1. rows[o] \in Row /\ rows \in [Orders -> Row \cup {None}] /\ answer[o] \in Status
      BY <1>2 DEF Inv, SettlementTypeOK, RowKept, Acked
    <2>2. PICK r : r = [rows[o] EXCEPT !.status = answer[o]]  OBVIOUS
    <2>3. r \in Row /\ rows' = [rows EXCEPT ![o] = r]  BY <1>2, <2>1, <2>2 DEF Row, Acked, SetStatus
    <2>4. /\ rows' \in [Orders -> Row \cup {None}]
          /\ \A p \in Orders : rows[p] # None => rows'[p] # None
      BY <1>0, <2>1, <2>3
    <2> QED BY <1>2, <2>4 DEF Inv, SettlementTypeOK, RowKept, Acked
  <1>3. CASE CancelAnswered(o)
    <2>1. rows[o] \in Row /\ rows \in [Orders -> Row \cup {None}]
      BY <1>3 DEF Inv, SettlementTypeOK, RowKept, CancelAnswered
    <2>2. [rows[o] EXCEPT !.status = "canceled"] \in Row  BY <2>1 DEF Row, Status
    <2>3. rows' \in [Orders -> Row \cup {None}] /\ \A p \in Orders : rows[p] # None => rows'[p] # None
      <3>1. CASE cancel[o] = "acked"
        <4>1. rows' = [rows EXCEPT ![o] = [rows[o] EXCEPT !.status = "canceled"]]
          BY <1>3, <3>1 DEF CancelAnswered, SetStatus
        <4> QED BY <1>0, <2>1, <2>2, <4>1
      <3>2. CASE cancel[o] # "acked"  BY <1>3, <2>1, <3>2 DEF CancelAnswered
      <3> QED BY <3>1, <3>2
    <2> QED BY <1>3, <2>3 DEF Inv, SettlementTypeOK, RowKept, CancelAnswered
  <1> QED BY <1>1, <1>2, <1>3

LEMMA LockInv ==
  ASSUME Inv, NEW o \in Orders, TryLockBalance(o) \/ UnlockBalance(o)
  PROVE  Inv' /\ (LedgerAddsUp => LedgerAddsUp')
  <1> DEFINE x == Obligation(o, Ord[o].qty)
  <1>1. bal \in Balances  BY DEF Inv, SettlementTypeOK, Balances
  <1>2. x \in Int /\ -x \in Int  BY OrderType
  <1> HIDE DEF x
  <1>3. \A y \in {x, -x} : Lock(bal, o, y) \in Balances /\ (Explains(ledger, bal) => Explains(ledger, Lock(bal, o, y)))
    BY <1>1, <1>2, LockKeepsSum, LockExplained
  <1>4. /\ bal' \in [Users -> [Asset -> [available: Nat, locked: Nat]]]
        /\ Explains(ledger, bal) => Explains(ledger, bal')
    <2>1. bal' = bal \/ \E y \in {x, -x} : bal' = Lock(bal, o, y) /\ Valid(Lock(bal, o, y))
      BY DEF TryLockBalance, UnlockBalance, x
    <2> QED BY <1>3, <2>1, ValidIsNat DEF Inv, SettlementTypeOK
  <1>5. ledger' = ledger  BY DEF TryLockBalance, UnlockBalance
  <1>6. LedgerAddsUp => LedgerAddsUp'  BY <1>4, <1>5 DEF LedgerAddsUp, Explains
  <1>7. CASE TryLockBalance(o)  BY <1>4, <1>6, <1>7 DEF Inv, SettlementTypeOK, RowKept, TryLockBalance
  <1>8. CASE UnlockBalance(o)  BY <1>4, <1>6, <1>8 DEF Inv, SettlementTypeOK, RowKept, UnlockBalance
  <1> QED BY <1>7, <1>8

-----------------------------------------------------------------------------
(* The engine, its connections and the bridge. *)

LEMMA EngineInv ==
  ASSUME Inv, NEW c \in Conn, EngineReject(c) \/ EngineAccept(c) \/ EngineCancel(c) \/ Broadcast(c)
  PROVE  Inv' /\ UNCHANGED <<bal, ledger>>
  <1> USE DEF Inv
  <1> DEFINE o == Head(queue[c]).id
  <1>1. CASE EngineReject(c)
    <2>1. o \in Orders /\ queue' \in [Conn -> Seq(Message)]  BY <1>1, Fetched DEF EngineReject
    <2> QED BY <1>1, <2>1 DEF EngineReject, Reply, SettlementTypeOK, RowKept
  <1>2. CASE EngineAccept(c)
    <2>1. o \in Orders /\ queue' \in [Conn -> Seq(Message)]  BY <1>2, Fetched DEF EngineAccept
    <2>2. [kind |-> "accepted", id |-> o] \in Event  BY <2>1 DEF Event
    <2>3. /\ log' \in Seq(Event) /\ DOMAIN log \subseteq DOMAIN log'
          /\ bundle' \in [Conn -> Seq(DOMAIN log')] /\ channel \in Seq(DOMAIN log')
      BY <1>2, <2>2, Emitted DEF EngineAccept
    <2>4. live' \in [Orders -> Nat]  BY <1>2, <2>1, OrderType DEF EngineAccept, SettlementTypeOK
    <2>5. busy' \in [id: Orders, conn: Conn]  BY <1>2, <2>1 DEF EngineAccept
    <2> QED BY <1>2, <2>1, <2>3, <2>4, <2>5 DEF EngineAccept, SettlementTypeOK, RowKept
  <1>3. CASE EngineCancel(c)
    <2>1. o \in Orders /\ queue' \in [Conn -> Seq(Message)]  BY <1>3, Fetched DEF EngineCancel
    <2>2. [kind |-> "canceled", id |-> o] \in Event  BY <2>1 DEF Event
    <2>3. /\ log' \in Seq(Event) /\ DOMAIN log \subseteq DOMAIN log'
          /\ bundle' \in [Conn -> Seq(DOMAIN log')] /\ channel \in Seq(DOMAIN log')
          /\ live' \in [Orders -> Nat]
      <3>1. CASE live[o] > 0  BY <1>3, <2>2, <3>1, Emitted DEF EngineCancel, SettlementTypeOK
      <3>2. CASE ~(live[o] > 0)  BY <1>3, <3>2 DEF EngineCancel, SettlementTypeOK
      <3> QED BY <3>1, <3>2
    <2>4. /\ cancel' \in [Orders -> {"none", "sent", "acked", "rejected", "done"}]
          /\ \A p \in Orders : cancel'[p] # "none" => cancel[p] # "none"
      BY <1>3, <2>1 DEF EngineCancel, SettlementTypeOK
    <2> QED BY <1>3, <2>1, <2>3, <2>4 DEF EngineCancel, SettlementTypeOK, RowKept
  <1>4. CASE Broadcast(c)
    <2>0. channel \in Seq(DOMAIN log) /\ bundle[c] \in Seq(DOMAIN log)  BY DEF SettlementTypeOK
    <2>1. channel' \in Seq(DOMAIN log)
      <3>1. channel \o bundle[c] \in Seq(DOMAIN log)  BY <2>0, Joined
      <3> QED BY <1>4, <2>0, <3>1 DEF Broadcast
    <2>2. bundle' \in [Conn -> Seq(DOMAIN log)]  BY <1>4 DEF Broadcast, SettlementTypeOK
    <2> QED BY <1>4, <2>1, <2>2 DEF Broadcast, SettlementTypeOK, RowKept
  <1> QED BY <1>1, <1>2, <1>3, <1>4

LEMMA FillInv ==
  ASSUME Inv, NEW m \in Orders, EngineFill(m)
  PROVE  Inv' /\ UNCHANGED <<bal, ledger>>
  <1> USE DEF Inv
  <1> DEFINE o == busy.id
             q == IF live[o] < live[m] THEN live[o] ELSE live[m]
             e == [kind |-> "fill", taker |-> o, maker |-> m, price |-> Ord[m].price, qty |-> q]
  <1>1. busy \in [id: Orders, conn: Conn] /\ o \in Orders  BY DEF SettlementTypeOK, EngineFill
  <1>2. live \in [Orders -> Nat] /\ q \in Nat /\ q <= live[o] /\ q <= live[m]
    BY <1>1 DEF SettlementTypeOK
  <1>3. m # o  BY DEF EngineFill, BestMakers, Makers
  <1>4. live' = [live EXCEPT ![o] = @ - q, ![m] = @ - q] /\ Emit(busy.conn, e)  BY DEF EngineFill
  <1> HIDE DEF q
  <1>5. live' \in [Orders -> Nat]
    <2>1. live[o] - q \in Nat /\ live[m] - q \in Nat  BY <1>1, <1>2
    <2> QED BY <1>1, <1>2, <1>3, <1>4, <2>1
  <1>6. e \in Event  BY <1>1, <1>2, OrderType DEF Event
  <1>7. /\ log' \in Seq(Event) /\ DOMAIN log \subseteq DOMAIN log'
        /\ bundle' \in [Conn -> Seq(DOMAIN log')] /\ channel \in Seq(DOMAIN log')
    BY <1>1, <1>4, <1>6, Emitted
  <1> QED BY <1>5, <1>7 DEF EngineFill, SettlementTypeOK, RowKept

LEMMA AnswerInv ==
  ASSUME Inv, EngineAnswer
  PROVE  Inv' /\ UNCHANGED <<bal, ledger>>
  <1> USE DEF Inv
  <1> DEFINE o == busy.id
  <1>1. busy \in [id: Orders, conn: Conn] /\ o \in Orders  BY DEF SettlementTypeOK, EngineAnswer
  <1>2. answer' \in [Orders -> Status \cup {"rejected", None}]
    BY <1>1 DEF EngineAnswer, Reply, SettlementTypeOK, Status
  <1>3. /\ log' \in Seq(Event) /\ DOMAIN log \subseteq DOMAIN log'
        /\ bundle' \in [Conn -> Seq(DOMAIN log')] /\ channel \in Seq(DOMAIN log')
        /\ live' \in [Orders -> Nat]
    <2>1. CASE Ord[o].type = "ioc" /\ live[o] > 0
      <3>1. [kind |-> "canceled", id |-> o] \in Event  BY <1>1 DEF Event
      <3>2. live' = [live EXCEPT ![o] = 0] /\ Emit(busy.conn, [kind |-> "canceled", id |-> o])
        BY <2>1 DEF EngineAnswer
      <3> QED BY <1>1, <3>1, <3>2, Emitted DEF SettlementTypeOK
    <2>2. CASE ~(Ord[o].type = "ioc" /\ live[o] > 0)
      BY <2>2 DEF EngineAnswer, SettlementTypeOK
    <2> QED BY <2>1, <2>2
  <1> QED BY <1>2, <1>3 DEF EngineAnswer, SettlementTypeOK, RowKept

LEMMA BridgeInv ==
  ASSUME Inv, ConnectionBreaks \/ PersistEvent \/ Disconnect \/ Reconnect
  PROVE  Inv' /\ UNCHANGED <<bal, ledger>>
  <1> USE DEF Inv
  <1>1. CASE ConnectionBreaks
    <2>1. pc' \in [Orders -> {"none", "checked", "locked", "inserted", "sent", "unlocking", "leaked", "done"}]
          /\ \A o \in Orders : pc'[o] \in {"inserted", "sent"} => pc'[o] = pc[o]
      BY <1>1 DEF ConnectionBreaks, SettlementTypeOK
    <2>2. cancel' \in [Orders -> {"none", "sent", "acked", "rejected", "done"}]
          /\ \A o \in Orders : cancel'[o] # "none" => cancel[o] # "none"
      BY <1>1 DEF ConnectionBreaks, SettlementTypeOK
    <2>3. queue' \in [Conn -> Seq(Message)] /\ bundle' \in [Conn -> Seq(DOMAIN log)]
      <3>1. <<>> \in Seq(Message) /\ <<>> \in Seq(DOMAIN log)  OBVIOUS
      <3>2. queue \in [Conn -> Seq(Message)] /\ bundle \in [Conn -> Seq(DOMAIN log)]
        BY DEF SettlementTypeOK
      <3>3. \/ queue' = queue /\ bundle' = bundle
            \/ queue' = [queue EXCEPT !["api"] = <<>>] /\ bundle' = [bundle EXCEPT !["api"] = <<>>]
        BY <1>1 DEF ConnectionBreaks
      <3> QED BY <3>1, <3>2, <3>3
    <2> QED BY <1>1, <2>1, <2>2, <2>3 DEF ConnectionBreaks, SettlementTypeOK, RowKept
  <1>2. CASE PersistEvent  BY <1>2 DEF PersistEvent, SettlementTypeOK, RowKept
  <1>3. CASE Disconnect  BY <1>3 DEF Disconnect, SettlementTypeOK, RowKept
  <1>4. CASE Reconnect  BY <1>4 DEF Reconnect, SettlementTypeOK, RowKept
  <1> QED BY <1>1, <1>2, <1>3, <1>4

-----------------------------------------------------------------------------
(* The worker. *)

LEMMA UpdateOrderFillType ==
  ASSUME NEW r \in [Orders -> Row \cup {None}], NEW o \in Orders, NEW q \in Nat, r[o] # None
  PROVE  /\ UpdateOrderFill(r, o, q) \in [Orders -> Row \cup {None}]
         /\ \A p \in Orders : r[p] # None => UpdateOrderFill(r, o, q)[p] # None
  <1>1. r[o] \in Row /\ r[o].filled + q \in Nat  BY DEF Row
  <1> DEFINE w == [filled |-> r[o].filled + q,
                   status |-> IF r[o].filled + q >= Ord[o].qty THEN "filled" ELSE "partial"]
  <1>2. w \in Row  BY <1>1 DEF Row, Status
  <1>3. UpdateOrderFill(r, o, q) = [r EXCEPT ![o] = w]  BY DEF UpdateOrderFill
  <1> HIDE DEF w
  <1> QED BY <1>2, <1>3, SettlementAssumption

LEMMA NewRowsType ==
  ASSUME Inv, NEW s \in stored, Settleable(s)
  PROVE  /\ NewRows(s) \in [Orders -> Row \cup {None}]
         /\ \A p \in Orders : rows[p] # None => NewRows(s)[p] # None
  <1> DEFINE e == log[s]
  <1>1. e \in Event /\ rows \in [Orders -> Row \cup {None}]  BY DEF Inv, SettlementTypeOK
  <1>2. CASE e.kind = "fill"
    <2>1. e.taker \in Orders /\ e.maker \in Orders /\ e.qty \in Nat  BY <1>1, <1>2, FillParts
    <2>2. rows[e.taker] # None /\ rows[e.maker] # None  BY <1>2 DEF Settleable, Needed
    <2> DEFINE r == UpdateOrderFill(rows, e.taker, e.qty)
    <2>3. r \in [Orders -> Row \cup {None}] /\ \A p \in Orders : rows[p] # None => r[p] # None
      BY <1>1, <2>1, <2>2, UpdateOrderFillType
    <2> HIDE DEF r
    <2>4. /\ UpdateOrderFill(r, e.maker, e.qty) \in [Orders -> Row \cup {None}]
          /\ \A p \in Orders : r[p] # None => UpdateOrderFill(r, e.maker, e.qty)[p] # None
      BY <2>1, <2>2, <2>3, UpdateOrderFillType
    <2>5. NewRows(s) = rows \/ NewRows(s) = UpdateOrderFill(r, e.maker, e.qty)
      BY <1>2 DEF NewRows, FillRows, r
    <2> QED BY <1>1, <2>3, <2>4, <2>5
  <1>3. CASE e.kind = "canceled"
    <2>1. e.id \in Orders  BY <1>1, <1>3 DEF Event
    <2>2. rows[e.id] # None  BY <1>3 DEF Settleable, Needed
    <2>3. [rows[e.id] EXCEPT !.status = "canceled"] \in Row  BY <1>1, <2>1, <2>2 DEF Row, Status
    <2>4. NewRows(s) = rows \/ NewRows(s) = [rows EXCEPT ![e.id] = [rows[e.id] EXCEPT !.status = "canceled"]]
      BY <1>3 DEF NewRows, CanceledRows
    <2> QED BY <1>1, <2>1, <2>3, <2>4, SettlementAssumption
  <1>4. CASE e.kind = "accepted"
    <2>1. e.id \in Orders  BY <1>1, <1>4 DEF Event
    <2>2. [status |-> "new", filled |-> 0] \in Row  BY DEF Row, Status
    <2>3. NewRows(s) = rows \/ NewRows(s) = [rows EXCEPT ![e.id] = [status |-> "new", filled |-> 0]]
      BY <1>4 DEF NewRows, AcceptedRows
    <2> QED BY <1>1, <2>1, <2>2, <2>3, SettlementAssumption
  <1>5. e.kind \in {"fill", "canceled", "accepted"}  BY <1>1 DEF Event
  <1> QED BY <1>2, <1>3, <1>4, <1>5

LEMMA SettledExplained ==
  ASSUME Inv, NEW s \in stored, ProcessNext(s)
  PROVE  /\ NewBal(s) \in Balances /\ ledger' \in Amounts
         /\ Explains(ledger, bal) => Explains(ledger', NewBal(s))
  <1> DEFINE e == log[s]
  <1>1. /\ e \in Event /\ bal \in Balances /\ ledger \in Amounts
        /\ rows \in [Orders -> Row \cup {None}]
    BY DEF Inv, SettlementTypeOK, Balances, Amounts
  <1>2. CASE e.kind = "fill"
    <2>1. ledger' = FillLedger(s) /\ NewBal(s) = FillBal(s)  BY <1>2 DEF ProcessNext, NewBal
    <2> QED BY <1>1, <1>2, <2>1, FillExplained DEF FillLedger, FillBal
  <1>3. CASE e.kind = "canceled"
    <2>1. e.id \in Orders  BY <1>1, <1>3 DEF Event
    <2>2. rows[e.id] \in Row  BY <1>1, <1>3, <2>1 DEF ProcessNext, Settleable, Needed
    <2> DEFINE x == -Obligation(e.id, Ord[e.id].qty - rows[e.id].filled)
    <2>3. x \in Int
      <3>1. Ord[e.id].qty - rows[e.id].filled \in Int  BY <2>1, <2>2, OrderType DEF Row
      <3> QED BY <2>1, <3>1, OrderType
    <2>4. ledger' = ledger /\ (NewBal(s) = bal \/ NewBal(s) = Lock(bal, e.id, x))
      BY <1>3 DEF ProcessNext, NewBal, CanceledBal
    <2> HIDE DEF x
    <2> QED BY <1>1, <2>1, <2>3, <2>4, LockKeepsSum, LockExplained
  <1>4. CASE e.kind = "accepted"
    <2>1. e.id \in Orders  BY <1>1, <1>4 DEF Event
    <2> DEFINE x == Obligation(e.id, Ord[e.id].qty)
    <2>2. x \in Int  BY <2>1, OrderType
    <2>3. ledger' = ledger /\ (NewBal(s) = bal \/ NewBal(s) = Lock(bal, e.id, x))
      BY <1>4 DEF ProcessNext, NewBal, AcceptedBal
    <2> HIDE DEF x
    <2> QED BY <1>1, <2>1, <2>2, <2>3, LockKeepsSum, LockExplained
  <1>5. e.kind \in {"fill", "canceled", "accepted"}  BY <1>1 DEF Event
  <1> QED BY <1>2, <1>3, <1>4, <1>5

LEMMA WorkerInv ==
  ASSUME Inv, NEW s \in stored, ProcessNext(s) \/ ProcessFails(s)
  PROVE  Inv' /\ (LedgerAddsUp => LedgerAddsUp')
  <1>1. CASE ProcessNext(s)
    <2>1. /\ bal' = NewBal(s) /\ NewBal(s) \in Balances /\ Valid(NewBal(s)) /\ ledger' \in Amounts
          /\ Explains(ledger, bal) => Explains(ledger', bal')
      BY <1>1, SettledExplained DEF ProcessNext, Settleable
    <2>2. bal' \in [Users -> [Asset -> [available: Nat, locked: Nat]]]  BY <2>1, ValidIsNat
    <2>3. /\ rows' \in [Orders -> Row \cup {None}]
          /\ \A p \in Orders : rows[p] # None => rows'[p] # None
      BY <1>1, NewRowsType DEF ProcessNext
    <2>4. trades' \subseteq processed' /\ processed' \subseteq stored
      BY <1>1 DEF ProcessNext, Inv, SettlementTypeOK
    <2>5. SettlementTypeOK' /\ RowKept'
      BY <1>1, <2>1, <2>2, <2>3, <2>4 DEF ProcessNext, Inv, SettlementTypeOK, RowKept, Amounts
    <2> QED BY <2>1, <2>5 DEF Inv, LedgerAddsUp, Explains
  <1>2. CASE ProcessFails(s)
    BY <1>2 DEF ProcessFails, Inv, SettlementTypeOK, RowKept, LedgerAddsUp
  <1> QED BY <1>1, <1>2

LEMMA NextInv == Inv /\ [Next]_vars => Inv' /\ (LedgerAddsUp => LedgerAddsUp')
  <1> SUFFICES ASSUME Inv, [Next]_vars PROVE Inv' /\ (LedgerAddsUp => LedgerAddsUp')  OBVIOUS
  <1>1. ASSUME UNCHANGED <<bal, ledger>> PROVE LedgerAddsUp => LedgerAddsUp'
    BY <1>1 DEF LedgerAddsUp
  <1>2. ASSUME NEW o \in Orders,
               \/ PlaceOrder(o) \/ PlaceDirect(o) \/ CancelOrder(o) \/ ApiStep(o)
               \/ GiveUp(o) \/ CancelGivesUp(o)
        PROVE  Inv' /\ (LedgerAddsUp => LedgerAddsUp')
    BY <1>1, <1>2, PlaceInv, RowsInv, LockInv DEF ApiStep
  <1>3. CASE EngineStep  BY <1>1, <1>3, EngineInv, FillInv, AnswerInv DEF EngineStep
  <1>4. CASE ConnectionBreaks \/ PersistEvent \/ Disconnect \/ Reconnect  BY <1>1, <1>4, BridgeInv
  <1>5. CASE Worker  BY <1>5, WorkerInv DEF Worker
  <1>6. CASE UNCHANGED vars
    BY <1>6 DEF vars, Inv, SettlementTypeOK, RowKept, LedgerAddsUp
  <1> QED BY <1>2, <1>3, <1>4, <1>5, <1>6 DEF Next

-----------------------------------------------------------------------------
(* The tables stay well typed and no balance is ever negative (PRD 9.3     *)
(* INV-3): the CHECKs stop every writer, and no update is lost because of  *)
(* a row that is not there.                                                *)
THEOREM TablesTyped == Spec => []SettlementTypeOK
  <1>1. Init => Inv  BY InitInv
  <1>2. Inv /\ [Next]_vars => Inv'  BY NextInv
  <1>3. Inv => SettlementTypeOK  BY DEF Inv
  <1> QED BY <1>1, <1>2, <1>3, PTL DEF Spec

(* PRD 9.3 INV-1 for any orders, users, fees, failures and interleavings:  *)
(* the ledger entries of settlement explain every balance, although the    *)
(* API locks and unlocks without writing any.                              *)
THEOREM LedgerExplainsBalances == Spec => []LedgerAddsUp
  <1>1. Init => Inv /\ LedgerAddsUp  BY InitInv
  <1>2. Inv /\ LedgerAddsUp /\ [Next]_vars => (Inv /\ LedgerAddsUp)'  BY NextInv
  <1> QED BY <1>1, <1>2, PTL DEF Spec

-----------------------------------------------------------------------------
(* Value is conserved: the entries of a fill add up to the fees, and no    *)
(* other step writes entries.                                              *)

LEMMA LogGrows ==
  ASSUME Inv, [Next]_vars
  PROVE  log' = log \/ \E e : log' = Append(log, e)
  <1>1. CASE EngineStep
    BY <1>1 DEF EngineStep, EngineReject, EngineAccept, EngineCancel, Broadcast, EngineFill, EngineAnswer, Emit
  <1>2. CASE \E o \in Orders : \/ PlaceOrder(o) \/ PlaceDirect(o) \/ CancelOrder(o) \/ ApiStep(o)
                               \/ GiveUp(o) \/ CancelGivesUp(o)
    BY <1>2 DEF PlaceOrder, PlaceDirect, CancelOrder, ApiStep, GiveUp, CancelGivesUp, TryLockBalance,
                InsertPending, Send, UnlockBalance, Rejected, Acked, CancelAnswered
  <1>3. CASE ConnectionBreaks \/ PersistEvent \/ Disconnect \/ Reconnect \/ Worker
    BY <1>3 DEF ConnectionBreaks, PersistEvent, Disconnect, Reconnect, Worker, ProcessNext, ProcessFails
  <1>4. CASE UNCHANGED vars  BY <1>4 DEF vars
  <1> QED BY <1>1, <1>2, <1>3, <1>4 DEF Next

LEMMA LogKept ==
  ASSUME Inv, [Next]_vars
  PROVE  /\ Len(log') \in Nat /\ Len(log) \in Nat /\ Len(log) <= Len(log')
         /\ DOMAIN log = 1..Len(log) /\ DOMAIN log' = 1..Len(log')
         /\ \A s \in DOMAIN log : s \in DOMAIN log' /\ log'[s] = log[s]
  <1>1. log \in Seq(Event)  BY DEF Inv, SettlementTypeOK
  <1>2. CASE log' = log  BY <1>1, <1>2
  <1>3. ASSUME NEW e, log' = Append(log, e)
        PROVE  /\ Len(log') = Len(log) + 1 /\ DOMAIN log' = 1..(Len(log) + 1)
               /\ \A s \in 1..Len(log) : log'[s] = log[s]
    BY <1>1, <1>3
  <1>4. Len(log) \in Nat /\ DOMAIN log = 1..Len(log)  BY <1>1
  <1>5. ASSUME NEW e, log' = Append(log, e)
        PROVE  /\ Len(log') \in Nat /\ Len(log) <= Len(log') /\ DOMAIN log' = 1..Len(log')
               /\ \A s \in DOMAIN log : s \in DOMAIN log' /\ log'[s] = log[s]
    BY <1>3, <1>4, <1>5
  <1> QED BY <1>2, <1>4, <1>5, LogGrows

LEMMA LedgerWriter ==
  ASSUME [Next]_vars
  PROVE  UNCHANGED <<ledger, trades>> \/ \E s \in stored : ProcessNext(s)
  <1>1. CASE EngineStep
    BY <1>1 DEF EngineStep, EngineReject, EngineAccept, EngineCancel, Broadcast, EngineFill, EngineAnswer
  <1>2. CASE \E o \in Orders : \/ PlaceOrder(o) \/ PlaceDirect(o) \/ CancelOrder(o) \/ ApiStep(o)
                               \/ GiveUp(o) \/ CancelGivesUp(o)
    BY <1>2 DEF PlaceOrder, PlaceDirect, CancelOrder, ApiStep, GiveUp, CancelGivesUp, TryLockBalance,
                InsertPending, Send, UnlockBalance, Rejected, Acked, CancelAnswered
  <1>3. CASE ConnectionBreaks \/ PersistEvent \/ Disconnect \/ Reconnect \/ Worker
    BY <1>3 DEF ConnectionBreaks, PersistEvent, Disconnect, Reconnect, Worker, ProcessFails
  <1>4. CASE UNCHANGED vars  BY <1>4 DEF vars
  <1> QED BY <1>1, <1>2, <1>3, <1>4 DEF Next

SumOf(l, a) == SumFunctionOnSet([u \in Users |-> l[u][a]], Users)

LEMMA EntrySum ==
  ASSUME NEW l \in Amounts, NEW u \in Users, NEW a \in Asset, NEW x \in Int
  PROVE  /\ Entry(l, u, a, x) \in Amounts
         /\ \A c \in Asset : /\ SumOf(l, c) \in Int
                             /\ SumOf(Entry(l, u, a, x), c) = SumOf(l, c) + (IF c = a THEN x ELSE 0)
  <1>1. PICK n : n = Entry(l, u, a, x)  OBVIOUS
  <1>2. /\ n \in Amounts
        /\ \A v \in Users, c \in Asset : n[v][c] = l[v][c] + (IF v = u /\ c = a THEN x ELSE 0)
    BY <1>1 DEF Amounts, Entry
  <1>3. ASSUME NEW c \in Asset
        PROVE  /\ SumOf(l, c) \in Int
               /\ SumOf(n, c) = SumOf(l, c) + (IF c = a THEN x ELSE 0)
    <2>1. PICK f : f = [v \in Users |-> l[v][c]]  OBVIOUS
    <2>2. PICK h : h = [v \in Users |-> n[v][c]]  OBVIOUS
    <2>3. /\ \A v \in Users : f[v] \in Int /\ h[v] \in Int
          /\ \A v \in Users \ {u} : f[v] = h[v]
          /\ h[u] - f[u] = (IF c = a THEN x ELSE 0)
      <3>1. \A v \in Users : f[v] = l[v][c] /\ h[v] = n[v][c]  BY <2>1, <2>2
      <3>2. \A v \in Users : l[v][c] \in Int /\ n[v][c] \in Int  BY <1>2 DEF Amounts
      <3>3. \A v \in Users \ {u} : n[v][c] = l[v][c]  BY <1>2, <3>2
      <3>4. n[u][c] = l[u][c] + (IF c = a THEN x ELSE 0)  BY <1>2
      <3> QED BY <3>1, <3>2, <3>3, <3>4
    <2>4. IsFiniteSet(Users)  BY SettlementAssumption
    <2>5. SumFunctionOnSet(h, Users) = SumFunctionOnSet(f, Users) + (h[u] - f[u])
      BY <2>3, <2>4, SumChange
    <2>6. SumFunctionOnSet(f, Users) \in Int  BY <2>3, <2>4, SumTake
    <2> QED BY <2>1, <2>2, <2>3, <2>5, <2>6 DEF SumOf
  <1> QED BY <1>1, <1>2, <1>3

(* The fee of a fill in an asset. *)
Fee(e, a) == e.qty * (IF a = "base" THEN TakerFeeBps ELSE e.price * MakerFeeBps)

LEMMA FillAmountsSum ==
  ASSUME NEW l \in Amounts, NEW e \in Event, e.kind = "fill"
  PROVE  /\ FillAmounts(l, e) \in Amounts
         /\ \A a \in Asset : /\ Fee(e, a) \in Int /\ SumOf(l, a) \in Int
                             /\ SumOf(FillAmounts(l, e), a) = SumOf(l, a) - Fee(e, a)
  <1> DEFINE n == -Notional(e)
             q == -(e.qty * Scale)
             l1 == Entry(l, Buyer(e), "base", Got(e))
             l2 == Entry(l1, Buyer(e), "quote", n)
             l3 == Entry(l2, Seller(e), "quote", Earned(e))
             l4 == Entry(l3, Seller(e), "base", q)
  <1>1. /\ Buyer(e) \in Users /\ Seller(e) \in Users /\ "base" \in Asset /\ "quote" \in Asset
        /\ Got(e) \in Int /\ Earned(e) \in Int /\ n \in Int /\ q \in Int
    BY FillParts DEF Asset
  <1>2. FillAmounts(l, e) = l4  BY DEF FillAmounts
  <1>a. /\ e.qty \in Int /\ e.price \in Int /\ TakerFeeBps \in Int /\ MakerFeeBps \in Int /\ Scale \in Int
    BY SettlementAssumption DEF Event
  <1>3. Fee(e, "base") \in Int /\ Got(e) + q = -Fee(e, "base")
    <2>1. e.qty * Scale \in Int /\ e.qty * TakerFeeBps \in Int  BY <1>a
    <2> QED BY <2>1 DEF Fee, Got
  <1>4. Fee(e, "quote") \in Int /\ n + Earned(e) = -Fee(e, "quote")
    <2>1. e.price * e.qty * MakerFeeBps = e.qty * (e.price * MakerFeeBps)  BY <1>a
    <2>2. e.price * MakerFeeBps \in Int /\ Notional(e) \in Int  BY <1>a, FillParts
    <2>3. e.qty * (e.price * MakerFeeBps) \in Int  BY <1>a, <2>2
    <2> QED BY <2>1, <2>2, <2>3 DEF Fee, Earned
  <1> HIDE DEF n, q
  <1>5. /\ l1 \in Amounts
        /\ \A a \in Asset : SumOf(l, a) \in Int /\ SumOf(l1, a) = SumOf(l, a) + (IF a = "base" THEN Got(e) ELSE 0)
    BY <1>1, EntrySum
  <1> HIDE DEF l1
  <1>b. l1 \in Amounts  BY <1>5
  <1>c. Buyer(e) \in Users /\ "quote" \in Asset /\ n \in Int  BY <1>1
  <1>d. Seller(e) \in Users /\ "quote" \in Asset /\ Earned(e) \in Int  BY <1>1
  <1>e. Seller(e) \in Users /\ "base" \in Asset /\ q \in Int  BY <1>1
  <1>6. l2 \in Amounts /\ \A a \in Asset : SumOf(l2, a) = SumOf(l1, a) + (IF a = "quote" THEN n ELSE 0)
    BY <1>b, <1>c, EntrySum
  <1> HIDE DEF l2
  <1>f. l2 \in Amounts  BY <1>6
  <1>7. l3 \in Amounts /\ \A a \in Asset : SumOf(l3, a) = SumOf(l2, a) + (IF a = "quote" THEN Earned(e) ELSE 0)
    BY <1>d, <1>f, EntrySum
  <1> HIDE DEF l3
  <1>g. l3 \in Amounts  BY <1>7
  <1>8. l4 \in Amounts /\ \A a \in Asset : SumOf(l4, a) = SumOf(l3, a) + (IF a = "base" THEN q ELSE 0)
    BY <1>e, <1>g, EntrySum
  <1> HIDE DEF l4
  <1>9. SumOf(l4, "base") = SumOf(l, "base") - Fee(e, "base")
    BY <1>1, <1>3, <1>5, <1>6, <1>7, <1>8
  <1>10. SumOf(l4, "quote") = SumOf(l, "quote") - Fee(e, "quote")
    BY <1>1, <1>4, <1>5, <1>6, <1>7, <1>8
  <1> QED BY <1>2, <1>3, <1>4, <1>5, <1>8, <1>9, <1>10 DEF Asset

(* All entries and fees of an asset add up to the funds at the start. *)
EntriesConserved ==
  /\ \A s \in trades : log[s].kind = "fill"
  /\ \A a \in Asset : SumOf(ledger, a) + Fees(a) = Cardinality(Users) * Funds * Scale

FeeOf(a) == [s \in trades |-> Fee(log[s], a)]

FeesAreSums == IsFiniteSet(trades) /\ \A a : Fees(a) = SumFunctionOnSet(FeeOf(a), trades)

LEMMA FeesFinite == Inv => FeesAreSums
  <1> SUFFICES ASSUME Inv PROVE FeesAreSums  OBVIOUS
  <1>1. log \in Seq(Event) /\ trades \subseteq DOMAIN log  BY DEF Inv, SettlementTypeOK
  <1>2. DOMAIN log = 1..Len(log) /\ Len(log) \in Int  BY <1>1
  <1>3. IsFiniteSet(trades)  BY <1>1, <1>2, FS_Interval, FS_Subset
  <1> QED BY <1>3 DEF FeesAreSums, Fees, FeeOf, Fee, SumFunction

LEMMA InitConserved == Init => EntriesConserved
  <1> SUFFICES ASSUME Init PROVE EntriesConserved  OBVIOUS
  <1>1. Funds * Scale \in Int /\ IsFiniteSet(Users) /\ Funds \in Int /\ Scale \in Int /\ Cardinality(Users) \in Int
    BY SettlementAssumption, FS_CardinalityType
  <1>2. trades = {} /\ ledger = [u \in Users |-> [a \in Asset |-> Funds * Scale]]  BY DEF Init
  <1>3. ASSUME NEW a \in Asset PROVE SumOf(ledger, a) = Cardinality(Users) * (Funds * Scale)
    <2>1. PICK f : f = [u \in Users |-> ledger[u][a]]  OBVIOUS
    <2>2. \A u \in Users : f[u] = Funds * Scale  BY <1>2, <2>1
    <2> QED BY <1>1, <2>1, <2>2, SumConst DEF SumOf
  <1>4. ASSUME NEW a \in Asset PROVE Fees(a) = 0
    BY <1>2, InitInv, FeesFinite, SumEmpty DEF Inv, FeesAreSums
  <1>5. Cardinality(Users) * (Funds * Scale) = Cardinality(Users) * Funds * Scale  BY <1>1
  <1>6. Cardinality(Users) * (Funds * Scale) \in Int  BY <1>1
  <1> QED BY <1>2, <1>3, <1>4, <1>5, <1>6 DEF EntriesConserved

LEMMA FeeType ==
  ASSUME NEW e \in Event, e.kind = "fill", NEW a \in Asset
  PROVE  Fee(e, a) \in Int
  <1>1. e.qty \in Int /\ e.price \in Int /\ TakerFeeBps \in Int /\ MakerFeeBps \in Int
    BY SettlementAssumption DEF Event
  <1>2. e.price * MakerFeeBps \in Int  BY <1>1
  <1>3. e.qty * TakerFeeBps \in Int /\ e.qty * (e.price * MakerFeeBps) \in Int  BY <1>1, <1>2
  <1> QED BY <1>3 DEF Fee

LEMMA NextConserved ==
  ASSUME Inv, Inv', EntriesConserved, [Next]_vars
  PROVE  EntriesConserved'
  <1>0. /\ log \in Seq(Event) /\ trades \subseteq DOMAIN log /\ ledger \in Amounts
        /\ trades \subseteq processed /\ stored \subseteq DOMAIN log
    BY DEF Inv, SettlementTypeOK, Amounts
  <1>1. \A s \in DOMAIN log : s \in DOMAIN log' /\ log'[s] = log[s] /\ log[s] \in Event
    BY <1>0, LogKept
  <1>2. IsFiniteSet(trades) /\ \A a : Fees(a) = SumFunctionOnSet(FeeOf(a), trades)  BY FeesFinite DEF FeesAreSums
  <1>3. IsFiniteSet(trades') /\ \A a : Fees(a)' = SumFunctionOnSet(FeeOf(a)', trades')
    <2>1. FeesAreSums'  BY FeesFinite, PTL
    <2> QED BY <2>1 DEF FeesAreSums
  <1>4. \A s \in trades : log[s].kind = "fill"  BY DEF EntriesConserved
  <1>5. ASSUME NEW a \in Asset PROVE SumOf(ledger, a) + Fees(a) = Cardinality(Users) * Funds * Scale
    BY DEF EntriesConserved
  <1>6. CASE UNCHANGED <<ledger, trades>>
    <2>1. \A s \in trades' : log'[s].kind = "fill"  BY <1>0, <1>1, <1>4, <1>6
    <2>2. ASSUME NEW a \in Asset PROVE Fees(a)' = Fees(a)
      <3>1. PICK f : f = FeeOf(a)  OBVIOUS
      <3>2. PICK h : h = FeeOf(a)'  OBVIOUS
      <3>3. \A s \in trades : f[s] = h[s]  BY <1>0, <1>1, <1>6, <3>1, <3>2 DEF FeeOf
      <3>4. SumFunctionOnSet(f, trades) = SumFunctionOnSet(h, trades)  BY <1>2, <3>3, SumSame
      <3> QED BY <1>2, <1>3, <1>6, <3>1, <3>2, <3>4
    <2> QED BY <1>5, <1>6, <2>1, <2>2 DEF EntriesConserved, SumOf
  <1>7. ASSUME NEW s \in stored, ProcessNext(s) PROVE EntriesConserved'
    <2>1. s \in DOMAIN log /\ log[s] \in Event /\ s \notin trades /\ log' = log
      BY <1>0, <1>1, <1>7 DEF ProcessNext, IsNext, Unprocessed
    <2>2. CASE log[s].kind # "fill"
      BY <1>6, <1>7, <2>2 DEF ProcessNext
    <2>3. CASE log[s].kind = "fill"
      <3>1. trades' = trades \cup {s} /\ ledger' = FillAmounts(ledger, log[s])
        BY <1>7, <2>1, <2>3 DEF ProcessNext, FillLedger
      <3>2. ASSUME NEW a \in Asset
            PROVE  /\ Fee(log[s], a) \in Int /\ SumOf(ledger, a) \in Int
                   /\ SumOf(ledger, a)' = SumOf(ledger, a) - Fee(log[s], a)
        <4>1. SumOf(ledger, a)' = SumOf(ledger', a)  BY DEF SumOf
        <4> QED BY <1>0, <2>1, <2>3, <3>1, <4>1, FillAmountsSum
      <3>3. ASSUME NEW a \in Asset
            PROVE  Fees(a) \in Int /\ Fees(a)' = Fees(a) + Fee(log[s], a)
        <4>1. PICK f : f = FeeOf(a)  OBVIOUS
        <4>2. PICK h : h = FeeOf(a)'  OBVIOUS
        <4>3. \A t \in trades : f[t] = h[t] /\ f[t] \in Int
          BY <1>0, <1>1, <1>4, <2>1, <3>1, <4>1, <4>2, FeeType DEF FeeOf
        <4>4. h[s] = Fee(log[s], a) /\ h[s] \in Int  BY <2>1, <3>1, <3>2, <4>2 DEF FeeOf
        <4>5. PICK r : r = SumFunctionOnSet(f, trades)  OBVIOUS
        <4>6. r = SumFunctionOnSet(h, trades)  BY <1>2, <4>3, <4>5, SumSame
        <4>7. SumFunctionOnSet(h, trades \cup {s}) = SumFunctionOnSet(h, trades) + h[s]
          BY <1>2, <2>1, <4>3, <4>4, SumAdd
        <4>8. r \in Int  BY <1>2, <4>3, <4>5, SumTake
        <4> QED BY <1>2, <1>3, <3>1, <4>1, <4>2, <4>4, <4>5, <4>6, <4>7, <4>8
      <3>4. ASSUME NEW a \in Asset
            PROVE  SumOf(ledger, a)' + Fees(a)' = Cardinality(Users) * Funds * Scale
        <4>1. PICK x, y, z : x = SumOf(ledger, a) /\ y = Fees(a) /\ z = Fee(log[s], a)  OBVIOUS
        <4>2. x \in Int /\ y \in Int /\ z \in Int  BY <3>2, <3>3, <4>1
        <4>3. (x - z) + (y + z) = x + y  BY <4>2
        <4>4. x + y = Cardinality(Users) * Funds * Scale  BY <1>5, <4>1
        <4>5. SumOf(ledger, a)' = x - z /\ Fees(a)' = y + z  BY <3>2, <3>3, <4>1
        <4> QED BY <4>3, <4>4, <4>5
      <3>5. \A t \in trades' : log'[t].kind = "fill"  BY <1>4, <2>1, <2>3, <3>1
      <3> QED BY <3>4, <3>5 DEF EntriesConserved
    <2> QED BY <2>2, <2>3
  <1> QED BY <1>6, <1>7, LedgerWriter

(* The entries explain the balances, so what holds for them holds for the  *)
(* balances.                                                               *)
LEMMA EntriesToBalances ==
  ASSUME EntriesConserved, LedgerAddsUp
  PROVE  ValueConserved
  <1>1. ASSUME NEW a \in Asset PROVE Total(a) = SumOf(ledger, a)
    <2>1. PICK f : f = [u \in Users |-> bal[u][a].available + bal[u][a].locked]  OBVIOUS
    <2>2. PICK h : h = [u \in Users |-> ledger[u][a]]  OBVIOUS
    <2>3. f = h  BY <2>1, <2>2 DEF LedgerAddsUp
    <2>4. DOMAIN f = Users  BY <2>1
    <2>5. Total(a) = SumFunctionOnSet(f, DOMAIN f)  BY <2>1 DEF Total, SumFunction
    <2> QED BY <2>2, <2>3, <2>4, <2>5 DEF SumOf
  <1> QED BY <1>1 DEF EntriesConserved, ValueConserved

(* For any orders, users, fees, failures and interleavings: what all users *)
(* have of an asset is what they began with minus the fees of the trades.  *)
(* Nothing that is lost, retried or refused creates or destroys value.     *)
THEOREM ValueIsConserved == Spec => []ValueConserved
  <1> DEFINE I == Inv /\ LedgerAddsUp /\ EntriesConserved
  <1>1. Init => I  BY InitInv, InitConserved
  <1>2. I /\ [Next]_vars => I'  BY NextInv, NextConserved
  <1>3. I => ValueConserved  BY EntriesToBalances
  <1> QED BY <1>1, <1>2, <1>3, PTL DEF Spec

-----------------------------------------------------------------------------
(* What is settled is what the engine logged. *)

Names(e) == IF e.kind = "fill" THEN {e.taker, e.maker} ELSE {e.id}

(* The log has an event of the order. *)
Touched(o) == \E s \in DOMAIN log : o \in Names(log[s])

(* The n-th request of a connection asks the engine to place it. *)
AsksAt(c, n, o) == n \in DOMAIN queue[c] /\ queue[c][n].kind = "place" /\ queue[c][n].id = o
Asked(o)        == \E c \in Conn : \E n \in DOMAIN queue[c] : AsksAt(c, n, o)

(* The API sends an order once, and the engine accepts it once. *)
Early      == {"none", "checked", "locked", "inserted"}
NotYetSent == \A o \in Orders : pc[o] \in Early => ~Asked(o) /\ ~Touched(o)
AskedIsNew == \A o \in Orders : Asked(o) => ~Touched(o)
AskedOnce  ==
  \A o \in Orders, c, d \in Conn : \A m, n \in Nat :
    AsksAt(c, m, o) /\ AsksAt(d, n, o) => c = d /\ m = n
PlacedOnce == NotYetSent /\ AskedIsNew /\ AskedOnce

(* The book has only orders of which the log has an event. *)
BookLogged ==
  /\ \A o \in Orders : live[o] > 0 => Touched(o)
  /\ busy # None => Touched(busy.id)

(* A fill is between two orders that cross, at the maker's price. *)
FillSound ==
  /\ \A s \in DOMAIN log : log[s].kind = "fill" =>
       /\ log[s].taker # log[s].maker /\ log[s].price = Ord[log[s].maker].price
       /\ Crosses(log[s].taker, log[s].maker)
  /\ \A s \in trades : log[s].kind = "fill"

FillsOf(o) == {s \in DOMAIN log : log[s].kind = "fill" /\ o \in {log[s].taker, log[s].maker}}
Qty        == [s \in DOMAIN log |-> IF log[s].kind = "fill" THEN log[s].qty ELSE 0]
Logged(o)  == SumFunctionOnSet(Qty, FillsOf(o))
Traded(o)  == SumFunctionOnSet(Qty, TradesOf(o))

(* The engine never fills more than an order asks for. *)
NeverOverfilled == \A o \in Orders : Logged(o) + live[o] <= Ord[o].qty

(* The first half of FilledMatchesTrades. *)
RowsCount ==
  \A o \in Orders : /\ TradesOf(o) # {} => rows[o] # None
                    /\ rows[o] # None => rows[o].filled = Traded(o)

FlowInv == PlacedOnce /\ BookLogged /\ FillSound /\ NeverOverfilled /\ RowsCount

-----------------------------------------------------------------------------
(* Events and requests. *)

LEMMA TouchKept ==
  ASSUME log' = log, NEW o
  PROVE  Touched(o)' <=> Touched(o)
  BY DEF Touched

LEMMA Appended ==
  ASSUME NEW S, NEW s \in Seq(S), NEW e
  PROVE  /\ Len(Append(s, e)) = Len(s) + 1 /\ DOMAIN Append(s, e) = 1..(Len(s) + 1)
         /\ Len(s) \in Nat /\ DOMAIN s = 1..Len(s)
         /\ Append(s, e)[Len(s) + 1] = e
         /\ \A n \in 1..Len(s) : Append(s, e)[n] = s[n]
  OBVIOUS

LEMMA TouchEmit ==
  ASSUME log \in Seq(Event), NEW e, log' = Append(log, e), NEW o
  PROVE  Touched(o)' <=> Touched(o) \/ o \in Names(e)
  <1>1. /\ DOMAIN log' = 1..(Len(log) + 1) /\ Len(log) \in Nat /\ DOMAIN log = 1..Len(log)
        /\ log'[Len(log) + 1] = e /\ \A n \in 1..Len(log) : log'[n] = log[n]
    BY Appended
  <1>2. DOMAIN log' = DOMAIN log \cup {Len(log) + 1}  BY <1>1
  <1>3. Touched(o) => Touched(o)'  BY <1>1, <1>2 DEF Touched, Names
  <1>4. o \in Names(e) => Touched(o)'  BY <1>1, <1>2 DEF Touched, Names
  <1>5. Touched(o)' => Touched(o) \/ o \in Names(e)  BY <1>1, <1>2 DEF Touched, Names
  <1> QED BY <1>3, <1>4, <1>5

LEMMA AskType ==
  ASSUME NEW c, NEW n, NEW o, AsksAt(c, n, o), queue \in [Conn -> Seq(Message)], c \in Conn
  PROVE  n \in Nat /\ n >= 1 /\ n <= Len(queue[c]) /\ Asked(o)
  <1>1. queue[c] \in Seq(Message)  OBVIOUS
  <1>2. DOMAIN queue[c] = 1..Len(queue[c]) /\ Len(queue[c]) \in Nat  BY <1>1
  <1>3. n \in DOMAIN queue[c]  BY DEF AsksAt
  <1> QED BY <1>2, <1>3 DEF Asked

LEMMA AskSend ==
  ASSUME queue \in [Conn -> Seq(Message)], NEW c \in Conn, NEW m,
         queue' = [queue EXCEPT ![c] = Append(@, m)]
  PROVE  \A d \in Conn : \A n, o : AsksAt(d, n, o)' <=>
           AsksAt(d, n, o) \/ (d = c /\ n = Len(queue[c]) + 1 /\ m.kind = "place" /\ m.id = o)
  <1> SUFFICES ASSUME NEW d \in Conn, NEW n, NEW o
               PROVE  AsksAt(d, n, o)' <=>
                 AsksAt(d, n, o) \/ (d = c /\ n = Len(queue[c]) + 1 /\ m.kind = "place" /\ m.id = o)
    OBVIOUS
  <1>1. CASE d # c
    <2>1. queue'[d] = queue[d]  BY <1>1
    <2> QED BY <1>1, <2>1 DEF AsksAt
  <1>2. CASE d = c
    <2>1. queue[c] \in Seq(Message) /\ queue'[d] = Append(queue[c], m)  BY <1>2
    <2>2. PICK q : q = queue[c]  OBVIOUS
    <2>3. q \in Seq(Message) /\ queue'[d] = Append(q, m)  BY <2>1, <2>2
    <2>4. /\ DOMAIN queue'[d] = 1..(Len(q) + 1) /\ Len(q) \in Nat /\ DOMAIN q = 1..Len(q)
          /\ queue'[d][Len(q) + 1] = m /\ \A i \in 1..Len(q) : queue'[d][i] = q[i]
      <3>1. PICK r : r = Append(q, m)  OBVIOUS
      <3>2. /\ DOMAIN r = 1..(Len(q) + 1) /\ Len(q) \in Nat /\ DOMAIN q = 1..Len(q)
            /\ r[Len(q) + 1] = m /\ \A i \in 1..Len(q) : r[i] = q[i]
        BY <2>3, <3>1, Appended
      <3>3. queue'[d] = r  BY <2>3, <3>1
      <3> QED BY <3>2, <3>3
    <2>5. AsksAt(d, n, o)' <=> n \in 1..(Len(q) + 1) /\ queue'[d][n].kind = "place" /\ queue'[d][n].id = o
      BY <2>4 DEF AsksAt
    <2>6. AsksAt(d, n, o) <=> n \in 1..Len(q) /\ q[n].kind = "place" /\ q[n].id = o
      BY <1>2, <2>2, <2>4 DEF AsksAt
    <2>7. n \in 1..(Len(q) + 1) <=> n \in 1..Len(q) \/ n = Len(q) + 1  BY <2>4
    <2>8. Len(q) + 1 \notin 1..Len(q)  BY <2>4
    <2> QED BY <1>2, <2>2, <2>4, <2>5, <2>6, <2>7, <2>8
  <1> QED BY <1>1, <1>2

LEMMA AskFetch ==
  ASSUME queue \in [Conn -> Seq(Message)], NEW c \in Conn, queue[c] # <<>>,
         queue' = [queue EXCEPT ![c] = Tail(@)]
  PROVE  /\ Head(queue[c]) = queue[c][1] /\ 1 \in DOMAIN queue[c]
         /\ \A d \in Conn : \A n, o : AsksAt(d, n, o)' =>
              /\ n \in Nat \ {0}
              /\ AsksAt(d, n + (IF d = c THEN 1 ELSE 0), o)
  <1>1. PICK q : q = queue[c]  OBVIOUS
  <1>2. q \in Seq(Message) /\ q # <<>>  BY <1>1
  <1>3. /\ Head(q) = q[1] /\ 1 \in DOMAIN q /\ Len(q) \in Nat /\ DOMAIN q = 1..Len(q) /\ Len(q) >= 1
        /\ DOMAIN Tail(q) = 1..(Len(q) - 1) /\ \A i \in 1..(Len(q) - 1) : Tail(q)[i] = q[i + 1]
    BY <1>2
  <1>4. ASSUME NEW d \in Conn, NEW n, NEW o, AsksAt(d, n, o)'
        PROVE  n \in Nat \ {0} /\ AsksAt(d, n + (IF d = c THEN 1 ELSE 0), o)
    <2>1. CASE d # c
      <3>1. queue'[d] = queue[d]  BY <2>1
      <3>2. AsksAt(d, n, o)  BY <1>4, <3>1 DEF AsksAt
      <3>3. n \in Nat /\ n >= 1  BY <3>2, AskType
      <3>4. n + 0 = n  BY <3>3
      <3> QED BY <2>1, <3>2, <3>3, <3>4
    <2>2. CASE d = c
      <3>1. queue'[d] = Tail(q)  BY <1>1, <2>2
      <3>2. n \in 1..(Len(q) - 1) /\ Tail(q)[n].kind = "place" /\ Tail(q)[n].id = o
        BY <1>3, <1>4, <3>1 DEF AsksAt
      <3>3. n \in Nat \ {0} /\ n + 1 \in 1..Len(q) /\ Tail(q)[n] = q[n + 1]  BY <1>3, <3>2
      <3>4. AsksAt(c, n + 1, o)  BY <1>1, <1>3, <3>2, <3>3 DEF AsksAt
      <3> QED BY <2>2, <3>3, <3>4
    <2> QED BY <2>1, <2>2
  <1> QED BY <1>1, <1>3, <1>4

(* The queues lose requests at most, and nothing new is logged of an       *)
(* order.                                                                  *)
LEMMA PlacedKept ==
  ASSUME Inv, PlacedOnce, NEW k \in [Conn -> Nat],
         \A d \in Conn : \A n, o : AsksAt(d, n, o)' => n \in Nat /\ AsksAt(d, n + k[d], o),
         \A o \in Orders : pc'[o] \in Early => pc[o] \in Early,
         \A o \in Orders : Touched(o)' => Touched(o)
  PROVE  PlacedOnce'
  <1>1. queue \in [Conn -> Seq(Message)]  BY DEF Inv, SettlementTypeOK
  <1>2. ASSUME NEW o, Asked(o)' PROVE Asked(o)
    <2>0. PICK d \in Conn : \E n : AsksAt(d, n, o)'  BY <1>2 DEF Asked
    <2>1. PICK n : AsksAt(d, n, o)'  BY <2>0
    <2> QED BY <1>1, <2>1, AskType
  <1>3. NotYetSent' /\ AskedIsNew'  BY <1>2 DEF PlacedOnce, NotYetSent, AskedIsNew
  <1>4. ASSUME NEW o \in Orders, NEW c \in Conn, NEW d \in Conn, NEW m \in Nat, NEW n \in Nat,
               AsksAt(c, m, o)', AsksAt(d, n, o)'
        PROVE  c = d /\ m = n
    <2>1. AsksAt(c, m + k[c], o) /\ AsksAt(d, n + k[d], o)  BY <1>4
    <2>2. k[c] \in Nat /\ k[d] \in Nat /\ m + k[c] \in Nat /\ n + k[d] \in Nat  OBVIOUS
    <2>3. c = d /\ m + k[c] = n + k[d]  BY <2>1, <2>2 DEF PlacedOnce, AskedOnce
    <2> QED BY <2>2, <2>3
  <1>5. AskedOnce'  BY <1>4 DEF AskedOnce
  <1> QED BY <1>3, <1>5 DEF PlacedOnce

LEMMA PlacedKeptQueue ==
  ASSUME Inv, PlacedOnce,
         queue' = queue \/ queue' = [queue EXCEPT !["api"] = <<>>],
         \A o \in Orders : pc'[o] \in Early => pc[o] \in Early,
         \A o \in Orders : Touched(o)' => Touched(o)
  PROVE  PlacedOnce'
  <1>1. queue \in [Conn -> Seq(Message)]  BY DEF Inv, SettlementTypeOK
  <1>2. PICK k : k = [d \in Conn |-> 0]  OBVIOUS
  <1>3. ASSUME NEW d \in Conn, NEW n, NEW o, AsksAt(d, n, o)'
        PROVE  n \in Nat /\ AsksAt(d, n + k[d], o)
    <2>1. queue'[d] = queue[d] \/ queue'[d] = <<>>  BY <1>1
    <2>2. n \in DOMAIN queue'[d]  BY <1>3 DEF AsksAt
    <2>3. queue'[d] # <<>>  BY <2>2
    <2>4. AsksAt(d, n, o)  BY <1>3, <2>1, <2>3 DEF AsksAt
    <2>5. n \in Nat /\ n + k[d] = n  BY <1>1, <1>2, <2>4, AskType
    <2> QED BY <2>4, <2>5
  <1>4. k \in [Conn -> Nat]  BY <1>2
  <1> QED BY <1>3, <1>4, PlacedKept

(* A request is added. *)
LEMMA PlacedSend ==
  ASSUME Inv, PlacedOnce, NEW c \in Conn, NEW m \in Message,
         queue' = [queue EXCEPT ![c] = Append(@, m)], log' = log,
         m.kind = "place" => pc[m.id] \in Early /\ pc'[m.id] \notin Early,
         \A o \in Orders : pc'[o] \in Early => pc[o] \in Early
  PROVE  PlacedOnce'
  <1>1. queue \in [Conn -> Seq(Message)] /\ Len(queue[c]) \in Nat  BY DEF Inv, SettlementTypeOK
  <1>2. \A d \in Conn : \A n, o : AsksAt(d, n, o)' <=>
          AsksAt(d, n, o) \/ (d = c /\ n = Len(queue[c]) + 1 /\ m.kind = "place" /\ m.id = o)
    BY <1>1, AskSend
  <1>3. \A o : Touched(o)' <=> Touched(o)  BY TouchKept
  <1>4. ASSUME NEW o, Asked(o)' PROVE Asked(o) \/ (m.kind = "place" /\ m.id = o)
    <2>0. PICK d \in Conn : \E n : AsksAt(d, n, o)'  BY <1>4 DEF Asked
    <2>1. PICK n : AsksAt(d, n, o)'  BY <2>0
    <2> QED BY <1>1, <1>2, <2>1, AskType
  <1>5. m.id \in Orders  BY DEF Message
  <1>6. m.kind = "place" => ~Asked(m.id) /\ ~Touched(m.id)
    BY <1>5 DEF PlacedOnce, NotYetSent
  <1>7. NotYetSent' /\ AskedIsNew'
    BY <1>3, <1>4, <1>6 DEF PlacedOnce, NotYetSent, AskedIsNew
  <1>8. ASSUME NEW o \in Orders, NEW d \in Conn, NEW e \in Conn, NEW i \in Nat, NEW j \in Nat,
               AsksAt(d, i, o)', AsksAt(e, j, o)'
        PROVE  d = e /\ i = j
    <2>1. CASE m.kind = "place" /\ m.id = o
      <3>1. ~AsksAt(d, i, o) /\ ~AsksAt(e, j, o)  BY <1>1, <1>6, <2>1, AskType
      <3> QED BY <1>2, <1>8, <3>1
    <2>2. CASE ~(m.kind = "place" /\ m.id = o)
      <3>1. AsksAt(d, i, o) /\ AsksAt(e, j, o)  BY <1>2, <1>8, <2>2
      <3> QED BY <3>1 DEF PlacedOnce, AskedOnce
    <2> QED BY <2>1, <2>2
  <1>9. AskedOnce'  BY <1>8 DEF AskedOnce
  <1> QED BY <1>7, <1>9 DEF PlacedOnce

(* A request is read; if the engine accepts the order, its event is the    *)
(* first.                                                                  *)
LEMMA PlacedFetch ==
  ASSUME Inv, PlacedOnce, NEW c \in Conn, NEW kind, Fetches(c, kind), NEW o, o = Head(queue[c]).id,
         \A p \in Orders : pc'[p] \in Early => pc[p] \in Early,
         \A p \in Orders : Touched(p)' => Touched(p) \/ (kind = "place" /\ p = o)
  PROVE  /\ PlacedOnce'
         /\ kind = "place" => Asked(o) /\ ~Touched(o) /\ ~Asked(o)'
  <1>1. queue \in [Conn -> Seq(Message)] /\ queue[c] # <<>> /\ queue' = [queue EXCEPT ![c] = Tail(@)]
    BY DEF Inv, SettlementTypeOK, Fetches
  <1>2. /\ Head(queue[c]) = queue[c][1] /\ 1 \in DOMAIN queue[c]
        /\ \A d \in Conn : \A n, p : AsksAt(d, n, p)' =>
             n \in Nat \ {0} /\ AsksAt(d, n + (IF d = c THEN 1 ELSE 0), p)
    BY <1>1, AskFetch
  <1>4. o \in Orders  BY Fetched DEF Inv
  <1>5. kind = "place" => AsksAt(c, 1, o) /\ Asked(o) /\ ~Touched(o)
    BY <1>1, <1>2, <1>4, AskType DEF AsksAt, Fetches, PlacedOnce, AskedIsNew
  <1>6. ASSUME kind = "place", Asked(o)' PROVE FALSE
    <2>0. PICK d \in Conn : \E n : AsksAt(d, n, o)'  BY <1>6 DEF Asked
    <2>1. PICK n : AsksAt(d, n, o)'  BY <2>0
    <2>2. PICK i : i = n + (IF d = c THEN 1 ELSE 0)  OBVIOUS
    <2>3. n \in Nat \ {0} /\ AsksAt(d, i, o) /\ i \in Nat  BY <1>2, <2>1, <2>2
    <2>4. d = c /\ i = 1  BY <1>4, <1>5, <1>6, <2>3 DEF PlacedOnce, AskedOnce
    <2> QED BY <2>2, <2>3, <2>4
  <1>7. PICK k : k = [d \in Conn |-> IF d = c THEN 1 ELSE 0]  OBVIOUS
  <1>8. k \in [Conn -> Nat] /\ \A d \in Conn : k[d] = (IF d = c THEN 1 ELSE 0)  BY <1>7
  <1>9. \A d \in Conn : \A n, p : AsksAt(d, n, p)' => n \in Nat /\ AsksAt(d, n + k[d], p)
    BY <1>2, <1>8
  <1>10. ASSUME NEW p, Asked(p)' PROVE Asked(p)
    <2>0. PICK d \in Conn : \E n : AsksAt(d, n, p)'  BY <1>10 DEF Asked
    <2>1. PICK n : AsksAt(d, n, p)'  BY <2>0
    <2> QED BY <1>1, <1>9, <2>1, AskType
  <1>11. NotYetSent' /\ AskedIsNew'
    BY <1>4, <1>5, <1>6, <1>10 DEF PlacedOnce, NotYetSent, AskedIsNew
  <1>12. ASSUME NEW p \in Orders, NEW d \in Conn, NEW e \in Conn, NEW m \in Nat, NEW n \in Nat,
               AsksAt(d, m, p)', AsksAt(e, n, p)'
        PROVE  d = e /\ m = n
    <2>1. AsksAt(d, m + k[d], p) /\ AsksAt(e, n + k[e], p)  BY <1>9, <1>12
    <2>2. k[d] \in Nat /\ k[e] \in Nat /\ m + k[d] \in Nat /\ n + k[e] \in Nat  BY <1>8
    <2>3. d = e /\ m + k[d] = n + k[e]  BY <2>1, <2>2 DEF PlacedOnce, AskedOnce
    <2> QED BY <2>2, <2>3
  <1>13. AskedOnce'  BY <1>12 DEF AskedOnce
  <1> QED BY <1>5, <1>6, <1>11, <1>13 DEF PlacedOnce

-----------------------------------------------------------------------------
(* The sums over the log and over the trades. *)

LogSums ==
  /\ \A S \in SUBSET (DOMAIN log) : IsFiniteSet(S)
  /\ \A s \in DOMAIN log : Qty[s] \in Nat
  /\ \A o : FillsOf(o) \subseteq DOMAIN log /\ TradesOf(o) \subseteq DOMAIN log /\ TradesOf(o) \subseteq trades
  /\ \A o : Logged(o) \in Nat /\ Traded(o) \in Nat

LEMMA LogSumsHold == Inv => LogSums
  <1> SUFFICES ASSUME Inv PROVE LogSums  OBVIOUS
  <1>1. log \in Seq(Event) /\ trades \subseteq DOMAIN log  BY DEF Inv, SettlementTypeOK
  <1>2. DOMAIN log = 1..Len(log) /\ Len(log) \in Int /\ \A s \in DOMAIN log : log[s] \in Event  BY <1>1
  <1>3. \A S \in SUBSET (DOMAIN log) : IsFiniteSet(S)  BY <1>2, FS_Interval, FS_Subset
  <1>4. \A s \in DOMAIN log : Qty[s] \in Nat  BY <1>2 DEF Qty, Event
  <1>5. \A o : FillsOf(o) \subseteq DOMAIN log /\ TradesOf(o) \subseteq DOMAIN log /\ TradesOf(o) \subseteq trades
    BY <1>1 DEF FillsOf, TradesOf
  <1>6. ASSUME NEW o PROVE Logged(o) \in Nat /\ Traded(o) \in Nat
    <2>1. DOMAIN log \in SUBSET (DOMAIN log)  OBVIOUS
    <2>2. IsFiniteSet(DOMAIN log)  BY <1>3, <2>1
    <2>3. FillsOf(o) \in SUBSET (DOMAIN log) /\ TradesOf(o) \in SUBSET (DOMAIN log)  BY <1>5
    <2> QED BY <1>4, <2>2, <2>3, SumPart DEF Logged, Traded
  <1> QED BY <1>3, <1>4, <1>5, <1>6 DEF LogSums

LEMMA LoggedKept ==
  ASSUME log' = log, NEW o
  PROVE  Logged(o)' = Logged(o)
  BY DEF Logged, FillsOf, Qty

LEMMA LoggedEmit ==
  ASSUME Inv, NEW e \in Event, log' = Append(log, e), NEW o \in Orders
  PROVE  Logged(o)' = Logged(o) + (IF e.kind = "fill" /\ o \in {e.taker, e.maker} THEN e.qty ELSE 0)
  <1>1. log \in Seq(Event)  BY DEF Inv, SettlementTypeOK
  <1>2. PICK n : n = Len(log) + 1  OBVIOUS
  <1>3. /\ DOMAIN log' = DOMAIN log \cup {n} /\ n \notin DOMAIN log
        /\ log'[n] = e /\ \A s \in DOMAIN log : log'[s] = log[s]
    <2>1. /\ DOMAIN log' = 1..(Len(log) + 1) /\ Len(log) \in Nat /\ DOMAIN log = 1..Len(log)
          /\ log'[Len(log) + 1] = e /\ \A s \in 1..Len(log) : log'[s] = log[s]
      BY <1>1, Appended
    <2> QED BY <1>2, <2>1
  <1>4. PICK f, h : f = Qty /\ h = Qty'  OBVIOUS
  <1>5. PICK F, G : F = FillsOf(o) /\ G = FillsOf(o)'  OBVIOUS
  <1>6. IsFiniteSet(F) /\ F \subseteq DOMAIN log /\ Logged(o) \in Nat /\ \A s \in DOMAIN log : f[s] \in Nat
    BY <1>4, <1>5, LogSumsHold DEF LogSums
  <1>7. \A s \in DOMAIN log : h[s] = f[s]  BY <1>3, <1>4 DEF Qty
  <1>8. h[n] = IF e.kind = "fill" THEN e.qty ELSE 0  BY <1>3, <1>4 DEF Qty
  <1>9. Logged(o) = SumFunctionOnSet(f, F) /\ Logged(o)' = SumFunctionOnSet(h, G)
    BY <1>4, <1>5 DEF Logged
  <1>10. SumFunctionOnSet(h, F) = SumFunctionOnSet(f, F)
    <2>1. \A s \in F : f[s] = h[s]  BY <1>6, <1>7
    <2> QED BY <1>6, <2>1, SumSame
  <1>11. CASE e.kind = "fill" /\ o \in {e.taker, e.maker}
    <2>1. G = F \cup {n}  BY <1>3, <1>5, <1>11 DEF FillsOf
    <2>2. n \notin F /\ h[n] = e.qty /\ e.qty \in Int  BY <1>3, <1>6, <1>8, <1>11, FillParts
    <2>3. \A s \in F \cup {n} : h[s] \in Int  BY <1>6, <1>7, <2>2
    <2>4. SumFunctionOnSet(h, F \cup {n}) = SumFunctionOnSet(h, F) + h[n]  BY <1>6, <2>2, <2>3, SumAdd
    <2> QED BY <1>9, <1>10, <1>11, <2>1, <2>2, <2>4
  <1>12. CASE ~(e.kind = "fill" /\ o \in {e.taker, e.maker})
    <2>1. G = F  BY <1>3, <1>5, <1>12 DEF FillsOf
    <2>2. Logged(o)' = Logged(o) /\ Logged(o) + 0 = Logged(o)  BY <1>6, <1>9, <1>10, <2>1
    <2> QED BY <1>12, <2>2
  <1> QED BY <1>11, <1>12

LEMMA TradedKept ==
  ASSUME Inv, trades' = trades, \A s \in DOMAIN log : s \in DOMAIN log' /\ log'[s] = log[s], NEW o
  PROVE  TradesOf(o)' = TradesOf(o) /\ Traded(o)' = Traded(o)
  <1>1. trades \subseteq DOMAIN log  BY DEF Inv, SettlementTypeOK
  <1>2. TradesOf(o)' = TradesOf(o)  BY <1>1 DEF TradesOf
  <1>3. PICK f, h, T : f = Qty /\ h = Qty' /\ T = TradesOf(o)  OBVIOUS
  <1>4. IsFiniteSet(T) /\ T \subseteq DOMAIN log  BY <1>3, LogSumsHold DEF LogSums
  <1>5. \A s \in T : f[s] = h[s]  BY <1>3, <1>4 DEF Qty
  <1>6. SumFunctionOnSet(f, T) = SumFunctionOnSet(h, T)  BY <1>4, <1>5, SumSame
  <1> QED BY <1>2, <1>3, <1>6 DEF Traded

(* No event of an order: nothing of it was filled. *)
LEMMA UntouchedSums ==
  ASSUME FillSound, Inv, NEW o, ~Touched(o)
  PROVE  Logged(o) = 0 /\ TradesOf(o) = {} /\ Traded(o) = 0
  <1>1. trades \subseteq DOMAIN log  BY DEF Inv, SettlementTypeOK
  <1>2. FillsOf(o) = {}  BY DEF Touched, Names, FillsOf
  <1>3. TradesOf(o) = {}  BY <1>1 DEF Touched, Names, TradesOf, FillSound
  <1> QED BY <1>2, <1>3, SumEmpty DEF Logged, Traded

(* What is settled of an order is no more than the engine filled. *)
LEMMA TradedBound ==
  ASSUME Inv, FillSound, NEW o
  PROVE  TradesOf(o) \subseteq FillsOf(o) /\ Traded(o) <= Logged(o)
  <1>1. TradesOf(o) \subseteq FillsOf(o)  BY DEF Inv, SettlementTypeOK, TradesOf, FillsOf, FillSound
  <1>2. PICK f, T, F : f = Qty /\ T = TradesOf(o) /\ F = FillsOf(o)  OBVIOUS
  <1>3. IsFiniteSet(F) /\ \A s \in F : f[s] \in Nat  BY <1>2, LogSumsHold DEF LogSums
  <1>4. SumFunctionOnSet(f, T) <= SumFunctionOnSet(f, F)  BY <1>1, <1>2, <1>3, SumPart
  <1> QED BY <1>1, <1>2, <1>4 DEF Logged, Traded

-----------------------------------------------------------------------------
(* FlowInv is inductive. *)

(* Steps that leave the engine's log and book and the trades alone, and    *)
(* insert rows with nothing filled at most.                                *)
LEMMA FlowFrame ==
  ASSUME Inv, FlowInv, PlacedOnce', UNCHANGED <<log, trades, live, busy>>,
         \A o \in Orders :
           \/ rows'[o] = rows[o]
           \/ rows[o] # None /\ rows'[o] # None /\ rows'[o].filled = rows[o].filled
           \/ ~Touched(o) /\ rows'[o] # None /\ rows'[o].filled = 0
  PROVE  FlowInv'
  <1>1. \A o : (Touched(o)' <=> Touched(o)) /\ Logged(o)' = Logged(o)  BY TouchKept, LoggedKept
  <1>2. BookLogged' /\ NeverOverfilled'
    BY <1>1 DEF FlowInv, BookLogged, NeverOverfilled
  <1>3. FillSound'  BY DEF FlowInv, FillSound, Crosses
  <1>4. \A o : TradesOf(o)' = TradesOf(o) /\ Traded(o)' = Traded(o)  BY TradedKept
  <1>5. \A o : ~Touched(o) => TradesOf(o) = {} /\ Traded(o) = 0  BY UntouchedSums DEF FlowInv
  <1>6. RowsCount'  BY <1>4, <1>5 DEF FlowInv, RowsCount
  <1> QED BY <1>2, <1>3, <1>6 DEF FlowInv

LEMMA ApiFlow ==
  ASSUME Inv, FlowInv, NEW o \in Orders,
         \/ PlaceOrder(o) \/ PlaceDirect(o) \/ CancelOrder(o) \/ ApiStep(o) \/ GiveUp(o) \/ CancelGivesUp(o)
  PROVE  FlowInv'
  <1>0. /\ pc \in [Orders -> {"none", "checked", "locked", "inserted", "sent", "unlocking", "leaked", "done"}]
        /\ rows \in [Orders -> Row \cup {None}] /\ PlacedOnce
    BY DEF Inv, SettlementTypeOK, FlowInv
  <1>1. ASSUME UNCHANGED <<log, trades, live, busy, rows>>, PlacedOnce' PROVE FlowInv'
    BY <1>1, FlowFrame
  <1>2. ASSUME UNCHANGED <<log, queue>>, \A p \in Orders : pc'[p] \in Early => pc[p] \in Early
        PROVE  PlacedOnce'
    BY <1>0, <1>2, TouchKept, PlacedKeptQueue
  <1>3. CASE PlaceOrder(o) \/ TryLockBalance(o) \/ UnlockBalance(o) \/ Rejected(o) \/ GiveUp(o) \/ CancelGivesUp(o)
    <2>1. UNCHANGED <<log, trades, live, busy, rows, queue>>
      BY <1>3 DEF PlaceOrder, TryLockBalance, UnlockBalance, Rejected, GiveUp, CancelGivesUp
    <2>2. \A p \in Orders : pc'[p] \in Early => pc[p] \in Early
      BY <1>0, <1>3 DEF PlaceOrder, TryLockBalance, UnlockBalance, Rejected, GiveUp, CancelGivesUp, Early
    <2> QED BY <1>1, <1>2, <2>1, <2>2
  <1>4. CASE Send(o)
    <2>1. UNCHANGED <<log, trades, live, busy, rows>>  BY <1>4 DEF Send
    <2>2. /\ \A p \in Orders : pc'[p] \in Early => pc[p] \in Early
          /\ pc[o] \in Early /\ pc'[o] \notin Early
      BY <1>0, <1>4 DEF Send, Early
    <2>3. PICK m : m = [kind |-> "place", id |-> o]  OBVIOUS
    <2>4. m \in Message /\ m.id = o /\ "api" \in Conn  BY <2>3 DEF Message, Conn
    <2>5. queue' = [queue EXCEPT !["api"] = Append(@, m)]  BY <1>4, <2>3 DEF Send
    <2>6. PlacedOnce'  BY <1>0, <2>1, <2>2, <2>4, <2>5, PlacedSend
    <2> QED BY <1>1, <2>1, <2>6
  <1>5. CASE PlaceDirect(o)
    <2>1. UNCHANGED <<log, trades, live, busy, rows>>  BY <1>5 DEF PlaceDirect
    <2>2. /\ \A p \in Orders : pc'[p] \in Early => pc[p] \in Early
          /\ pc[o] \in Early /\ pc'[o] \notin Early
      BY <1>0, <1>5 DEF PlaceDirect, Early
    <2>3. PICK m : m = [kind |-> "place", id |-> o]  OBVIOUS
    <2>4. m \in Message /\ m.id = o /\ "direct" \in Conn  BY <2>3 DEF Message, Conn
    <2>5. queue' = [queue EXCEPT !["direct"] = Append(@, m)]  BY <1>5, <2>3 DEF PlaceDirect
    <2>6. PlacedOnce'  BY <1>0, <2>1, <2>2, <2>4, <2>5, PlacedSend
    <2> QED BY <1>1, <2>1, <2>6
  <1>6. CASE CancelOrder(o)
    <2>1. UNCHANGED <<log, trades, live, busy, rows, pc>>  BY <1>6 DEF CancelOrder
    <2>3. PICK m : m = [kind |-> "cancel", id |-> o]  OBVIOUS
    <2>4. m \in Message /\ m.kind # "place" /\ "api" \in Conn  BY <2>3 DEF Message, Conn
    <2>5. queue' = [queue EXCEPT !["api"] = Append(@, m)]  BY <1>6, <2>3 DEF CancelOrder
    <2>6. PlacedOnce'  BY <1>0, <2>1, <2>4, <2>5, PlacedSend
    <2> QED BY <1>1, <2>1, <2>6
  <1>7. CASE InsertPending(o)
    <2>1. UNCHANGED <<log, trades, live, busy, queue>>  BY <1>7 DEF InsertPending
    <2>2. \A p \in Orders : pc'[p] \in Early => pc[p] \in Early
      BY <1>0, <1>7 DEF InsertPending, Early
    <2>3. ~Touched(o)  BY <1>0, <1>7 DEF PlacedOnce, NotYetSent, Early, InsertPending
    <2>4. PICK r : r = [status |-> "pending", filled |-> 0]  OBVIOUS
    <2>5. r \in Row /\ r # None /\ r.filled = 0  BY <2>4, SettlementAssumption DEF Row, Status
    <2>6. rows' = rows \/ rows' = [rows EXCEPT ![o] = r]  BY <1>7, <2>4 DEF InsertPending
    <2>7. \A p \in Orders : \/ rows'[p] = rows[p]
                            \/ ~Touched(p) /\ rows'[p] # None /\ rows'[p].filled = 0
      BY <1>0, <2>3, <2>5, <2>6
    <2>8. PlacedOnce'  BY <1>2, <2>1, <2>2
    <2> QED BY <2>1, <2>7, <2>8, FlowFrame
  <1>8. CASE Acked(o) \/ CancelAnswered(o)
    <2>1. UNCHANGED <<log, trades, live, busy, queue>>  BY <1>8 DEF Acked, CancelAnswered
    <2>2. \A p \in Orders : pc'[p] \in Early => pc[p] \in Early
      BY <1>0, <1>8 DEF Acked, CancelAnswered, Early
    <2>3. rows[o] \in Row  BY <1>0, <1>8 DEF Inv, RowKept, Acked, CancelAnswered
    <2>4. \A s : [rows[o] EXCEPT !.status = s] = [status |-> s, filled |-> rows[o].filled]
      BY <2>3 DEF Row
    <2>5. rows' = rows \/ \E s \in Status : rows' = [rows EXCEPT ![o] = [status |-> s, filled |-> rows[o].filled]]
      <3>1. CASE Acked(o)
        <4>1. answer[o] \in Status  BY <3>1 DEF Acked, Inv, SettlementTypeOK
        <4> QED BY <2>4, <3>1, <4>1 DEF Acked, SetStatus
      <3>2. CASE CancelAnswered(o)
        <4>1. "canceled" \in Status  BY DEF Status
        <4> QED BY <2>4, <3>2, <4>1 DEF CancelAnswered, SetStatus
      <3> QED BY <1>8, <3>1, <3>2
    <2>6. \A s \in Status : [status |-> s, filled |-> rows[o].filled] # None
      <3>1. \A s \in Status : [status |-> s, filled |-> rows[o].filled] \in Row  BY <2>3 DEF Row
      <3> QED BY <3>1, SettlementAssumption
    <2>7. \A p \in Orders : \/ rows'[p] = rows[p]
                            \/ rows[p] # None /\ rows'[p] # None /\ rows'[p].filled = rows[p].filled
      BY <1>0, <2>3, <2>5, <2>6, SettlementAssumption
    <2>8. PlacedOnce'  BY <1>2, <2>1, <2>2
    <2> QED BY <2>1, <2>7, <2>8, FlowFrame
  <1> QED BY <1>3, <1>4, <1>5, <1>6, <1>7, <1>8 DEF ApiStep

(* The engine logs an event.  What an event does to an order depends on    *)
(* its kind: a fill takes its quantity from both orders.                   *)
LEMMA FlowEmit ==
  ASSUME Inv, FlowInv, PlacedOnce', NEW e \in Event, log' = Append(log, e), UNCHANGED <<trades, rows>>,
         (busy # None => Touched(busy.id))',
         e.kind = "fill" => e.taker # e.maker /\ e.price = Ord[e.maker].price /\ Crosses(e.taker, e.maker),
         \A o \in Orders : live'[o] > 0 => Touched(o)',
         \A o \in Orders :
           Logged(o) + (IF e.kind = "fill" /\ o \in {e.taker, e.maker} THEN e.qty ELSE 0) + live'[o] <= Ord[o].qty
  PROVE  FlowInv'
  <1>1. log \in Seq(Event) /\ trades \subseteq DOMAIN log  BY DEF Inv, SettlementTypeOK
  <1>2. /\ DOMAIN log' = 1..(Len(log) + 1) /\ Len(log) \in Nat /\ DOMAIN log = 1..Len(log)
        /\ log'[Len(log) + 1] = e /\ \A s \in 1..Len(log) : log'[s] = log[s]
    BY <1>1, Appended
  <1>3. DOMAIN log' = DOMAIN log \cup {Len(log) + 1} /\ \A s \in DOMAIN log : s \in DOMAIN log' /\ log'[s] = log[s]
    BY <1>2
  <1>4. BookLogged'  BY DEF BookLogged
  <1>5. NeverOverfilled'  BY LoggedEmit DEF NeverOverfilled
  <1>6. FillSound'
    <2>1. ASSUME NEW s \in DOMAIN log', log'[s].kind = "fill"
          PROVE  /\ log'[s].taker # log'[s].maker /\ log'[s].price = Ord[log'[s].maker].price
                 /\ Crosses(log'[s].taker, log'[s].maker)
      <3>1. CASE s \in DOMAIN log  BY <1>3, <2>1, <3>1 DEF FlowInv, FillSound
      <3>2. CASE s = Len(log) + 1  BY <1>2, <2>1, <3>2
      <3> QED BY <1>3, <3>1, <3>2
    <2>2. \A s \in trades' : log'[s].kind = "fill"  BY <1>1, <1>3 DEF FlowInv, FillSound
    <2> QED BY <2>1, <2>2 DEF FillSound, Crosses
  <1>7. \A o : TradesOf(o)' = TradesOf(o) /\ Traded(o)' = Traded(o)  BY <1>3, TradedKept
  <1>8. RowsCount'  BY <1>7 DEF FlowInv, RowsCount
  <1> QED BY <1>4, <1>5, <1>6, <1>8 DEF FlowInv

(* The order leaves the book. *)
LEMMA FlowCancel ==
  ASSUME Inv, FlowInv, PlacedOnce', NEW o \in Orders, live[o] > 0, live' = [live EXCEPT ![o] = 0],
         log' = Append(log, [kind |-> "canceled", id |-> o]), UNCHANGED <<trades, rows>>,
         busy' = None \/ busy' = busy
  PROVE  FlowInv'
  <1>1. PICK e : e = [kind |-> "canceled", id |-> o]  OBVIOUS
  <1>2. e \in Event /\ e.kind # "fill"  BY <1>1 DEF Event
  <1>3. log \in Seq(Event) /\ live \in [Orders -> Nat]  BY DEF Inv, SettlementTypeOK
  <1>4. \A p : Touched(p) => Touched(p)'  BY <1>1, <1>3, TouchEmit
  <1>5. (busy # None => Touched(busy.id))'  BY <1>4 DEF FlowInv, BookLogged
  <1>6. \A p \in Orders : live'[p] \in Nat /\ live'[p] <= live[p]  BY <1>3
  <1>7. \A p \in Orders : live'[p] > 0 => Touched(p)'  BY <1>3, <1>4, <1>6 DEF FlowInv, BookLogged
  <1>8. \A p \in Orders : Logged(p) + 0 + live'[p] <= Ord[p].qty
    <2>1. \A p \in Orders : Logged(p) \in Nat /\ Ord[p].qty \in Nat  BY LogSumsHold, OrderType DEF LogSums
    <2>2. \A p \in Orders : Logged(p) + live[p] <= Ord[p].qty  BY DEF FlowInv, NeverOverfilled
    <2> QED BY <1>3, <1>6, <2>1, <2>2
  <1> QED BY <1>1, <1>2, <1>5, <1>7, <1>8, FlowEmit

LEMMA EngineFlow ==
  ASSUME Inv, FlowInv, NEW c \in Conn, EngineReject(c) \/ EngineAccept(c) \/ EngineCancel(c) \/ Broadcast(c)
  PROVE  FlowInv'
  <1>0. /\ log \in Seq(Event) /\ live \in [Orders -> Nat] /\ PlacedOnce /\ BookLogged /\ NeverOverfilled /\ FillSound
    BY DEF Inv, SettlementTypeOK, FlowInv
  <1>1. CASE Broadcast(c)
    <2>1. UNCHANGED <<log, queue, pc, trades, live, busy, rows>>  BY <1>1 DEF Broadcast
    <2>2. PlacedOnce'  BY <1>0, <2>1, TouchKept, PlacedKeptQueue
    <2> QED BY <2>1, <2>2, FlowFrame
  <1>2. PICK o : o = Head(queue[c]).id  OBVIOUS
  <1>3. CASE EngineReject(c)
    <2>1. UNCHANGED <<log, pc, trades, live, busy, rows>> /\ Fetches(c, "place")  BY <1>3 DEF EngineReject
    <2>2. PlacedOnce'  BY <1>0, <1>2, <2>1, TouchKept, PlacedFetch
    <2> QED BY <2>1, <2>2, FlowFrame
  <1>4. CASE EngineAccept(c)
    <2>1. UNCHANGED <<pc, trades, rows>> /\ Fetches(c, "place") /\ live' = [live EXCEPT ![o] = Ord[o].qty]
          /\ busy' = [id |-> o, conn |-> c]
      BY <1>2, <1>4 DEF EngineAccept
    <2>2. PICK e : e = [kind |-> "accepted", id |-> o]  OBVIOUS
    <2>3. log' = Append(log, e)  BY <1>2, <1>4, <2>2 DEF EngineAccept, Emit
    <2>4. o \in Orders  BY <1>2, <2>1, Fetched DEF Inv
    <2>5. e \in Event /\ e.kind # "fill" /\ Names(e) = {o}  BY <2>2, <2>4 DEF Event, Names
    <2>6. \A p : Touched(p)' <=> Touched(p) \/ p = o  BY <1>0, <2>3, <2>5, TouchEmit
    <2>7. PlacedOnce' /\ ~Touched(o)  BY <1>0, <1>2, <2>1, <2>6, PlacedFetch
    <2>8. (busy # None => Touched(busy.id))'  BY <2>1, <2>6
    <2>9. \A p \in Orders : live'[p] > 0 => Touched(p)'  BY <1>0, <2>1, <2>4, <2>6 DEF BookLogged
    <2>10. \A p \in Orders : Logged(p) + 0 + live'[p] <= Ord[p].qty
      <3>1. \A p \in Orders : Logged(p) \in Nat /\ Ord[p].qty \in Nat  BY LogSumsHold, OrderType DEF LogSums
      <3>2. \A p \in Orders : Logged(p) + live[p] <= Ord[p].qty  BY <1>0 DEF NeverOverfilled
      <3>3. Logged(o) = 0  BY <1>0, <2>7, UntouchedSums
      <3>4. \A p \in Orders : live'[p] = IF p = o THEN Ord[o].qty ELSE live[p]  BY <1>0, <2>1
      <3>5. ASSUME NEW p \in Orders PROVE Logged(p) + 0 + live'[p] <= Ord[p].qty
        <4>1. CASE p = o
          <5>1. Logged(p) = 0 /\ live'[p] = Ord[p].qty /\ Ord[p].qty \in Nat  BY <3>1, <3>3, <3>4, <4>1
          <5> QED BY <5>1
        <4>2. CASE p # o  BY <1>0, <3>1, <3>2, <3>4, <4>2
        <4> QED BY <4>1, <4>2
      <3> QED BY <3>5
    <2> QED BY <2>1, <2>3, <2>5, <2>7, <2>8, <2>9, <2>10, FlowEmit
  <1>5. CASE EngineCancel(c)
    <2>1. UNCHANGED <<pc, trades, rows, busy>> /\ Fetches(c, "cancel")  BY <1>5 DEF EngineCancel
    <2>2. o \in Orders  BY <1>2, <2>1, Fetched DEF Inv
    <2>3. CASE live[o] > 0
      <3>1. live' = [live EXCEPT ![o] = 0] /\ log' = Append(log, [kind |-> "canceled", id |-> o])
        BY <1>2, <1>5, <2>3 DEF EngineCancel, Emit
      <3>2. Names([kind |-> "canceled", id |-> o]) = {o}  BY DEF Names
      <3>3. \A p : Touched(p)' => Touched(p)  BY <1>0, <2>2, <2>3, <3>1, <3>2, TouchEmit DEF BookLogged
      <3>4. PlacedOnce'  BY <1>0, <1>2, <2>1, <3>3, PlacedFetch
      <3> QED BY <2>1, <2>2, <2>3, <3>1, <3>4, FlowCancel
    <2>4. CASE ~(live[o] > 0)
      <3>1. UNCHANGED <<live, log>>  BY <1>2, <1>5, <2>4 DEF EngineCancel
      <3>2. PlacedOnce'  BY <1>0, <1>2, <2>1, <3>1, TouchKept, PlacedFetch
      <3> QED BY <2>1, <3>1, <3>2, FlowFrame
    <2> QED BY <2>3, <2>4
  <1> QED BY <1>1, <1>3, <1>4, <1>5

LEMMA FillFlow ==
  ASSUME Inv, FlowInv, NEW m \in Orders, EngineFill(m)
  PROVE  FlowInv'
  <1>0. /\ log \in Seq(Event) /\ live \in [Orders -> Nat] /\ PlacedOnce /\ BookLogged /\ NeverOverfilled
    BY DEF Inv, SettlementTypeOK, FlowInv
  <1>1. PICK o : o = busy.id  OBVIOUS
  <1>2. o \in Orders /\ busy # None /\ live[o] > 0  BY <1>1 DEF Inv, SettlementTypeOK, EngineFill
  <1>3. m # o /\ live[m] > 0 /\ Crosses(o, m)  BY <1>1 DEF EngineFill, BestMakers, Makers
  <1>4. PICK q : q = IF live[o] < live[m] THEN live[o] ELSE live[m]  OBVIOUS
  <1>5. q \in Nat /\ q <= live[o] /\ q <= live[m]  BY <1>0, <1>2, <1>4
  <1>6. PICK e : e = [kind |-> "fill", taker |-> o, maker |-> m, price |-> Ord[m].price, qty |-> q]  OBVIOUS
  <1>7. /\ live' = [live EXCEPT ![o] = @ - q, ![m] = @ - q] /\ log' = Append(log, e)
        /\ UNCHANGED <<trades, rows, busy, queue, pc>>
    BY <1>1, <1>4, <1>6 DEF EngineFill, Emit
  <1>8. /\ e \in Event /\ e.kind = "fill" /\ e.taker = o /\ e.maker = m /\ e.qty = q /\ e.price = Ord[m].price
        /\ Names(e) = {o, m}
    BY <1>2, <1>5, <1>6, OrderType DEF Event, Names
  <1>9. \A p : Touched(p)' <=> Touched(p)
    BY <1>0, <1>1, <1>2, <1>3, <1>7, <1>8, TouchEmit DEF BookLogged
  <1>10. PlacedOnce'  BY <1>0, <1>7, <1>9, PlacedKeptQueue
  <1>11. \A p \in Orders : live'[p] = live[p] - (IF p \in {o, m} THEN q ELSE 0)
    BY <1>0, <1>2, <1>3, <1>5, <1>7
  <1>12. \A p \in Orders : live'[p] > 0 => Touched(p)'
    BY <1>0, <1>5, <1>9, <1>11 DEF BookLogged
  <1>13. \A p \in Orders : Logged(p) + (IF e.kind = "fill" /\ p \in {e.taker, e.maker} THEN e.qty ELSE 0) + live'[p] <= Ord[p].qty
    <2>1. \A p \in Orders : Logged(p) \in Nat /\ Ord[p].qty \in Nat  BY LogSumsHold, OrderType DEF LogSums
    <2>2. \A p \in Orders : Logged(p) + live[p] <= Ord[p].qty  BY <1>0 DEF NeverOverfilled
    <2> QED BY <1>0, <1>5, <1>8, <1>11, <2>1, <2>2
  <1>14. (busy # None => Touched(busy.id))'  BY <1>0, <1>7, <1>9 DEF BookLogged
  <1> QED BY <1>3, <1>7, <1>8, <1>10, <1>12, <1>13, <1>14, FlowEmit

LEMMA AnswerFlow ==
  ASSUME Inv, FlowInv, EngineAnswer
  PROVE  FlowInv'
  <1>0. /\ log \in Seq(Event) /\ live \in [Orders -> Nat] /\ PlacedOnce /\ BookLogged
    BY DEF Inv, SettlementTypeOK, FlowInv
  <1>1. PICK o : o = busy.id  OBVIOUS
  <1>2. o \in Orders /\ busy # None  BY <1>1 DEF Inv, SettlementTypeOK, EngineAnswer
  <1>3. UNCHANGED <<trades, rows, queue, pc>> /\ busy' = None  BY DEF EngineAnswer
  <1>4. CASE Ord[o].type = "ioc" /\ live[o] > 0
    <2>1. live' = [live EXCEPT ![o] = 0] /\ log' = Append(log, [kind |-> "canceled", id |-> o])
      BY <1>1, <1>4 DEF EngineAnswer, Emit
    <2>2. Names([kind |-> "canceled", id |-> o]) = {o}  BY DEF Names
    <2>3. \A p : Touched(p)' => Touched(p)  BY <1>0, <1>2, <1>4, <2>1, <2>2, TouchEmit DEF BookLogged
    <2>4. PlacedOnce'  BY <1>0, <1>3, <2>3, PlacedKeptQueue
    <2> QED BY <1>2, <1>3, <1>4, <2>1, <2>4, FlowCancel
  <1>5. CASE ~(Ord[o].type = "ioc" /\ live[o] > 0)
    <2>1. UNCHANGED <<live, log>>  BY <1>1, <1>5 DEF EngineAnswer
    <2>2. \A p : Touched(p)' <=> Touched(p) BY <2>1, TouchKept
    <2>3. PlacedOnce'  BY <1>0, <1>3, <2>2, PlacedKeptQueue
    <2>4. \A p : Logged(p)' = Logged(p) /\ TradesOf(p)' = TradesOf(p) /\ Traded(p)' = Traded(p)
      BY <1>3, <2>1, LoggedKept, TradedKept
    <2>5. BookLogged' /\ NeverOverfilled'
      BY <1>3, <2>1, <2>2, <2>4 DEF FlowInv, BookLogged, NeverOverfilled
    <2>6. FillSound' /\ RowsCount'
      BY <1>3, <2>1, <2>4 DEF FlowInv, FillSound, Crosses, RowsCount
    <2> QED BY <2>3, <2>5, <2>6 DEF FlowInv
  <1> QED BY <1>4, <1>5

LEMMA BridgeFlow ==
  ASSUME Inv, FlowInv, ConnectionBreaks \/ PersistEvent \/ Disconnect \/ Reconnect
  PROVE  FlowInv'
  <1>1. UNCHANGED <<log, trades, live, busy, rows>>
    BY DEF ConnectionBreaks, PersistEvent, Disconnect, Reconnect
  <1>2. queue' = queue \/ queue' = [queue EXCEPT !["api"] = <<>>]
    BY DEF ConnectionBreaks, PersistEvent, Disconnect, Reconnect
  <1>3. \A o \in Orders : pc'[o] \in Early => pc[o] \in Early
    <2>1. CASE ConnectionBreaks  BY <2>1 DEF ConnectionBreaks, Early
    <2>2. CASE PersistEvent \/ Disconnect \/ Reconnect  BY <2>2 DEF PersistEvent, Disconnect, Reconnect
    <2> QED BY <2>1, <2>2
  <1>4. PlacedOnce'  BY <1>1, <1>2, <1>3, TouchKept, PlacedKeptQueue DEF FlowInv
  <1> QED BY <1>1, <1>4, FlowFrame

LEMMA UpdateOrderFillAdds ==
  ASSUME NEW r \in [Orders -> Row \cup {None}], NEW o \in Orders, NEW q \in Nat, r[o] # None
  PROVE  \A p \in Orders : /\ p # o => UpdateOrderFill(r, o, q)[p] = r[p]
                           /\ UpdateOrderFill(r, o, q)[o].filled = r[o].filled + q
                           /\ UpdateOrderFill(r, o, q)[o] # None
  <1>1. PICK w : w = [filled |-> r[o].filled + q,
                      status |-> IF r[o].filled + q >= Ord[o].qty THEN "filled" ELSE "partial"]
    OBVIOUS
  <1>2. r[o] \in Row /\ r[o].filled + q \in Nat  BY DEF Row
  <1>3. w \in Row /\ w.filled = r[o].filled + q  BY <1>1, <1>2 DEF Row, Status
  <1>4. UpdateOrderFill(r, o, q) = [r EXCEPT ![o] = w]  BY <1>1 DEF UpdateOrderFill
  <1>5. w # None  BY <1>3, SettlementAssumption
  <1> QED BY <1>3, <1>4, <1>5

(* A trade is added. *)
LEMMA TradeAdded ==
  ASSUME Inv, NEW s \in DOMAIN log, s \notin trades, log[s].kind = "fill",
         log' = log, trades' = trades \cup {s}, NEW o
  PROVE  IF o \in {log[s].taker, log[s].maker}
         THEN TradesOf(o)' = TradesOf(o) \cup {s} /\ Traded(o)' = Traded(o) + log[s].qty
         ELSE TradesOf(o)' = TradesOf(o) /\ Traded(o)' = Traded(o)
  <1>1. PICK f, T : f = Qty /\ T = TradesOf(o)  OBVIOUS
  <1>2. /\ IsFiniteSet(T) /\ T \subseteq DOMAIN log /\ s \notin T /\ \A t \in DOMAIN log : f[t] \in Nat
    BY <1>1, LogSumsHold DEF LogSums
  <1>3. Qty' = f /\ f[s] = log[s].qty  BY <1>1 DEF Qty
  <1>4. CASE o \in {log[s].taker, log[s].maker}
    <2>1. TradesOf(o)' = T \cup {s}  BY <1>1, <1>4 DEF TradesOf
    <2>2. \A t \in T \cup {s} : f[t] \in Int  BY <1>2
    <2>3. SumFunctionOnSet(f, T \cup {s}) = SumFunctionOnSet(f, T) + f[s]  BY <1>2, <2>2, SumAdd
    <2>4. Traded(o)' = SumFunctionOnSet(f, T \cup {s})  BY <1>3, <2>1 DEF Traded
    <2>5. Traded(o) = SumFunctionOnSet(f, T)  BY <1>1 DEF Traded
    <2> QED BY <1>1, <1>3, <1>4, <2>1, <2>3, <2>4, <2>5
  <1>5. CASE o \notin {log[s].taker, log[s].maker}
    <2>1. TradesOf(o)' = T  BY <1>1, <1>5 DEF TradesOf
    <2> QED BY <1>1, <1>3, <1>5, <2>1 DEF Traded
  <1> QED BY <1>4, <1>5

LEMMA WorkerFlow ==
  ASSUME Inv, FlowInv, NEW s \in stored, ProcessNext(s) \/ ProcessFails(s)
  PROVE  FlowInv'
  <1>0. /\ log \in Seq(Event) /\ stored \subseteq DOMAIN log /\ trades \subseteq processed
        /\ rows \in [Orders -> Row \cup {None}] /\ PlacedOnce /\ RowsCount /\ FillSound
    BY DEF Inv, SettlementTypeOK, FlowInv
  <1>1. UNCHANGED <<log, queue, pc, live, busy>>  BY DEF ProcessNext, ProcessFails
  <1>2. PlacedOnce'  BY <1>0, <1>1, TouchKept, PlacedKeptQueue
  <1>3. CASE ProcessFails(s)  BY <1>1, <1>2, <1>3, FlowFrame DEF ProcessFails
  <1>4. CASE ProcessNext(s)
    <2>0. s \in DOMAIN log /\ log[s] \in Event /\ s \notin trades  BY <1>0, <1>4 DEF ProcessNext, IsNext, Unprocessed
    <2>1. PICK e : e = log[s]  OBVIOUS
    <2>2. CASE e.kind = "canceled"
      <3>1. e.id \in Orders /\ rows[e.id] \in Row /\ trades' = trades
        BY <1>0, <1>4, <2>0, <2>1, <2>2 DEF Event, ProcessNext, Settleable, Needed
      <3>2. PICK w : w = [rows[e.id] EXCEPT !.status = "canceled"]  OBVIOUS
      <3>3. w \in Row /\ w.filled = rows[e.id].filled  BY <3>1, <3>2 DEF Row, Status
      <3>4. rows' = rows \/ rows' = [rows EXCEPT ![e.id] = w]
        BY <1>4, <2>1, <2>2, <3>2 DEF ProcessNext, NewRows, CanceledRows
      <3>5. w # None /\ rows[e.id] # None  BY <3>1, <3>3, SettlementAssumption
      <3>6. \A o \in Orders : \/ rows'[o] = rows[o]
                              \/ rows[o] # None /\ rows'[o] # None /\ rows'[o].filled = rows[o].filled
        BY <1>0, <3>1, <3>3, <3>4, <3>5
      <3> QED BY <1>1, <1>2, <3>1, <3>6, FlowFrame
    <2>3. CASE e.kind = "accepted"
      <3>1. e.id \in Orders /\ trades' = trades
        BY <1>4, <2>0, <2>1, <2>3 DEF Event, ProcessNext
      <3>2. PICK w : w = [status |-> "new", filled |-> 0]  OBVIOUS
      <3>3. w \in Row /\ w.filled = 0 /\ w # None  BY <3>2, SettlementAssumption DEF Row, Status
      <3>4. rows' = rows \/ (rows[e.id] = None /\ rows' = [rows EXCEPT ![e.id] = w])
        BY <1>4, <2>1, <2>3, <3>2 DEF ProcessNext, NewRows, AcceptedRows
      <3>5. \A o : TradesOf(o)' = TradesOf(o) /\ Traded(o)' = Traded(o)  BY <1>1, <3>1, TradedKept
      <3>6. RowsCount'
        <4>1. CASE rows' = rows  BY <1>0, <3>5, <4>1 DEF RowsCount
        <4>2. CASE rows[e.id] = None /\ rows' = [rows EXCEPT ![e.id] = w]
          <5>1. TradesOf(e.id) = {} /\ Traded(e.id) = 0  BY <1>0, <3>1, <4>2, SumEmpty DEF RowsCount, Traded
          <5>2. \A o \in Orders : rows'[o] = IF o = e.id THEN w ELSE rows[o]  BY <1>0, <4>2
          <5> QED BY <1>0, <3>3, <3>5, <5>1, <5>2 DEF RowsCount
        <4> QED BY <3>4, <4>1, <4>2
      <3>7. \A o : (Touched(o)' <=> Touched(o)) /\ Logged(o)' = Logged(o)  BY <1>1, TouchKept, LoggedKept
      <3>8. BookLogged' /\ NeverOverfilled'  BY <1>1, <3>7 DEF FlowInv, BookLogged, NeverOverfilled
      <3>9. FillSound'  BY <1>0, <1>1, <3>1 DEF FillSound, Crosses
      <3> QED BY <1>2, <3>6, <3>8, <3>9 DEF FlowInv
    <2>4. CASE e.kind = "fill"
      <3>1. e.taker \in Orders /\ e.maker \in Orders /\ e.qty \in Nat  BY <2>0, <2>1, <2>4, FillParts
      <3>2. e.taker # e.maker  BY <1>0, <2>0, <2>1, <2>4 DEF FillSound
      <3>3. rows[e.taker] # None /\ rows[e.maker] # None
        BY <1>4, <2>1, <2>4 DEF ProcessNext, Settleable, Needed
      <3>4. PICK r : r = UpdateOrderFill(rows, e.taker, e.qty)  OBVIOUS
      <3>5. /\ r \in [Orders -> Row \cup {None}] /\ r[e.maker] = rows[e.maker]
            /\ r[e.taker].filled = rows[e.taker].filled + e.qty /\ r[e.taker] # None
            /\ \A o \in Orders : o # e.taker => r[o] = rows[o]
        BY <1>0, <3>1, <3>2, <3>3, <3>4, UpdateOrderFillType, UpdateOrderFillAdds
      <3>6. trades' = trades \cup {s} /\ rows' = UpdateOrderFill(r, e.maker, e.qty)
        BY <1>4, <2>0, <2>1, <2>4, <3>4 DEF ProcessNext, NewRows, FillRows
      <3>7. /\ rows'[e.maker].filled = rows[e.maker].filled + e.qty /\ rows'[e.maker] # None
            /\ \A o \in Orders : o # e.maker => rows'[o] = r[o]
        BY <3>1, <3>3, <3>5, <3>6, UpdateOrderFillAdds
      <3>8. ASSUME NEW o \in Orders
            PROVE  /\ TradesOf(o)' # {} => rows'[o] # None
                   /\ rows'[o] # None => rows'[o].filled = Traded(o)'
        <4>1. CASE o \in {e.taker, e.maker}
          <5>1. rows[o] # None /\ rows[o].filled = Traded(o)  BY <1>0, <3>3, <4>1 DEF RowsCount
          <5>2. rows'[o] # None /\ rows'[o].filled = rows[o].filled + e.qty
            BY <3>1, <3>2, <3>5, <3>7, <4>1
          <5>3. Traded(o)' = Traded(o) + e.qty  BY <1>1, <2>0, <2>1, <2>4, <3>6, <4>1, TradeAdded
          <5> QED BY <5>1, <5>2, <5>3
        <4>2. CASE o \notin {e.taker, e.maker}
          <5>1. rows'[o] = rows[o]  BY <3>5, <3>7, <4>2
          <5>2. TradesOf(o)' = TradesOf(o) /\ Traded(o)' = Traded(o)
            BY <1>1, <2>0, <2>1, <2>4, <3>6, <4>2, TradeAdded
          <5> QED BY <1>0, <5>1, <5>2 DEF RowsCount
        <4> QED BY <4>1, <4>2
      <3>9. RowsCount'  BY <3>8 DEF RowsCount
      <3>10. \A o : (Touched(o)' <=> Touched(o)) /\ Logged(o)' = Logged(o)  BY <1>1, TouchKept, LoggedKept
      <3>11. BookLogged' /\ NeverOverfilled'  BY <1>1, <3>10 DEF FlowInv, BookLogged, NeverOverfilled
      <3>12. FillSound'  BY <1>0, <1>1, <2>1, <2>4, <3>6 DEF FillSound, Crosses
      <3> QED BY <1>2, <3>9, <3>11, <3>12 DEF FlowInv
    <2>5. e.kind \in {"fill", "canceled", "accepted"}  BY <2>0, <2>1 DEF Event
    <2> QED BY <2>2, <2>3, <2>4, <2>5
  <1> QED BY <1>3, <1>4

LEMMA InitFlow == Init => FlowInv
  <1> SUFFICES ASSUME Init PROVE FlowInv  OBVIOUS
  <1>1. /\ log = <<>> /\ \A c \in Conn : queue[c] = <<>>
        /\ trades = {} /\ busy = None /\ \A o \in Orders : live[o] = 0 /\ rows[o] = None
    BY DEF Init
  <1>2. \A o : ~Touched(o) /\ ~Asked(o)  BY <1>1 DEF Touched, Asked
  <1>3. \A c \in Conn : \A n, o : ~AsksAt(c, n, o)  BY <1>1 DEF AsksAt
  <1>4. PlacedOnce /\ BookLogged /\ FillSound
    BY <1>1, <1>2, <1>3 DEF PlacedOnce, NotYetSent, AskedIsNew, AskedOnce, BookLogged, FillSound
  <1>5. \A o : Logged(o) = 0  BY <1>2, <1>4, InitInv, UntouchedSums
  <1>6. NeverOverfilled
    <2>1. \A o \in Orders : Ord[o].qty \in Nat  BY OrderType
    <2> QED BY <1>1, <1>5, <2>1 DEF NeverOverfilled
  <1>7. RowsCount  BY <1>1 DEF RowsCount, TradesOf
  <1> QED BY <1>4, <1>6, <1>7 DEF FlowInv

LEMMA NextFlow == Inv /\ FlowInv /\ [Next]_vars => FlowInv'
  <1> SUFFICES ASSUME Inv, FlowInv, [Next]_vars PROVE FlowInv'  OBVIOUS
  <1>1. CASE \E o \in Orders : \/ PlaceOrder(o) \/ PlaceDirect(o) \/ CancelOrder(o) \/ ApiStep(o)
                               \/ GiveUp(o) \/ CancelGivesUp(o)
    BY <1>1, ApiFlow
  <1>2. CASE EngineStep  BY <1>2, EngineFlow, FillFlow, AnswerFlow DEF EngineStep
  <1>3. CASE ConnectionBreaks \/ PersistEvent \/ Disconnect \/ Reconnect  BY <1>3, BridgeFlow
  <1>4. CASE Worker  BY <1>4, WorkerFlow DEF Worker
  <1>5. CASE UNCHANGED vars
    <2>1. UNCHANGED <<log, queue, pc, trades, live, busy, rows>>  BY <1>5 DEF vars
    <2>2. PlacedOnce'  BY <2>1, TouchKept, PlacedKeptQueue DEF FlowInv
    <2> QED BY <2>1, <2>2, FlowFrame
  <1> QED BY <1>1, <1>2, <1>3, <1>4, <1>5 DEF Next

LEMMA FlowFills ==
  ASSUME Inv, FlowInv
  PROVE  FilledMatchesTrades
  <1>1. ASSUME NEW o \in Orders
        PROVE  Traded(o) = SumFunction([s \in TradesOf(o) |-> log[s].qty]) /\ Traded(o) <= Ord[o].qty
    <2>1. PICK f, h, T : f = Qty /\ T = TradesOf(o) /\ h = [s \in T |-> log[s].qty]  OBVIOUS
    <2>2. IsFiniteSet(T) /\ T \subseteq DOMAIN log /\ T \subseteq trades  BY <2>1, LogSumsHold DEF LogSums
    <2>3. \A s \in T : f[s] = h[s]  BY <2>1, <2>2 DEF FlowInv, FillSound, Qty
    <2>4. SumFunctionOnSet(f, T) = SumFunctionOnSet(h, T)  BY <2>2, <2>3, SumSame
    <2>5. DOMAIN h = T  BY <2>1
    <2>6. SumFunction(h) = SumFunctionOnSet(h, T)  BY <2>5 DEF SumFunction
    <2>7. Traded(o) = SumFunction(h)  BY <2>1, <2>4, <2>6 DEF Traded
    <2>8. Traded(o) <= Logged(o) /\ Logged(o) + live[o] <= Ord[o].qty
      BY TradedBound DEF FlowInv, NeverOverfilled
    <2>9. Traded(o) \in Nat /\ Logged(o) \in Nat /\ live[o] \in Nat /\ Ord[o].qty \in Nat
      BY LogSumsHold, OrderType DEF LogSums, Inv, SettlementTypeOK
    <2> QED BY <2>1, <2>7, <2>8, <2>9
  <1> QED BY <1>1 DEF FlowInv, RowsCount, FilledMatchesTrades

-----------------------------------------------------------------------------
(* Cancels. *)

CanceledAt(s, o) == log[s].kind = "canceled" /\ log[s].id = o

(* A cancel is the last event of an order. *)
CancelsLast ==
  \A o \in Orders : \A t \in DOMAIN log : CanceledAt(t, o) =>
    live[o] = 0 /\ \A s \in DOMAIN log : o \in Names(log[s]) => s <= t

LEMMA CancelNames ==
  ASSUME NEW t \in DOMAIN log, NEW o, CanceledAt(t, o)
  PROVE  Touched(o)
  BY DEF CanceledAt, Touched, Names

LEMMA CancelKept ==
  ASSUME CancelsLast, log' = log, \A o \in Orders : live[o] = 0 => live'[o] = 0
  PROVE  CancelsLast'
  BY DEF CancelsLast, CanceledAt, Names

LEMMA CancelEmit ==
  ASSUME Inv, CancelsLast, NEW e \in Event, log' = Append(log, e),
         \A o \in Orders : o \in Names(e) => \A t \in DOMAIN log : ~CanceledAt(t, o),
         \A o \in Orders : o \notin Names(e) /\ live[o] = 0 => live'[o] = 0,
         e.kind = "canceled" => live'[e.id] = 0
  PROVE  CancelsLast'
  <1>1. log \in Seq(Event)  BY DEF Inv, SettlementTypeOK
  <1>2. /\ DOMAIN log' = 1..(Len(log) + 1) /\ Len(log) \in Nat /\ DOMAIN log = 1..Len(log)
        /\ log'[Len(log) + 1] = e /\ \A s \in 1..Len(log) : log'[s] = log[s]
    BY <1>1, Appended
  <1>3. ASSUME NEW o \in Orders, NEW t \in DOMAIN log', CanceledAt(t, o)'
        PROVE  live'[o] = 0 /\ \A s \in DOMAIN log' : o \in Names(log'[s]) => s <= t
    <2>1. CASE t = Len(log) + 1
      <3>1. e.kind = "canceled" /\ e.id = o  BY <1>2, <1>3, <2>1 DEF CanceledAt
      <3>2. \A s \in DOMAIN log' : s <= t  BY <1>2, <2>1
      <3> QED BY <3>1, <3>2
    <2>2. CASE t \in DOMAIN log
      <3>1. CanceledAt(t, o)  BY <1>2, <1>3, <2>2 DEF CanceledAt
      <3>2. o \notin Names(e)  BY <2>2, <3>1
      <3>3. live[o] = 0 /\ \A s \in DOMAIN log : o \in Names(log[s]) => s <= t
        BY <2>2, <3>1 DEF CancelsLast
      <3>4. ASSUME NEW s \in DOMAIN log', o \in Names(log'[s]) PROVE s <= t
        <4>1. s # Len(log) + 1  BY <1>2, <3>2, <3>4
        <4>2. s \in DOMAIN log /\ log'[s] = log[s]  BY <1>2, <4>1
        <4> QED BY <3>3, <3>4, <4>2
      <3> QED BY <3>2, <3>3, <3>4
    <2>3. t = Len(log) + 1 \/ t \in DOMAIN log  BY <1>2
    <2> QED BY <2>1, <2>2, <2>3
  <1>4. \A o \in Orders : \A t \in DOMAIN log' : CanceledAt(t, o)' =>
          live'[o] = 0 /\ \A s \in DOMAIN log' : o \in Names(log'[s]) => s <= t
    BY <1>3
  <1> QED BY <1>4 DEF CancelsLast, Names

LEMMA LiveNotCanceled ==
  ASSUME Inv, CancelsLast, NEW o \in Orders, live[o] > 0
  PROVE  \A t \in DOMAIN log : ~CanceledAt(t, o)
  BY DEF Inv, SettlementTypeOK, CancelsLast

LEMMA NextCancels ==
  ASSUME Inv, FlowInv, CancelsLast, [Next]_vars
  PROVE  CancelsLast'
  <1>0. log \in Seq(Event) /\ live \in [Orders -> Nat]  BY DEF Inv, SettlementTypeOK
  <1>1. ASSUME UNCHANGED <<log, live>> PROVE CancelsLast'  BY <1>1, CancelKept
  <1>2. CASE \E o \in Orders : \/ PlaceOrder(o) \/ PlaceDirect(o) \/ CancelOrder(o) \/ ApiStep(o)
                               \/ GiveUp(o) \/ CancelGivesUp(o)
    <2>1. UNCHANGED <<log, live>>
      BY <1>2 DEF PlaceOrder, PlaceDirect, CancelOrder, ApiStep, GiveUp, CancelGivesUp, TryLockBalance,
                  InsertPending, Send, UnlockBalance, Rejected, Acked, CancelAnswered
    <2> QED BY <1>1, <2>1
  <1>3. CASE ConnectionBreaks \/ PersistEvent \/ Disconnect \/ Reconnect \/ Worker
    <2>1. UNCHANGED <<log, live>>
      BY <1>3 DEF ConnectionBreaks, PersistEvent, Disconnect, Reconnect, Worker, ProcessNext, ProcessFails
    <2> QED BY <1>1, <2>1
  <1>4. ASSUME NEW o \in Orders, live[o] > 0, live' = [live EXCEPT ![o] = 0],
               log' = Append(log, [kind |-> "canceled", id |-> o])
        PROVE  CancelsLast'
    <2>1. PICK e : e = [kind |-> "canceled", id |-> o]  OBVIOUS
    <2>2. e \in Event /\ Names(e) = {o} /\ e.id = o  BY <2>1 DEF Event, Names
    <2>3. \A t \in DOMAIN log : ~CanceledAt(t, o)  BY <1>4, LiveNotCanceled
    <2>4. live'[o] = 0 /\ \A p \in Orders : live[p] = 0 => live'[p] = 0  BY <1>0, <1>4
    <2> QED BY <1>4, <2>1, <2>2, <2>3, <2>4, CancelEmit
  <1>5. ASSUME NEW c \in Conn, EngineReject(c) \/ EngineAccept(c) \/ EngineCancel(c) \/ Broadcast(c)
        PROVE  CancelsLast'
    <2>1. CASE EngineReject(c) \/ Broadcast(c)  BY <1>1, <2>1 DEF EngineReject, Broadcast
    <2>2. PICK o : o = Head(queue[c]).id  OBVIOUS
    <2>3. CASE EngineAccept(c)
      <3>1. Fetches(c, "place") /\ live' = [live EXCEPT ![o] = Ord[o].qty] /\ pc' = pc
        BY <2>2, <2>3 DEF EngineAccept
      <3>2. PICK e : e = [kind |-> "accepted", id |-> o]  OBVIOUS
      <3>3. log' = Append(log, e)  BY <2>2, <2>3, <3>2 DEF EngineAccept, Emit
      <3>4. o \in Orders  BY <2>2, <3>1, Fetched DEF Inv
      <3>5. e \in Event /\ e.kind # "canceled" /\ Names(e) = {o}  BY <3>2, <3>4 DEF Event, Names
      <3>6. \A p : Touched(p)' <=> Touched(p) \/ p = o  BY <1>0, <3>3, <3>5, TouchEmit
      <3>7. ~Touched(o)  BY <2>2, <3>1, <3>6, PlacedFetch DEF FlowInv
      <3>8. \A t \in DOMAIN log : ~CanceledAt(t, o)  BY <3>7, CancelNames
      <3>9. \A p \in Orders : p # o => live'[p] = live[p]  BY <1>0, <3>1
      <3> QED BY <3>3, <3>5, <3>8, <3>9, CancelEmit
    <2>4. CASE EngineCancel(c)
      <3>1. o \in Orders  BY <2>2, <2>4, Fetched DEF Inv, EngineCancel
      <3>2. CASE live[o] > 0
        <4>1. live' = [live EXCEPT ![o] = 0] /\ log' = Append(log, [kind |-> "canceled", id |-> o])
          BY <2>2, <2>4, <3>2 DEF EngineCancel, Emit
        <4> QED BY <1>4, <3>1, <3>2, <4>1
      <3>3. CASE ~(live[o] > 0)  BY <1>1, <2>2, <2>4, <3>3 DEF EngineCancel
      <3> QED BY <3>2, <3>3
    <2> QED BY <1>5, <2>1, <2>3, <2>4
  <1>6. ASSUME NEW m \in Orders, EngineFill(m) PROVE CancelsLast'
    <2>1. PICK o : o = busy.id  OBVIOUS
    <2>2. o \in Orders /\ live[o] > 0  BY <1>6, <2>1 DEF Inv, SettlementTypeOK, EngineFill
    <2>3. m # o /\ live[m] > 0  BY <1>6, <2>1 DEF EngineFill, BestMakers, Makers
    <2>4. PICK q : q = IF live[o] < live[m] THEN live[o] ELSE live[m]  OBVIOUS
    <2>5. q \in Nat  BY <1>0, <2>2, <2>4
    <2>6. PICK e : e = [kind |-> "fill", taker |-> o, maker |-> m, price |-> Ord[m].price, qty |-> q]  OBVIOUS
    <2>7. live' = [live EXCEPT ![o] = @ - q, ![m] = @ - q] /\ log' = Append(log, e)
      BY <1>6, <2>1, <2>4, <2>6 DEF EngineFill, Emit
    <2>8. e \in Event /\ e.kind # "canceled" /\ Names(e) = {o, m}
      BY <2>2, <2>5, <2>6, OrderType DEF Event, Names
    <2>9. \A t \in DOMAIN log : ~CanceledAt(t, o) /\ ~CanceledAt(t, m)  BY <2>2, <2>3, LiveNotCanceled
    <2>10. \A p \in Orders : p \notin {o, m} => live'[p] = live[p]  BY <1>0, <2>7
    <2> QED BY <2>7, <2>8, <2>9, <2>10, CancelEmit
  <1>7. CASE EngineAnswer
    <2>1. PICK o : o = busy.id  OBVIOUS
    <2>2. o \in Orders  BY <1>7, <2>1 DEF Inv, SettlementTypeOK, EngineAnswer
    <2>3. CASE Ord[o].type = "ioc" /\ live[o] > 0
      <3>1. live' = [live EXCEPT ![o] = 0] /\ log' = Append(log, [kind |-> "canceled", id |-> o])
        BY <1>7, <2>1, <2>3 DEF EngineAnswer, Emit
      <3> QED BY <1>4, <2>2, <2>3, <3>1
    <2>4. CASE ~(Ord[o].type = "ioc" /\ live[o] > 0)  BY <1>1, <1>7, <2>1, <2>4 DEF EngineAnswer
    <2> QED BY <2>3, <2>4
  <1>8. CASE EngineStep  BY <1>5, <1>6, <1>7, <1>8 DEF EngineStep
  <1>9. CASE UNCHANGED vars  BY <1>1, <1>9 DEF vars
  <1> QED BY <1>2, <1>3, <1>8, <1>9 DEF Next

-----------------------------------------------------------------------------
(* As long as nothing fails: events stay in order. *)

(* Every event passes from the log through the bridge to the worker in the *)
(* order of the log: p events are settled and k are in the table.          *)
InOrderAt(p, k) ==
  /\ p <= k /\ processed = 1..p /\ stored = 1..k
  /\ k + Len(channel) + Len(bundle["api"]) = Len(log)
  /\ \A i \in DOMAIN channel : channel[i] = k + i
  /\ \A i \in DOMAIN bundle["api"] : bundle["api"][i] = k + Len(channel) + i

OnlyApi ==
  /\ queue["direct"] = <<>> /\ bundle["direct"] = <<>>
  /\ busy # None => busy.conn = "api"

InOrder == link /\ OnlyApi /\ \E p, k \in 0..Len(log) : InOrderAt(p, k)

(* Nothing that fails is undone, so a calm state has calm predecessors. *)
LEMMA CalmBefore ==
  ASSUME Inv, failures \in Nat, [Next]_vars
  PROVE  /\ failures' \in Nat
         /\ Calm' => /\ Calm /\ ~ConnectionBreaks /\ ~Disconnect
                     /\ \A o \in Orders : ~GiveUp(o) /\ ~CancelGivesUp(o) /\ ~PlaceDirect(o)
  <1>0. pc \in [Orders -> {"none", "checked", "locked", "inserted", "sent", "unlocking", "leaked", "done"}]
    BY DEF Inv, SettlementTypeOK
  <1>1. \/ failures' = failures
           /\ ~ConnectionBreaks /\ ~Disconnect /\ \A o \in Orders : ~GiveUp(o) /\ ~CancelGivesUp(o)
        \/ failures' = failures + 1
    <2>1. CASE Failure  BY <2>1 DEF Failure
    <2>2. CASE ~Failure
      <3>1. ~ConnectionBreaks /\ ~Disconnect /\ \A o \in Orders : ~GiveUp(o) /\ ~CancelGivesUp(o)
        BY <2>2 DEF ConnectionBreaks, Disconnect, GiveUp, CancelGivesUp
      <3>2. EngineStep => failures' = failures
        BY DEF EngineStep, EngineReject, EngineAccept, EngineCancel, Broadcast, EngineFill, EngineAnswer
      <3>3. \A o \in Orders : PlaceOrder(o) \/ PlaceDirect(o) \/ CancelOrder(o) \/ ApiStep(o) => failures' = failures
        BY DEF PlaceOrder, PlaceDirect, CancelOrder, ApiStep, TryLockBalance,
               InsertPending, Send, UnlockBalance, Rejected, Acked, CancelAnswered
      <3>4. PersistEvent \/ Reconnect \/ Worker => failures' = failures
        BY DEF PersistEvent, Reconnect, Worker, ProcessNext, ProcessFails
      <3>5. UNCHANGED vars => failures' = failures  BY DEF vars
      <3>6. failures' = failures  BY <3>1, <3>2, <3>3, <3>4, <3>5 DEF Next
      <3> QED BY <3>1, <3>6
    <2> QED BY <2>1, <2>2
  <1>2. \A o \in Orders : pc'[o] = "none" => pc[o] = "none"
    <2>1. CASE EngineStep
      BY <2>1 DEF EngineStep, EngineReject, EngineAccept, EngineCancel, Broadcast, EngineFill, EngineAnswer
    <2>2. ASSUME NEW o \in Orders, PlaceOrder(o) \/ PlaceDirect(o) \/ CancelOrder(o) \/ ApiStep(o) \/ GiveUp(o) \/ CancelGivesUp(o)
          PROVE  \A p \in Orders : pc'[p] = "none" => pc[p] = "none"
      BY <1>0, <2>2 DEF PlaceOrder, PlaceDirect, CancelOrder, ApiStep, GiveUp, CancelGivesUp, TryLockBalance,
                        InsertPending, Send, UnlockBalance, Rejected, Acked, CancelAnswered
    <2>3. CASE ConnectionBreaks  BY <2>3 DEF ConnectionBreaks
    <2>4. CASE PersistEvent \/ Disconnect \/ Reconnect \/ Worker
      BY <2>4 DEF PersistEvent, Disconnect, Reconnect, Worker, ProcessNext, ProcessFails
    <2>5. CASE UNCHANGED vars  BY <2>5 DEF vars
    <2> QED BY <2>1, <2>2, <2>3, <2>4, <2>5 DEF Next
  <1>a. ASSUME NEW p \in Orders, pc[p] \in {"locked", "leaked"}, Ord[p].price < 0
        PROVE  pc'[p] \in {"locked", "leaked"}
    <2>0. ~(Ord[p].price > 0)  BY <1>a, OrderType
    <2>1. CASE EngineStep
      BY <1>a, <2>1 DEF EngineStep, EngineReject, EngineAccept, EngineCancel, Broadcast, EngineFill, EngineAnswer
    <2>2. ASSUME NEW o \in Orders, PlaceOrder(o) \/ PlaceDirect(o) \/ CancelOrder(o) \/ ApiStep(o) \/ GiveUp(o) \/ CancelGivesUp(o)
          PROVE  pc'[p] \in {"locked", "leaked"}
      BY <1>0, <1>a, <2>0, <2>2 DEF PlaceOrder, PlaceDirect, CancelOrder, ApiStep, GiveUp, CancelGivesUp,
           TryLockBalance, InsertPending, Send, UnlockBalance, Rejected, Acked, CancelAnswered
    <2>3. CASE ConnectionBreaks
      <3>1. pc'[p] = pc[p]  BY <1>a, <2>3 DEF ConnectionBreaks
      <3> QED BY <1>a, <3>1
    <2>4. CASE PersistEvent \/ Disconnect \/ Reconnect \/ Worker
      BY <1>a, <2>4 DEF PersistEvent, Disconnect, Reconnect, Worker, ProcessNext, ProcessFails
    <2>5. CASE UNCHANGED vars  BY <1>a, <2>5 DEF vars
    <2> QED BY <2>1, <2>2, <2>3, <2>4, <2>5 DEF Next
  <1>b. Loosening \subseteq Loosening'  BY <1>a DEF Loosening
  <1>3. Calm' => /\ failures' = 0 /\ Loosening' = {}
                 /\ \A o \in Orders : pc'[o] # "none" => Ord[o].via = "api"
    BY DEF Calm, Started
  <1>4. Calm' => Calm  BY <1>1, <1>2, <1>3, <1>b DEF Calm, Started
  <1>5. ASSUME Calm', NEW o \in Orders, PlaceDirect(o) PROVE FALSE
    <2>1. pc'[o] = "done" /\ Ord[o].via = "direct"  BY <1>0, <1>5 DEF PlaceDirect
    <2> QED BY <1>3, <1>5, <2>1
  <1> QED BY <1>1, <1>3, <1>4, <1>5

LEMMA BundleType ==
  ASSUME Inv
  PROVE  /\ "api" \in Conn /\ "direct" \in Conn /\ log \in Seq(Event)
         /\ channel \in Seq(DOMAIN log) /\ bundle["api"] \in Seq(DOMAIN log)
         /\ Len(log) \in Nat /\ Len(channel) \in Nat /\ Len(bundle["api"]) \in Nat
         /\ DOMAIN channel = 1..Len(channel) /\ DOMAIN bundle["api"] = 1..Len(bundle["api"])
  <1>1. /\ "api" \in Conn /\ "direct" \in Conn /\ log \in Seq(Event) /\ channel \in Seq(DOMAIN log)
        /\ bundle["api"] \in Seq(DOMAIN log)
    BY DEF Inv, SettlementTypeOK, Conn
  <1> QED BY <1>1

(* The connection that is served is the API's. *)
LEMMA ServedIsApi ==
  ASSUME OnlyApi, NEW c \in Conn, queue[c] # <<>> \/ bundle[c] # <<>>
  PROVE  c = "api"
  BY DEF OnlyApi, Conn

LEMMA OrderEmit ==
  ASSUME Inv, InOrder, NEW e, Emit("api", e), link' = link,
         queue["direct"] = queue'["direct"], busy' # None => busy'.conn = "api",
         UNCHANGED <<channel, stored, processed>>
  PROVE  InOrder'
  <1>1. PICK p, k \in 0..Len(log) : InOrderAt(p, k)  BY DEF InOrder
  <1>2. PICK b : b = bundle["api"]  OBVIOUS
  <1>3. /\ log' = Append(log, e) /\ bundle'["api"] = Append(b, Len(log) + 1)
        /\ bundle'["direct"] = bundle["direct"]
    BY <1>2, BundleType DEF Emit, Inv, SettlementTypeOK
  <1>4. Len(log') = Len(log) + 1  BY <1>3, BundleType, Appended
  <1>5. /\ b \in Seq(DOMAIN log) /\ Len(b) \in Nat /\ DOMAIN b = 1..Len(b)
        /\ Len(bundle'["api"]) = Len(b) + 1 /\ DOMAIN bundle'["api"] = 1..(Len(b) + 1)
        /\ bundle'["api"][Len(b) + 1] = Len(log) + 1 /\ \A i \in 1..Len(b) : bundle'["api"][i] = b[i]
    <2>1. b \in Seq(DOMAIN log)  BY <1>2, BundleType
    <2>2. PICK d : d = Append(b, Len(log) + 1)  OBVIOUS
    <2>3. /\ Len(b) \in Nat /\ DOMAIN b = 1..Len(b)
          /\ Len(d) = Len(b) + 1 /\ DOMAIN d = 1..(Len(b) + 1)
          /\ d[Len(b) + 1] = Len(log) + 1 /\ \A i \in 1..Len(b) : d[i] = b[i]
      BY <2>1, <2>2, Appended
    <2> QED BY <1>3, <2>1, <2>2, <2>3
  <1>6. /\ k + Len(channel) + Len(b) = Len(log) /\ Len(channel) \in Nat /\ Len(log) \in Nat /\ k \in Nat
        /\ \A i \in 1..Len(b) : b[i] = k + Len(channel) + i
    <2>1. Len(log) \in Nat /\ Len(channel) \in Nat  BY BundleType
    <2>2. k \in Nat  BY <2>1
    <2> QED BY <1>1, <1>2, <1>5, <2>1, <2>2 DEF InOrderAt
  <1>7. \A i \in DOMAIN bundle'["api"] : bundle'["api"][i] = k + Len(channel) + i
    <2>1. \A i \in 1..(Len(b) + 1) : i \in 1..Len(b) \/ i = Len(b) + 1  BY <1>5
    <2>2. Len(b) \in Nat  BY <1>5
    <2>3. Len(log) + 1 = k + Len(channel) + (Len(b) + 1)  BY <1>6, <2>2
    <2> QED BY <1>5, <1>6, <2>1, <2>3
  <1>8. k + Len(channel') + Len(bundle'["api"]) = Len(log')  BY <1>4, <1>5, <1>6
  <1>9. InOrderAt(p, k)'  BY <1>1, <1>7, <1>8 DEF InOrderAt
  <1>10. p \in 0..Len(log') /\ k \in 0..Len(log')  BY <1>4, <1>6
  <1>11. OnlyApi'  BY <1>3 DEF InOrder, OnlyApi
  <1> QED BY <1>9, <1>10, <1>11 DEF InOrder

LEMMA OrderKept ==
  ASSUME Inv, InOrder, queue'["direct"] = queue["direct"], busy' # None => busy'.conn = "api",
         UNCHANGED <<log, bundle, channel, stored, processed, link>>
  PROVE  InOrder'
  <1>1. PICK p, k \in 0..Len(log) : InOrderAt(p, k)  BY DEF InOrder
  <1>2. InOrderAt(p, k)'  BY <1>1 DEF InOrderAt
  <1> QED BY <1>1, <1>2 DEF InOrder, OnlyApi

LEMMA OrderBroadcast ==
  ASSUME Inv, InOrder, NEW c \in Conn, Broadcast(c)
  PROVE  InOrder'
  <1>1. c = "api"  BY ServedIsApi DEF InOrder, Broadcast
  <1>2. PICK p, k \in 0..Len(log) : InOrderAt(p, k)  BY DEF InOrder
  <1>3. PICK b : b = bundle["api"]  OBVIOUS
  <1>4. /\ channel' = channel \o b /\ bundle'["api"] = <<>> /\ bundle'["direct"] = bundle["direct"]
        /\ UNCHANGED <<queue, busy, log, link, stored, processed>>
    BY <1>1, <1>3, BundleType DEF InOrder, Broadcast, Inv, SettlementTypeOK
  <1>5. /\ channel \in Seq(DOMAIN log) /\ b \in Seq(DOMAIN log) /\ Len(channel) \in Nat /\ Len(b) \in Nat
        /\ DOMAIN channel = 1..Len(channel) /\ DOMAIN b = 1..Len(b) /\ Len(log) \in Nat
    BY <1>3, BundleType
  <1>6. /\ Len(channel') = Len(channel) + Len(b) /\ DOMAIN channel' = 1..(Len(channel) + Len(b))
        /\ \A i \in 1..(Len(channel) + Len(b)) : channel'[i] = IF i <= Len(channel) THEN channel[i] ELSE b[i - Len(channel)]
    BY <1>4, <1>5
  <1>7. /\ k + Len(channel) + Len(b) = Len(log) /\ k \in Nat
        /\ \A i \in 1..Len(channel) : channel[i] = k + i
        /\ \A i \in 1..Len(b) : b[i] = k + Len(channel) + i
    <2>1. k \in Nat  BY <1>5
    <2> QED BY <1>2, <1>3, <1>5, <2>1 DEF InOrderAt
  <1>8. ASSUME NEW i \in DOMAIN channel' PROVE channel'[i] = k + i
    <2>1. CASE i <= Len(channel)  BY <1>5, <1>6, <1>7, <2>1
    <2>2. CASE ~(i <= Len(channel))
      <3>1. i - Len(channel) \in 1..Len(b) /\ channel'[i] = b[i - Len(channel)] /\ i \in Int  BY <1>5, <1>6, <2>2
      <3>2. b[i - Len(channel)] = k + Len(channel) + (i - Len(channel))  BY <1>7, <3>1
      <3> QED BY <1>5, <1>7, <3>1, <3>2
    <2> QED BY <2>1, <2>2
  <1>9. k + Len(channel') + Len(bundle'["api"]) = Len(log')  BY <1>4, <1>5, <1>6, <1>7
  <1>10. InOrderAt(p, k)'
    <2>1. \A i \in DOMAIN bundle'["api"] : FALSE  BY <1>4
    <2> QED BY <1>2, <1>4, <1>8, <1>9, <2>1 DEF InOrderAt
  <1> QED BY <1>2, <1>4, <1>10 DEF InOrder, OnlyApi

LEMMA OrderPersist ==
  ASSUME Inv, InOrder, PersistEvent
  PROVE  InOrder'
  <1>1. PICK p, k \in 0..Len(log) : InOrderAt(p, k)  BY DEF InOrder
  <1>2. /\ channel \in Seq(DOMAIN log) /\ channel # <<>> /\ channel' = Tail(channel)
        /\ stored' = stored \cup {Head(channel)}
        /\ UNCHANGED <<queue, busy, log, bundle, link, processed>>
    BY BundleType DEF PersistEvent
  <1>3. /\ Len(channel) \in Nat /\ Len(channel) >= 1 /\ DOMAIN channel = 1..Len(channel)
        /\ Head(channel) = channel[1] /\ Len(channel') = Len(channel) - 1
        /\ DOMAIN channel' = 1..(Len(channel) - 1)
        /\ \A i \in 1..(Len(channel) - 1) : channel'[i] = channel[i + 1]
    BY <1>2
  <1>4. /\ k + Len(channel) + Len(bundle["api"]) = Len(log) /\ k \in Nat /\ p \in Nat /\ p <= k
        /\ stored = 1..k /\ Len(bundle["api"]) \in Nat /\ Len(log) \in Nat
        /\ \A i \in 1..Len(channel) : channel[i] = k + i
        /\ \A i \in DOMAIN bundle["api"] : bundle["api"][i] = k + Len(channel) + i /\ i \in Nat
    <2>1. Len(log) \in Nat /\ Len(bundle["api"]) \in Nat /\ DOMAIN bundle["api"] = 1..Len(bundle["api"])
      BY BundleType
    <2>2. k \in Nat /\ p \in Nat  BY <2>1
    <2>3. \A i \in DOMAIN bundle["api"] : i \in Nat  BY <2>1
    <2> QED BY <1>1, <1>3, <2>1, <2>2, <2>3 DEF InOrderAt
  <1>5. Head(channel) = k + 1  BY <1>3, <1>4
  <1>6. stored' = 1..(k + 1) /\ p <= k + 1  BY <1>2, <1>4, <1>5
  <1>7. ASSUME NEW i \in DOMAIN channel' PROVE channel'[i] = (k + 1) + i
    <2>1. i \in Nat /\ i + 1 \in 1..Len(channel) /\ channel'[i] = channel[i + 1]  BY <1>3
    <2>2. channel[i + 1] = k + (i + 1)  BY <1>4, <2>1
    <2> QED BY <1>4, <2>1, <2>2
  <1>8. \A i \in DOMAIN bundle["api"] : bundle["api"][i] = (k + 1) + Len(channel') + i  BY <1>3, <1>4
  <1>9. (k + 1) + Len(channel') + Len(bundle["api"]) = Len(log)  BY <1>3, <1>4
  <1>10. InOrderAt(p, k + 1)'  BY <1>1, <1>2, <1>6, <1>7, <1>8, <1>9 DEF InOrderAt
  <1>11. k + 1 \in 0..Len(log) BY <1>3, <1>4
  <1> QED BY <1>1, <1>2, <1>10, <1>11 DEF InOrder, OnlyApi

LEMMA OrderProcess ==
  ASSUME Inv, InOrder, NEW s \in stored, IsNext(s)
  PROVE  /\ processed = 1..(s - 1) /\ s \in Nat /\ s >= 1
         /\ ProcessNext(s) => InOrder'
  <1>1. PICK p, k \in 0..Len(log) : InOrderAt(p, k)  BY DEF InOrder
  <1>2. p \in Nat /\ k \in Nat /\ p <= k /\ processed = 1..p /\ stored = 1..k /\ Len(log) \in Nat
    <2>1. Len(log) \in Nat  BY BundleType
    <2>2. k \in Nat /\ p \in Nat  BY <2>1
    <2> QED BY <1>1, <2>1, <2>2 DEF InOrderAt
  <1>3. s \in 1..k /\ s \notin 1..p /\ \A t \in 1..k : t \notin 1..p => s <= t
    BY <1>2 DEF IsNext, Unprocessed
  <1>4. p < s  BY <1>2, <1>3
  <1>5. p + 1 \in 1..k /\ p + 1 \notin 1..p  BY <1>2, <1>3, <1>4
  <1>6. s = p + 1  BY <1>2, <1>3, <1>4, <1>5
  <1>7. ASSUME ProcessNext(s) PROVE InOrder'
    <2>1. processed' = processed \cup {s} /\ UNCHANGED <<queue, busy, log, bundle, link, channel, stored>>
      BY <1>7 DEF ProcessNext
    <2>2. processed' = 1..(p + 1) /\ p + 1 <= k /\ p + 1 \in 0..Len(log)  BY <1>2, <1>3, <1>6, <2>1
    <2>3. InOrderAt(p + 1, k)'  BY <1>1, <2>1, <2>2 DEF InOrderAt
    <2> QED BY <1>1, <2>1, <2>2, <2>3 DEF InOrder, OnlyApi
  <1> QED BY <1>2, <1>3, <1>6, <1>7

(* What may happen while nothing fails. *)
CalmStep ==
  /\ [Next]_vars /\ ~ConnectionBreaks /\ ~Disconnect
  /\ \A o \in Orders : ~GiveUp(o) /\ ~CancelGivesUp(o) /\ ~PlaceDirect(o)
  /\ \A s \in stored : ~ProcessFails(s)

LEMMA NextOrder ==
  ASSUME Inv, InOrder, CalmStep
  PROVE  InOrder'
  <1>0. /\ OnlyApi /\ queue \in [Conn -> Seq(Message)] /\ "api" \in Conn /\ "direct" \in Conn
        /\ busy # None => busy.conn = "api"
    BY BundleType DEF Inv, SettlementTypeOK, InOrder, OnlyApi
  <1>1. CASE \E o \in Orders : PlaceOrder(o) \/ CancelOrder(o) \/ ApiStep(o)
    <2>1. PICK o \in Orders : PlaceOrder(o) \/ CancelOrder(o) \/ ApiStep(o)  BY <1>1
    <2>2. queue'["direct"] = queue["direct"]
      BY <1>0, <2>1 DEF PlaceOrder, CancelOrder, ApiStep, TryLockBalance, InsertPending, Send, UnlockBalance,
                        Rejected, Acked, CancelAnswered
    <2>3. UNCHANGED <<log, bundle, channel, stored, processed, link, busy>>
      BY <2>1 DEF PlaceOrder, CancelOrder, ApiStep, TryLockBalance, InsertPending, Send, UnlockBalance,
                  Rejected, Acked, CancelAnswered
    <2> QED BY <1>0, <2>2, <2>3, OrderKept
  <1>2. ASSUME NEW c \in Conn, EngineReject(c) \/ EngineAccept(c) \/ EngineCancel(c)
        PROVE  InOrder'
    <2>1. queue[c] # <<>> /\ queue' = [queue EXCEPT ![c] = Tail(@)]
      BY <1>2 DEF EngineReject, EngineAccept, EngineCancel, Fetches
    <2>2. c = "api"  BY <1>0, <2>1, ServedIsApi
    <2>3. queue'["direct"] = queue["direct"]  BY <1>0, <2>1, <2>2
    <2>4. UNCHANGED <<channel, stored, processed, link>>
      BY <1>2 DEF EngineReject, EngineAccept, EngineCancel
    <2>5. busy' # None => busy'.conn = "api"
      BY <1>0, <1>2, <2>2 DEF EngineReject, EngineAccept, EngineCancel
    <2>6. UNCHANGED <<log, bundle>> \/ \E e : Emit("api", e)
      <3>1. EngineReject(c) => UNCHANGED <<log, bundle>>  BY DEF EngineReject
      <3>2. EngineAccept(c) => Emit(c, [kind |-> "accepted", id |-> Head(queue[c]).id])  BY DEF EngineAccept
      <3>3. EngineCancel(c) => \/ UNCHANGED <<log, bundle>>
                               \/ Emit(c, [kind |-> "canceled", id |-> Head(queue[c]).id])
        BY DEF EngineCancel
      <3> QED BY <1>2, <2>2, <3>1, <3>2, <3>3
    <2> QED BY <2>3, <2>4, <2>5, <2>6, OrderKept, OrderEmit
  <1>3. CASE (\E m \in Orders : EngineFill(m)) \/ EngineAnswer
    <2>1. busy # None /\ busy.conn = "api" /\ UNCHANGED <<queue, channel, stored, processed, link>>
      BY <1>0, <1>3 DEF EngineFill, EngineAnswer
    <2>2. busy' = busy \/ busy' = None  BY <1>3 DEF EngineFill, EngineAnswer
    <2>3. UNCHANGED <<log, bundle>> \/ \E e : Emit(busy.conn, e)
      <3>1. \A m \in Orders : EngineFill(m) => \E e : Emit(busy.conn, e)  BY DEF EngineFill
      <3>2. EngineAnswer => \/ UNCHANGED <<log, bundle>>
                            \/ Emit(busy.conn, [kind |-> "canceled", id |-> busy.id])
        BY DEF EngineAnswer
      <3> QED BY <1>3, <3>1, <3>2
    <2> QED BY <2>1, <2>2, <2>3, OrderKept, OrderEmit
  <1>4. CASE \E c \in Conn : Broadcast(c)  BY <1>4, OrderBroadcast
  <1>5. CASE PersistEvent  BY <1>5, OrderPersist
  <1>6. CASE Reconnect  BY <1>6 DEF Reconnect, InOrder
  <1>7. CASE \E s \in stored : ProcessNext(s)  BY <1>7, OrderProcess DEF ProcessNext
  <1>8. CASE UNCHANGED vars
    <2>1. UNCHANGED <<queue, busy, log, bundle, channel, stored, processed, link>>
      BY <1>8 DEF vars, engine, bridge
    <2> QED BY <1>0, <2>1, OrderKept
  <1> QED BY <1>1, <1>2, <1>3, <1>4, <1>5, <1>6, <1>7, <1>8 DEF CalmStep, Next, EngineStep, Worker

-----------------------------------------------------------------------------
(* As long as nothing fails: handler, request, reply and row agree. *)

AgreeOn(o) ==
  /\ pc[o] \in Early => answer[o] = None
  /\ Asked(o) => pc[o] = "sent" /\ answer[o] = None
  /\ Asked(o) \/ Touched(o) => rows[o] # None /\ pc[o] \in {"sent", "done"}
  /\ busy # None /\ busy.id = o => pc[o] = "sent" /\ answer[o] = None
  /\ answer[o] = "rejected" => ~Asked(o) /\ ~Touched(o)
  /\ answer[o] \notin {None, "rejected"} => Touched(o)
  /\ pc[o] = "unlocking" => answer[o] = "rejected"

Agree == \A o \in Orders : AgreeOn(o)

LEMMA AgreeKept ==
  ASSUME NEW o \in Orders, AgreeOn(o), pc'[o] = pc[o], answer'[o] = answer[o],
         rows[o] # None => rows'[o] # None,
         Asked(o)' => Asked(o), Touched(o)' <=> Touched(o),
         busy' = busy \/ (busy' # None => busy'.id # o)
  PROVE  AgreeOn(o)'
  BY DEF AgreeOn

(* An order the engine has not been asked for: its handler may go on. *)
LEMMA AgreeEarly ==
  ASSUME NEW o \in Orders, AgreeOn(o), NotYetSent, pc[o] \in Early, answer'[o] = answer[o],
         pc'[o] \notin {"unlocking"}, UNCHANGED busy,
         Asked(o)' => Asked(o), Touched(o)' <=> Touched(o)
  PROVE  AgreeOn(o)'
  <1>1. ~Asked(o) /\ ~Touched(o)  BY DEF NotYetSent
  <1>2. answer[o] = None  BY DEF AgreeOn
  <1>3. ~(busy # None /\ busy.id = o)  BY DEF AgreeOn, Early
  <1>4. "rejected" # None  BY SettlementAssumption
  <1> QED BY <1>1, <1>2, <1>3, <1>4 DEF AgreeOn

LEMMA AskKept ==
  ASSUME queue' = queue, NEW o
  PROVE  Asked(o)' <=> Asked(o)
  BY DEF Asked, AsksAt

LEMMA AgreeApi ==
  ASSUME Inv, FlowInv, Agree, NEW o \in Orders, PlaceOrder(o) \/ CancelOrder(o) \/ ApiStep(o)
  PROVE  Agree'
  <1>0. /\ pc \in [Orders -> {"none", "checked", "locked", "inserted", "sent", "unlocking", "leaked", "done"}]
        /\ rows \in [Orders -> Row \cup {None}] /\ queue \in [Conn -> Seq(Message)] /\ "api" \in Conn
        /\ answer \in [Orders -> Status \cup {"rejected", None}]
        /\ NotYetSent /\ AskedIsNew
    BY BundleType DEF Inv, SettlementTypeOK, FlowInv, PlacedOnce
  <1>1. UNCHANGED <<log, busy, answer>>
    BY DEF PlaceOrder, CancelOrder, ApiStep, TryLockBalance, InsertPending, Send, UnlockBalance,
           Rejected, Acked, CancelAnswered
  <1>2. \A p : Touched(p)' <=> Touched(p)  BY <1>1, TouchKept
  <1>3. \A p \in Orders : p # o => pc'[p] = pc[p]
    BY <1>0 DEF PlaceOrder, CancelOrder, ApiStep, TryLockBalance, InsertPending, Send, UnlockBalance,
           Rejected, Acked, CancelAnswered
  <1>4. \A p \in Orders : rows[p] # None => rows'[p] # None
    <2>1. Inv'  BY PlaceInv, RowsInv, LockInv DEF ApiStep
    <2>2. \A p \in Orders : p # o => rows'[p] = rows[p]
      BY <1>0 DEF PlaceOrder, CancelOrder, ApiStep, TryLockBalance, InsertPending, Send, UnlockBalance,
             Rejected, Acked, CancelAnswered, SetStatus
    <2>3. CASE ~(InsertPending(o) \/ Acked(o) \/ CancelAnswered(o))
      BY <2>3 DEF PlaceOrder, CancelOrder, ApiStep, TryLockBalance, Send, UnlockBalance, Rejected
    <2>4. CASE InsertPending(o)
      <3>1. pc'[o] = "inserted" \/ rows' = rows  BY <1>0, <2>4 DEF InsertPending
      <3>2. pc'[o] = "inserted" => rows'[o] # None  BY <2>1 DEF Inv, RowKept
      <3> QED BY <2>2, <3>1, <3>2
    <2>5. CASE Acked(o) \/ CancelAnswered(o)
      <3>1. cancel' \in [Orders -> {"none", "sent", "acked", "rejected", "done"}]  BY <2>1 DEF Inv, SettlementTypeOK
      <3>2. rows[o] \in Row  BY <1>0, <2>5 DEF Inv, RowKept, Acked, CancelAnswered
      <3>3. \A s : [rows[o] EXCEPT !.status = s] = [status |-> s, filled |-> rows[o].filled]
        BY <3>2 DEF Row
      <3>4. answer[o] \in Status \/ CancelAnswered(o)  BY <1>0, <2>5 DEF Acked
      <3>5. "canceled" \in Status  BY DEF Status
      <3>6. rows'[o] = rows[o] \/ \E s \in Status : rows'[o] = [status |-> s, filled |-> rows[o].filled]
        BY <1>0, <2>5, <3>3, <3>4, <3>5 DEF Acked, CancelAnswered, SetStatus
      <3>7. \A s \in Status : [status |-> s, filled |-> rows[o].filled] \in Row  BY <3>2 DEF Row
      <3> QED BY <2>2, <3>2, <3>6, <3>7, SettlementAssumption
    <2> QED BY <2>3, <2>4, <2>5
  <1>5. \A p \in Orders : p # o => (Asked(p)' => Asked(p))
    <2>1. CASE queue' = queue  BY <2>1, AskKept
    <2>2. CASE queue' # queue
      <3>1. PICK m : queue' = [queue EXCEPT !["api"] = Append(@, m)] /\ m.id = o
        <4>1. Send(o) \/ CancelOrder(o)
          BY <2>2 DEF PlaceOrder, ApiStep, TryLockBalance, InsertPending, UnlockBalance, Rejected, Acked, CancelAnswered
        <4> QED BY <4>1 DEF Send, CancelOrder
      <3> QED BY <1>0, <3>1, AskSend DEF Asked, AsksAt
    <2> QED BY <2>1, <2>2
  <1>6. \A p \in Orders : p # o => AgreeOn(p)'  BY <1>1, <1>2, <1>3, <1>4, <1>5, AgreeKept DEF Agree
  <1>7. AgreeOn(o)  BY DEF Agree
  <1>8. AgreeOn(o)'
    <2>1. CASE PlaceOrder(o) \/ TryLockBalance(o) \/ InsertPending(o)
      <3>1. pc[o] \in Early /\ pc'[o] # "unlocking" /\ queue' = queue
        BY <1>0, <2>1 DEF PlaceOrder, TryLockBalance, InsertPending, Early
      <3> QED BY <1>0, <1>1, <1>2, <1>7, <3>1, AskKept, AgreeEarly
    <2>2. CASE CancelOrder(o)
      <3>1. PICK m : m = [kind |-> "cancel", id |-> o]  OBVIOUS
      <3>2. m.kind # "place" /\ queue' = [queue EXCEPT !["api"] = Append(@, m)] /\ pc' = pc
        BY <2>2, <3>1 DEF CancelOrder
      <3>3. Asked(o)' => Asked(o)  BY <1>0, <3>2, AskSend DEF Asked, AsksAt
      <3> QED BY <1>1, <1>2, <1>4, <1>7, <3>2, <3>3, AgreeKept
    <2>3. CASE Send(o)
      <3>1. pc[o] = "inserted" /\ pc'[o] = "sent"  BY <1>0, <2>3 DEF Send
      <3>2. ~Touched(o) /\ answer[o] = None /\ rows[o] # None
        BY <1>0, <1>7, <3>1 DEF NotYetSent, AgreeOn, Early, Inv, RowKept
      <3>3. "rejected" # None  BY SettlementAssumption
      <3> QED BY <1>1, <1>2, <1>4, <3>1, <3>2, <3>3 DEF AgreeOn, Early
    <2>4. CASE Rejected(o)
      <3>1. answer[o] = "rejected" /\ pc'[o] = "unlocking" /\ queue' = queue  BY <1>0, <2>4 DEF Rejected
      <3>2. "rejected" # None  BY SettlementAssumption
      <3> QED BY <1>1, <1>2, <1>7, <3>1, <3>2, AskKept DEF AgreeOn, Early
    <2>5. CASE UnlockBalance(o)
      <3>1. pc[o] = "unlocking" /\ pc'[o] = "done" /\ queue' = queue  BY <1>0, <2>5 DEF UnlockBalance
      <3> QED BY <1>1, <1>2, <1>7, <3>1, AskKept DEF AgreeOn, Early
    <2>6. CASE Acked(o)
      <3>1. pc[o] = "sent" /\ answer[o] \notin {None, "rejected"} /\ pc'[o] = "done" /\ queue' = queue
        BY <1>0, <2>6 DEF Acked
      <3> QED BY <1>1, <1>2, <1>4, <1>7, <3>1, AskKept DEF AgreeOn, Early
    <2>7. CASE CancelAnswered(o)
      <3>1. pc' = pc /\ queue' = queue  BY <2>7 DEF CancelAnswered
      <3> QED BY <1>1, <1>2, <1>4, <1>7, <3>1, AskKept, AgreeKept
    <2> QED BY <2>1, <2>2, <2>3, <2>4, <2>5, <2>6, <2>7 DEF ApiStep
  <1> QED BY <1>6, <1>8 DEF Agree

LEMMA AgreeFrame ==
  ASSUME Inv, Agree, UNCHANGED <<pc, answer, busy, queue>>,
         \A o \in Orders : Touched(o)' <=> Touched(o),
         \A o \in Orders : rows[o] # None => rows'[o] # None
  PROVE  Agree'
  BY AskKept, AgreeKept DEF Agree

LEMMA AgreeEngine ==
  ASSUME Inv, FlowInv, Agree, NEW c \in Conn, EngineReject(c) \/ EngineAccept(c) \/ EngineCancel(c)
  PROVE  Agree'
  <1>0. /\ queue \in [Conn -> Seq(Message)] /\ log \in Seq(Event) /\ answer \in [Orders -> Status \cup {"rejected", None}]
        /\ PlacedOnce /\ BookLogged
    BY DEF Inv, SettlementTypeOK, FlowInv
  <1>1. PICK o : o = Head(queue[c]).id  OBVIOUS
  <1>2. PICK kind : /\ Fetches(c, kind) /\ kind \in {"place", "cancel"}
                    /\ kind = "cancel" <=> EngineCancel(c)
    BY DEF EngineReject, EngineAccept, EngineCancel, Fetches
  <1>3. o \in Orders  BY <1>1, <1>2, Fetched DEF Inv
  <1>4. UNCHANGED <<pc, rows>>  BY DEF EngineReject, EngineAccept, EngineCancel
  <1>5. \A p : Asked(p)' => Asked(p)
    <2>1. queue[c] # <<>> /\ queue' = [queue EXCEPT ![c] = Tail(@)]  BY <1>2 DEF Fetches
    <2> QED BY <1>0, <2>1, AskFetch DEF Asked, AsksAt
  <1>6. AgreeOn(o)  BY <1>3 DEF Agree
  <1>7. "rejected" # None  BY SettlementAssumption
  <1>8. CASE EngineReject(c)
    <2>1. log' = log /\ busy' = busy /\ answer' = [answer EXCEPT ![o] = "rejected"] /\ Fetches(c, "place")
      BY <1>1, <1>8 DEF EngineReject, Reply
    <2>2. \A p : Touched(p)' <=> Touched(p)  BY <2>1, TouchKept
    <2>3. Asked(o) /\ ~Touched(o) /\ ~Asked(o)'  BY <1>0, <1>1, <1>4, <2>1, <2>2, PlacedFetch
    <2>4. pc[o] = "sent" /\ answer[o] = None /\ ~(busy # None /\ busy.id = o)
      BY <1>0, <1>6, <2>1, <2>3 DEF AgreeOn, Fetches
    <2>5. answer'[o] = "rejected" /\ \A p \in Orders : p # o => answer'[p] = answer[p]  BY <1>0, <1>3, <2>1
    <2>6. AgreeOn(o)'  BY <1>4, <1>6, <1>7, <2>1, <2>2, <2>3, <2>4, <2>5 DEF AgreeOn, Early
    <2>7. \A p \in Orders : p # o => AgreeOn(p)'  BY <1>4, <1>5, <2>1, <2>2, <2>5, AgreeKept DEF Agree
    <2> QED BY <2>6, <2>7 DEF Agree
  <1>9. CASE EngineAccept(c)
    <2>1. answer' = answer /\ Fetches(c, "place") /\ busy' = [id |-> o, conn |-> c]
      BY <1>1, <1>9 DEF EngineAccept
    <2>2. PICK e : e = [kind |-> "accepted", id |-> o]  OBVIOUS
    <2>3. log' = Append(log, e) /\ Names(e) = {o}  BY <1>1, <1>9, <2>2 DEF EngineAccept, Emit, Names
    <2>4. \A p : Touched(p)' <=> Touched(p) \/ p = o  BY <1>0, <2>3, TouchEmit
    <2>5. Asked(o) /\ ~Touched(o) /\ ~Asked(o)'  BY <1>0, <1>1, <1>4, <2>1, <2>4, PlacedFetch
    <2>6. AgreeOn(o)'  BY <1>4, <1>6, <1>7, <2>1, <2>4, <2>5 DEF AgreeOn, Early
    <2>7. busy' # None => busy'.id = o  BY <2>1
    <2>8. \A p \in Orders : p # o => AgreeOn(p)'  BY <1>4, <1>5, <2>1, <2>4, <2>7, AgreeKept DEF Agree
    <2> QED BY <2>6, <2>8 DEF Agree
  <1>10. CASE EngineCancel(c)
    <2>1. UNCHANGED <<answer, busy>>  BY <1>10 DEF EngineCancel
    <2>2. \A p \in Orders : Touched(p)' <=> Touched(p)
      <3>1. CASE live[o] > 0
        <4>1. PICK e : e = [kind |-> "canceled", id |-> o]  OBVIOUS
        <4>2. log' = Append(log, e) /\ Names(e) = {o}
          BY <1>1, <1>10, <3>1, <4>1 DEF EngineCancel, Emit, Names
        <4>3. Touched(o)  BY <1>0, <1>3, <3>1 DEF BookLogged
        <4> QED BY <1>0, <4>2, <4>3, TouchEmit
      <3>2. CASE ~(live[o] > 0)  BY <1>1, <1>10, <3>2, TouchKept DEF EngineCancel
      <3> QED BY <3>1, <3>2
    <2>3. \A p \in Orders : AgreeOn(p)'  BY <1>4, <1>5, <2>1, <2>2, AgreeKept DEF Agree
    <2> QED BY <2>3 DEF Agree
  <1> QED BY <1>8, <1>9, <1>10

LEMMA AgreeMatch ==
  ASSUME Inv, FlowInv, Agree, (\E m \in Orders : EngineFill(m)) \/ EngineAnswer
  PROVE  Agree'
  <1>0. /\ queue \in [Conn -> Seq(Message)] /\ log \in Seq(Event) /\ live \in [Orders -> Nat]
        /\ answer \in [Orders -> Status \cup {"rejected", None}] /\ AskedIsNew /\ BookLogged
    BY DEF Inv, SettlementTypeOK, FlowInv, PlacedOnce
  <1>1. PICK o : o = busy.id  OBVIOUS
  <1>2. busy # None /\ o \in Orders /\ Touched(o)
    BY <1>0, <1>1 DEF EngineFill, EngineAnswer, BookLogged, Inv, SettlementTypeOK
  <1>3. UNCHANGED <<pc, rows, queue>>  BY DEF EngineFill, EngineAnswer
  <1>4. \A p : Asked(p)' <=> Asked(p)  BY <1>3, AskKept
  <1>5. AgreeOn(o)  BY <1>2 DEF Agree
  <1>6. \A p \in Orders : Touched(p)' <=> Touched(p)
    <2>1. CASE log' = log  BY <2>1, TouchKept
    <2>2. ASSUME NEW m \in Orders, EngineFill(m) PROVE \A p \in Orders : Touched(p)' <=> Touched(p)
      <3>1. live[m] > 0  BY <2>2 DEF EngineFill, BestMakers, Makers
      <3>2. PICK q : q = IF live[o] < live[m] THEN live[o] ELSE live[m]  OBVIOUS
      <3>3. PICK e : e = [kind |-> "fill", taker |-> o, maker |-> m, price |-> Ord[m].price, qty |-> q]  OBVIOUS
      <3>4. log' = Append(log, e) /\ Names(e) = {o, m}
        BY <1>1, <2>2, <3>2, <3>3 DEF EngineFill, Emit, Names
      <3>5. Touched(m)  BY <1>0, <3>1 DEF BookLogged
      <3> QED BY <1>0, <1>2, <3>4, <3>5, TouchEmit
    <2>3. CASE EngineAnswer /\ log' # log
      <3>1. PICK e : e = [kind |-> "canceled", id |-> o]  OBVIOUS
      <3>2. log' = Append(log, e) /\ Names(e) = {o}
        BY <1>1, <2>3, <3>1 DEF EngineAnswer, Emit, Names
      <3> QED BY <1>0, <1>2, <3>2, TouchEmit
    <2> QED BY <2>1, <2>2, <2>3
  <1>7. CASE \E m \in Orders : EngineFill(m)
    <2>1. UNCHANGED <<answer, busy>>  BY <1>7 DEF EngineFill
    <2> QED BY <1>3, <1>6, <2>1, AgreeFrame
  <1>8. CASE EngineAnswer
    <2>1. busy' = None /\ \E s \in Status : answer' = [answer EXCEPT ![o] = s]
      <3>1. {"canceled", "filled", "partial", "new"} \subseteq Status  BY DEF Status
      <3>2. CASE Ord[o].type = "ioc" /\ live[o] > 0  BY <1>1, <1>8, <3>1, <3>2 DEF EngineAnswer, Reply
      <3>3. CASE ~(Ord[o].type = "ioc" /\ live[o] > 0)
        BY <1>1, <1>8, <3>1, <3>3 DEF EngineAnswer, Reply
      <3> QED BY <3>2, <3>3
    <2>2. PICK s \in Status : answer' = [answer EXCEPT ![o] = s]  BY <2>1
    <2>3. s \notin {None, "rejected"}  BY SettlementAssumption DEF Status
    <2>4. answer'[o] = s /\ \A p \in Orders : p # o => answer'[p] = answer[p]  BY <1>0, <1>2, <2>2
    <2>5. pc[o] = "sent" /\ rows[o] # None /\ ~Asked(o)
      BY <1>0, <1>1, <1>2, <1>5 DEF AgreeOn, AskedIsNew
    <2>6. AgreeOn(o)'  BY <1>2, <1>3, <1>4, <1>6, <2>1, <2>3, <2>4, <2>5 DEF AgreeOn, Early
    <2>7. \A p \in Orders : p # o => AgreeOn(p)'  BY <1>3, <1>4, <1>6, <2>1, <2>4, AgreeKept DEF Agree
    <2> QED BY <2>6, <2>7 DEF Agree
  <1> QED BY <1>7, <1>8

LEMMA NextAgree ==
  ASSUME Inv, FlowInv, Agree, CalmStep
  PROVE  Agree'
  <1>1. CASE \E o \in Orders : PlaceOrder(o) \/ CancelOrder(o) \/ ApiStep(o)  BY <1>1, AgreeApi
  <1>2. CASE \E c \in Conn : EngineReject(c) \/ EngineAccept(c) \/ EngineCancel(c)  BY <1>2, AgreeEngine
  <1>3. CASE (\E m \in Orders : EngineFill(m)) \/ EngineAnswer  BY <1>3, AgreeMatch
  <1>4. CASE (\E c \in Conn : Broadcast(c)) \/ PersistEvent \/ Reconnect \/ UNCHANGED vars
    <2>1. UNCHANGED <<pc, answer, busy, queue, log, rows>>
      BY <1>4 DEF Broadcast, PersistEvent, Reconnect, vars, db, api, engine
    <2> QED BY <2>1, TouchKept, AgreeFrame
  <1>5. ASSUME NEW s \in stored, ProcessNext(s) PROVE Agree'
    <2>1. UNCHANGED <<pc, answer, busy, queue, log>> /\ Settleable(s) /\ rows' = NewRows(s)
      BY <1>5 DEF ProcessNext
    <2>2. \A p \in Orders : rows[p] # None => rows'[p] # None  BY <2>1, NewRowsType
    <2> QED BY <2>1, <2>2, TouchKept, AgreeFrame
  <1> QED BY <1>1, <1>2, <1>3, <1>4, <1>5 DEF CalmStep, Next, EngineStep, Worker

-----------------------------------------------------------------------------
(* The prices of what is in the tables. *)

(* The table and the engine take positive prices only. *)
Priced ==
  /\ \A o \in Orders : rows[o] # None \/ pc[o] = "unlocking" => Ord[o].price > 0
  /\ \A s \in DOMAIN log : log[s].kind = "accepted" => Ord[log[s].id].price > 0

LEMMA PricedFrame ==
  ASSUME Inv, Priced, log' = log,
         \A o \in Orders : rows'[o] # None => rows[o] # None \/ Ord[o].price > 0,
         \A o \in Orders : pc'[o] = "unlocking" => pc[o] \in {"inserted", "sent", "unlocking"}
  PROVE  Priced'
  BY DEF Priced, Inv, RowKept

LEMMA PricedEmit ==
  ASSUME Inv, Priced, NEW e, log' = Append(log, e), rows' = rows, pc' = pc,
         e.kind = "accepted" => Ord[e.id].price > 0
  PROVE  Priced'
  <1>1. log \in Seq(Event)  BY DEF Inv, SettlementTypeOK
  <1>2. /\ DOMAIN log' = 1..(Len(log) + 1) /\ Len(log) \in Nat /\ DOMAIN log = 1..Len(log)
        /\ log'[Len(log) + 1] = e /\ \A n \in 1..Len(log) : log'[n] = log[n]
    BY <1>1, Appended
  <1>3. DOMAIN log' = DOMAIN log \cup {Len(log) + 1}  BY <1>2
  <1> QED BY <1>2, <1>3 DEF Priced

LEMMA NextPriced ==
  ASSUME Inv, Priced, [Next]_vars
  PROVE  Priced'
  <1>0. /\ pc \in [Orders -> {"none", "checked", "locked", "inserted", "sent", "unlocking", "leaked", "done"}]
        /\ rows \in [Orders -> Row \cup {None}]
    BY DEF Inv, SettlementTypeOK
  <1>1. ASSUME NEW o \in Orders, PlaceOrder(o) \/ PlaceDirect(o) \/ CancelOrder(o) \/ ApiStep(o) \/ GiveUp(o) \/ CancelGivesUp(o)
        PROVE  Priced'
    <2>1. log' = log
      BY <1>1 DEF PlaceOrder, PlaceDirect, CancelOrder, ApiStep, GiveUp, CancelGivesUp, TryLockBalance,
                  InsertPending, Send, UnlockBalance, Rejected, Acked, CancelAnswered
    <2>2. \A p \in Orders : pc'[p] = "unlocking" => pc[p] \in {"inserted", "sent", "unlocking"}
      BY <1>0, <1>1 DEF PlaceOrder, PlaceDirect, CancelOrder, ApiStep, GiveUp, CancelGivesUp, TryLockBalance,
                        InsertPending, Send, UnlockBalance, Rejected, Acked, CancelAnswered
    <2>3. \A p \in Orders : rows'[p] # None => rows[p] # None \/ Ord[p].price > 0
      <3>1. CASE Acked(o) \/ CancelAnswered(o)
        <4>1. rows' = rows \/ \E x : rows' = [rows EXCEPT ![o].status = x]
          BY <3>1 DEF Acked, CancelAnswered, SetStatus
        <4>2. rows[o] # None  BY <3>1 DEF Acked, CancelAnswered, Inv, RowKept
        <4> QED BY <1>0, <4>1, <4>2
      <3>2. CASE ~(Acked(o) \/ CancelAnswered(o))
        BY <1>0, <1>1, <3>2 DEF PlaceOrder, PlaceDirect, CancelOrder, ApiStep, GiveUp, CancelGivesUp,
             TryLockBalance, InsertPending, Send, UnlockBalance, Rejected
      <3> QED BY <3>1, <3>2
    <2> QED BY <2>1, <2>2, <2>3, PricedFrame
  <1>2. CASE EngineStep
    <2>1. UNCHANGED <<rows, pc>>
      BY <1>2 DEF EngineStep, EngineReject, EngineAccept, EngineCancel, Broadcast, EngineFill, EngineAnswer
    <2>2. ASSUME log' = log PROVE Priced'  BY <2>1, <2>2, PricedFrame
    <2>3. ASSUME NEW c \in Conn, EngineAccept(c) PROVE Priced'
      <3>1. PICK o, e : o = Head(queue[c]).id /\ e = [kind |-> "accepted", id |-> o]  OBVIOUS
      <3>2. log' = Append(log, e) /\ ~(Ord[o].price <= 0)  BY <2>3, <3>1 DEF EngineAccept, Emit, Refuses
      <3>3. o \in Orders  BY <2>3, <3>1, Fetched DEF EngineAccept, Inv
      <3>4. Ord[o].price \in Int  BY <3>3, OrderType
      <3>5. Ord[o].price > 0  BY <3>2, <3>4
      <3>6. e.id = o  BY <3>1
      <3> QED BY <2>1, <3>2, <3>5, <3>6, PricedEmit
    <2>4. ASSUME NEW e, e.kind # "accepted", log' = Append(log, e) PROVE Priced'
      BY <2>1, <2>4, PricedEmit
    <2>5. ASSUME NEW c \in Conn, EngineReject(c) \/ EngineCancel(c) \/ Broadcast(c) PROVE Priced'
      <3>1. log' = log \/ log' = Append(log, [kind |-> "canceled", id |-> Head(queue[c]).id])
        BY <2>5 DEF EngineReject, EngineCancel, Broadcast, Emit
      <3>2. [kind |-> "canceled", id |-> Head(queue[c]).id].kind # "accepted"  OBVIOUS
      <3> QED BY <2>2, <2>4, <3>1, <3>2
    <2>6. ASSUME NEW m \in Orders, EngineFill(m) PROVE Priced'
      <3>1. PICK q : log' = Append(log, [kind |-> "fill", taker |-> busy.id, maker |-> m,
                                         price |-> Ord[m].price, qty |-> q])
        BY <2>6 DEF EngineFill, Emit
      <3>2. [kind |-> "fill", taker |-> busy.id, maker |-> m, price |-> Ord[m].price, qty |-> q].kind # "accepted"
        OBVIOUS
      <3> QED BY <2>4, <3>1, <3>2
    <2>7. CASE EngineAnswer
      <3>1. log' = log \/ log' = Append(log, [kind |-> "canceled", id |-> busy.id])
        BY <2>7 DEF EngineAnswer, Emit
      <3>2. [kind |-> "canceled", id |-> busy.id].kind # "accepted"  OBVIOUS
      <3> QED BY <2>2, <2>4, <3>1, <3>2
    <2> QED BY <1>2, <2>3, <2>5, <2>6, <2>7 DEF EngineStep
  <1>3. CASE ConnectionBreaks
    <2>1. UNCHANGED <<rows, log>>  BY <1>3 DEF ConnectionBreaks
    <2>2. \A p \in Orders : pc'[p] = "unlocking" => pc[p] \in {"sent", "unlocking"}  BY <1>3 DEF ConnectionBreaks
    <2> QED BY <2>1, <2>2, PricedFrame
  <1>4. CASE PersistEvent \/ Disconnect \/ Reconnect \/ UNCHANGED vars
    <2>1. UNCHANGED <<rows, log, pc>>  BY <1>4 DEF PersistEvent, Disconnect, Reconnect, vars, db, api, engine
    <2> QED BY <2>1, PricedFrame
  <1>5. ASSUME NEW s \in stored, ProcessNext(s) \/ ProcessFails(s) PROVE Priced'
    <2>1. UNCHANGED <<log, pc>>  BY <1>5 DEF ProcessNext, ProcessFails
    <2>2. s \in DOMAIN log /\ log[s] \in Event  BY DEF Inv, SettlementTypeOK
    <2>3. \A p \in Orders : rows'[p] # None => rows[p] # None \/ Ord[p].price > 0
      <3>1. CASE ProcessFails(s)  BY <3>1 DEF ProcessFails
      <3>2. CASE ProcessNext(s) /\ log[s].kind = "accepted"
        <4>1. rows' = AcceptedRows(log[s].id)  BY <3>2 DEF ProcessNext, NewRows
        <4>2. Ord[log[s].id].price > 0  BY <2>2, <3>2 DEF Priced
        <4> QED BY <1>0, <4>1, <4>2 DEF AcceptedRows
      <3>3. CASE ProcessNext(s) /\ log[s].kind = "canceled"
        <4>1. rows' = CanceledRows(log[s].id)  BY <3>3 DEF ProcessNext, NewRows
        <4>2. rows[log[s].id] # None  BY <3>3 DEF ProcessNext, Settleable, Needed
        <4> QED BY <1>0, <4>1, <4>2 DEF CanceledRows
      <3>4. CASE ProcessNext(s) /\ log[s].kind = "fill"
        <4>1. rows' = FillRows(s)  BY <3>4 DEF ProcessNext, NewRows
        <4>2. rows[log[s].taker] # None /\ rows[log[s].maker] # None
          BY <3>4 DEF ProcessNext, Settleable, Needed
        <4> QED BY <1>0, <4>1, <4>2 DEF FillRows, UpdateOrderFill
      <3>5. log[s].kind \in {"fill", "canceled", "accepted"}  BY <2>2 DEF Event
      <3> QED BY <1>5, <3>1, <3>2, <3>3, <3>4, <3>5
    <2> QED BY <2>1, <2>3, PricedFrame
  <1> QED BY <1>1, <1>2, <1>3, <1>4, <1>5 DEF Next, Worker

-----------------------------------------------------------------------------
(* As long as nothing fails: the locks cover what is not yet settled. *)

(* What is still locked for an order at least: nothing before the lock or  *)
(* after its release, otherwise all that is not yet settled.               *)
Taken(o)         == pc[o] \in {"locked", "inserted", "sent", "unlocking", "leaked"} \/ Touched(o)
CancelSettled(o) == \E s \in processed : CanceledAt(s, o)
Held(o) == IF ~Taken(o) \/ CancelSettled(o) THEN 0 ELSE Ord[o].qty - Traded(o)
HeldOf  == [o \in Orders |-> Obligation(o, Held(o))]

(* The balances b have at least h[o] locked for every order o. *)
Cover(b, h) == \A u \in Users, a \in Asset : b[u][a].locked >= SumFunctionOnSet(h, OfBalance(u, a))

LocksCoverHeld == Cover(bal, HeldOf)

(* The obligation of the order is not negative. *)
Fair(o)   == Ord[o].side # "buy" \/ Ord[o].price >= 0
TakenFair == \A o \in Orders : Taken(o) => Fair(o)

(* An obligation is linear in the quantity. *)
LEMMA ObligationLinear ==
  ASSUME NEW o \in Orders, NEW p \in Nat, NEW q \in Nat, p <= q
  PROVE  /\ Obligation(o, p) \in Int /\ Obligation(o, q) \in Int
         /\ Obligation(o, q - p) = Obligation(o, q) - Obligation(o, p) /\ Obligation(o, 0) = 0
         /\ Fair(o) => /\ Obligation(o, p) \in Nat /\ Obligation(o, q) \in Nat
                       /\ Obligation(o, p) <= Obligation(o, q)
  <1>1. PICK w : w = IF Ord[o].side = "buy" THEN Ord[o].price ELSE 1  OBVIOUS
  <1>2. w \in Int /\ Scale \in Nat /\ (Fair(o) => w \in Nat)  BY <1>1, OrderType DEF Fair
  <1>3. PICK x : x = Scale * w  OBVIOUS
  <1>4. x \in Int /\ (Fair(o) => x \in Nat)
    <2>1. \A i \in Nat : Scale * i \in Nat  BY <1>2
    <2>2. \A i \in Int : Scale * i \in Int  BY <1>2
    <2> QED BY <1>2, <1>3, <2>1, <2>2
  <1>5. \A i \in Int : Obligation(o, i) = i * x
    <2>1. \A i \in Int : (i * Scale) * w = i * (Scale * w)  BY <1>2
    <2> QED BY <1>1, <1>3, <2>1 DEF Obligation
  <1>6. PICK d : d = q - p  OBVIOUS
  <1>7. d \in Nat /\ q = p + d  BY <1>6
  <1>8. p * x \in Int /\ q * x \in Int /\ d * x = q * x - p * x /\ 0 * x = 0
    <2>1. d * x \in Int /\ p * x \in Int /\ (p + d) * x = p * x + d * x  BY <1>4, <1>7
    <2> QED BY <1>4, <1>7, <2>1
  <1>9. ASSUME Fair(o) PROVE p * x \in Nat /\ q * x \in Nat /\ p * x <= q * x
    <2>1. x \in Nat  BY <1>4, <1>9
    <2>2. d * x \in Nat /\ p * x \in Nat /\ (p + d) * x = p * x + d * x  BY <1>7, <2>1
    <2> QED BY <1>7, <2>2
  <1>10. q - p \in Int /\ p \in Int /\ q \in Int /\ 0 \in Int  OBVIOUS
  <1> QED BY <1>5, <1>6, <1>8, <1>9, <1>10

LEMMA MoveParts ==
  ASSUME NEW b \in Balances, NEW u \in Users, NEW a \in Asset, NEW av \in Int, NEW lk \in Int
  PROVE  \A v \in Users, c \in Asset :
           /\ Move(b, u, a, av, lk)[v][c].available = b[v][c].available + (IF v = u /\ c = a THEN av ELSE 0)
           /\ Move(b, u, a, av, lk)[v][c].locked = b[v][c].locked + (IF v = u /\ c = a THEN lk ELSE 0)
  BY DEF Balances, Move

LEMMA OfBalanceFinite ==
  ASSUME NEW u, NEW a
  PROVE  IsFiniteSet(OfBalance(u, a)) /\ OfBalance(u, a) \subseteq Orders
  <1>1. OfBalance(u, a) \subseteq Orders  BY DEF OfBalance
  <1> QED BY <1>1, FS_Subset, SettlementAssumption

LEMMA CoverLess ==
  ASSUME NEW b \in Balances, NEW c \in Balances,
         \A u \in Users, a \in Asset : b[u][a].locked <= c[u][a].locked,
         NEW h \in [Orders -> Int], NEW k \in [Orders -> Int], \A o \in Orders : k[o] <= h[o],
         Cover(b, h)
  PROVE  Cover(c, k)
  <1> SUFFICES ASSUME NEW u \in Users, NEW a \in Asset
               PROVE  c[u][a].locked >= SumFunctionOnSet(k, OfBalance(u, a))
    BY DEF Cover
  <1>1. PICK S : S = OfBalance(u, a)  OBVIOUS
  <1>2. IsFiniteSet(S) /\ S \subseteq Orders  BY <1>1, OfBalanceFinite
  <1>3. \A s \in S : h[s] \in Int /\ k[s] \in Int /\ k[s] <= h[s]  BY <1>2
  <1>4. SumFunctionOnSet(k, S) <= SumFunctionOnSet(h, S)  BY <1>2, <1>3, SumMonotone
  <1>5. SumFunctionOnSet(k, S) \in Int /\ SumFunctionOnSet(h, S) \in Int  BY <1>2, <1>3, SumTake
  <1>6. b[u][a].locked \in Int /\ c[u][a].locked \in Int  BY DEF Balances
  <1>7. b[u][a].locked >= SumFunctionOnSet(h, S)  BY <1>1 DEF Cover
  <1>8. b[u][a].locked <= c[u][a].locked  OBVIOUS
  <1> QED BY <1>1, <1>4, <1>5, <1>6, <1>7, <1>8

(* A change of the locked amount of an order's balance, and as much of     *)
(* what is held for the order.                                             *)
LEMMA CoverMove ==
  ASSUME NEW b \in Balances, NEW o \in Orders, NEW av \in Int, NEW lk \in Int,
         NEW h \in [Orders -> Int], NEW k \in [Orders -> Int], Cover(b, h),
         \A p \in Orders : p # o => k[p] = h[p], k[o] - h[o] <= lk
  PROVE  Cover(Move(b, Ord[o].user, LockAsset(o), av, lk), k)
  <1>1. PICK c : c = Move(b, Ord[o].user, LockAsset(o), av, lk)  OBVIOUS
  <1> SUFFICES ASSUME NEW u \in Users, NEW a \in Asset
               PROVE  c[u][a].locked >= SumFunctionOnSet(k, OfBalance(u, a))
    BY <1>1 DEF Cover
  <1>2. Ord[o].user \in Users /\ LockAsset(o) \in Asset  BY OrderType
  <1>3. c[u][a].locked = b[u][a].locked + (IF u = Ord[o].user /\ a = LockAsset(o) THEN lk ELSE 0)
    BY <1>1, <1>2, MoveParts
  <1>4. PICK S : S = OfBalance(u, a)  OBVIOUS
  <1>5. IsFiniteSet(S) /\ S \subseteq Orders  BY <1>4, OfBalanceFinite
  <1>6. b[u][a].locked \in Int  BY DEF Balances
  <1>7. b[u][a].locked >= SumFunctionOnSet(h, S)  BY <1>4 DEF Cover
  <1>8. \A s \in S : h[s] \in Int /\ k[s] \in Int  BY <1>5
  <1>9. SumFunctionOnSet(h, S) \in Int /\ SumFunctionOnSet(k, S) \in Int  BY <1>5, <1>8, SumTake
  <1>10. CASE u = Ord[o].user /\ a = LockAsset(o)
    <2>1. o \in S  BY <1>4, <1>10 DEF OfBalance
    <2>2. \A s \in S \ {o} : h[s] = k[s]  BY <1>5
    <2>3. SumFunctionOnSet(k, S) = SumFunctionOnSet(h, S) + (k[o] - h[o])  BY <1>5, <1>8, <2>1, <2>2, SumChange
    <2>4. h[o] \in Int /\ k[o] \in Int /\ k[o] - h[o] <= lk  OBVIOUS
    <2> QED BY <1>3, <1>4, <1>6, <1>7, <1>9, <1>10, <2>3, <2>4
  <1>11. CASE ~(u = Ord[o].user /\ a = LockAsset(o))
    <2>1. o \notin S  BY <1>4, <1>11 DEF OfBalance
    <2>2. \A s \in S : k[s] = h[s]  BY <1>5, <2>1
    <2>3. SumFunctionOnSet(k, S) = SumFunctionOnSet(h, S)  BY <1>5, <2>2, SumSame
    <2> QED BY <1>3, <1>4, <1>6, <1>7, <1>9, <1>11, <2>3
  <1> QED BY <1>10, <1>11

LEMMA CoverAvailable ==
  ASSUME NEW b \in Balances, NEW u \in Users, NEW a \in Asset, NEW av \in Int,
         NEW h \in [Orders -> Int], Cover(b, h)
  PROVE  Cover(Move(b, u, a, av, 0), h)
  <1>1. PICK c : c = Move(b, u, a, av, 0)  OBVIOUS
  <1>2. c \in Balances  BY <1>1, MoveType
  <1>3. \A v \in Users, d \in Asset : c[v][d].locked = b[v][d].locked + (IF v = u /\ d = a THEN 0 ELSE 0)
    BY <1>1, MoveParts
  <1>4. \A v \in Users, d \in Asset : b[v][d].locked \in Int  BY DEF Balances
  <1>5. \A v \in Users, d \in Asset : b[v][d].locked <= c[v][d].locked  BY <1>3, <1>4
  <1>6. \A o \in Orders : h[o] <= h[o]  OBVIOUS
  <1> QED BY <1>1, <1>2, <1>5, <1>6, CoverLess

(* Balances that cover something are valid. *)
LEMMA CoverValid ==
  ASSUME NEW b \in Balances, NEW h \in [Orders -> Nat], Cover(b, h),
         \A u \in Users, a \in Asset : b[u][a].available >= 0
  PROVE  Valid(b)
  <1> SUFFICES ASSUME NEW u \in Users, NEW a \in Asset PROVE b[u][a].locked >= 0
    BY DEF Valid
  <1>1. PICK S : S = OfBalance(u, a)  OBVIOUS
  <1>2. IsFiniteSet(S) /\ S \subseteq Orders  BY <1>1, OfBalanceFinite
  <1>3. \A s \in S : h[s] \in Nat  BY <1>2
  <1>4. SumFunctionOnSet(h, S) \in Nat  BY <1>2, <1>3, SumPart
  <1>5. b[u][a].locked >= SumFunctionOnSet(h, S) /\ b[u][a].locked \in Int  BY <1>1 DEF Cover, Balances
  <1> QED BY <1>4, <1>5

HeldSound ==
  \A o \in Orders : Held(o) \in Nat /\ Obligation(o, Held(o)) \in Nat /\ HeldOf[o] = Obligation(o, Held(o))

LEMMA HeldIsSound == Inv /\ FlowInv /\ TakenFair => HeldSound
  <1> SUFFICES ASSUME Inv, FlowInv, TakenFair, NEW o \in Orders
               PROVE  Held(o) \in Nat /\ Obligation(o, Held(o)) \in Nat /\ HeldOf[o] = Obligation(o, Held(o))
    BY DEF HeldSound
  <1>1. Traded(o) \in Nat /\ Logged(o) \in Nat  BY LogSumsHold DEF LogSums
  <1>2. Traded(o) <= Logged(o)  BY TradedBound DEF FlowInv
  <1>3. live[o] \in Nat /\ Ord[o].qty \in Nat  BY OrderType DEF Inv, SettlementTypeOK
  <1>4. Logged(o) + live[o] <= Ord[o].qty  BY DEF FlowInv, NeverOverfilled
  <1>5. Ord[o].qty - Traded(o) \in Nat  BY <1>1, <1>2, <1>3, <1>4
  <1>6. Held(o) \in Nat  BY <1>5 DEF Held
  <1>7. Obligation(o, Held(o)) \in Nat
    <2>1. CASE Taken(o)  BY <1>6, <2>1, ObligationLinear DEF TakenFair
    <2>2. CASE ~Taken(o)
      <3>1. Held(o) = 0  BY <2>2 DEF Held
      <3>2. 0 \in Nat /\ 0 <= 0  OBVIOUS
      <3>3. Obligation(o, 0) = 0  BY <3>2, ObligationLinear
      <3> QED BY <3>1, <3>3
    <2> QED BY <2>1, <2>2
  <1> QED BY <1>6, <1>7 DEF HeldOf

(* A fill that is not settled yet finds room in both orders. *)
LEMMA TradedRoom ==
  ASSUME Inv, FlowInv, NEW s \in DOMAIN log, s \notin trades, log[s].kind = "fill",
         NEW o \in Orders, o \in {log[s].taker, log[s].maker}
  PROVE  log[s].qty \in Nat /\ Traded(o) \in Nat /\ Traded(o) + log[s].qty <= Ord[o].qty
  <1>1. PICK F, T : F = FillsOf(o) /\ T = TradesOf(o)  OBVIOUS
  <1>2. /\ IsFiniteSet(F) /\ F \subseteq DOMAIN log /\ Traded(o) \in Nat /\ Logged(o) \in Nat
        /\ \A t \in DOMAIN log : Qty[t] \in Nat
    BY <1>1, LogSumsHold DEF LogSums
  <1>3. T \subseteq F /\ s \in F /\ s \notin T
    BY <1>1, TradedBound DEF FlowInv, FillsOf, TradesOf
  <1>4. PICK U : U = T \cup {s}  OBVIOUS
  <1>5. U \in SUBSET F /\ \A t \in F : Qty[t] \in Nat  BY <1>2, <1>3, <1>4
  <1>6. SumFunctionOnSet(Qty, U) <= Logged(o) /\ SumFunctionOnSet(Qty, U) \in Nat
    BY <1>1, <1>2, <1>5, SumPart DEF Logged
  <1>7. IsFiniteSet(T) /\ \A t \in T \cup {s} : Qty[t] \in Int
    <2>1. IsFiniteSet(T)  BY <1>2, <1>3, FS_Subset
    <2> QED BY <1>3, <1>5, <2>1
  <1>8. SumFunctionOnSet(Qty, U) = Traded(o) + Qty[s]  BY <1>1, <1>3, <1>4, <1>7, SumAdd DEF Traded
  <1>9. Qty[s] = log[s].qty /\ Qty[s] \in Nat  BY <1>2 DEF Qty
  <1>10. Logged(o) + live[o] <= Ord[o].qty /\ live[o] \in Nat /\ Ord[o].qty \in Nat
    BY OrderType DEF FlowInv, NeverOverfilled, Inv, SettlementTypeOK
  <1> QED BY <1>2, <1>6, <1>8, <1>9, <1>10

(* The buyer's order has locked what the buyer pays: the price of a fill   *)
(* is the maker's and the orders cross.                                    *)
FillIsOf(e, b, s) ==
  /\ b # s /\ {b, s} = {e.taker, e.maker}
  /\ Buyer(e) = Ord[b].user /\ Seller(e) = Ord[s].user /\ LockAsset(b) = "quote" /\ LockAsset(s) = "base"
  /\ Notional(e) <= Obligation(b, e.qty) /\ e.qty * Scale = Obligation(s, e.qty)

LEMMA FillOrders ==
  ASSUME NEW e \in Event, e.kind = "fill", e.taker # e.maker, e.price = Ord[e.maker].price,
         Crosses(e.taker, e.maker), Ord[e.taker].price > 0, Ord[e.maker].price > 0
  PROVE  (\E b, s \in Orders : FillIsOf(e, b, s)) /\ Got(e) >= 0 /\ Earned(e) >= 0
  <1>1. e.taker \in Orders /\ e.maker \in Orders /\ e.qty \in Nat /\ e.price \in Nat
    <2>1. e.taker \in Orders /\ e.maker \in Orders /\ e.qty \in Nat  BY DEF Event
    <2> QED BY <2>1, OrderType
  <1>2. /\ Ord[e.taker] \in OrderInput /\ Ord[e.maker] \in OrderInput /\ Scale \in Nat
        /\ TakerFeeBps \in Nat /\ MakerFeeBps \in Nat /\ TakerFeeBps <= Scale /\ MakerFeeBps <= Scale
    <2>1. Ord \in [Orders -> OrderInput] /\ Scale \in Nat /\ TakerFeeBps \in 0..Scale /\ MakerFeeBps \in 0..Scale
      BY SettlementAssumption
    <2> QED BY <1>1, <2>1
  <1>3. /\ Ord[e.taker].side \in {"buy", "sell"} /\ Ord[e.maker].side \in {"buy", "sell"}
        /\ Ord[e.taker].price \in Nat /\ Ord[e.maker].price \in Nat
    BY <1>1, <1>2, OrderType DEF OrderInput
  <1>4. ASSUME NEW w \in Nat, e.price <= w PROVE Notional(e) <= e.qty * Scale * w
    <2>1. PICK d : d = w - e.price  OBVIOUS
    <2>2. d \in Nat /\ w = e.price + d  BY <1>1, <1>4, <2>1
    <2>3. PICK x : x = e.qty * Scale  OBVIOUS
    <2>4. x \in Nat  BY <1>1, <1>2, <2>3
    <2>5. x * d \in Nat /\ x * (e.price + d) = x * e.price + x * d /\ x * e.price \in Nat  BY <1>1, <2>2, <2>4
    <2>6. e.price * e.qty * Scale = e.qty * Scale * e.price  BY <1>1, <1>2
    <2>7. Notional(e) = x * e.price  BY <2>3, <2>6 DEF Notional
    <2>8. x * e.price <= x * w  BY <2>2, <2>5
    <2> QED BY <2>3, <2>7, <2>8
  <1>5. e.qty * Scale * 1 = e.qty * Scale  BY <1>1, <1>2
  <1>6. \E b, s \in Orders : FillIsOf(e, b, s)
    <2>1. CASE Ord[e.taker].side = "buy"
      <3>1. Ord[e.maker].side = "sell" /\ e.price <= Ord[e.taker].price  BY <1>3, <2>1 DEF Crosses
      <3>2. Notional(e) <= e.qty * Scale * Ord[e.taker].price  BY <1>3, <1>4, <3>1
      <3>3. FillIsOf(e, e.taker, e.maker)
        BY <1>5, <2>1, <3>1, <3>2 DEF FillIsOf, Buyer, Seller, LockAsset, Obligation
      <3> QED BY <1>1, <3>3
    <2>2. CASE Ord[e.taker].side # "buy"
      <3>1. Ord[e.maker].side = "buy" /\ e.price <= Ord[e.maker].price  BY <1>1, <1>3, <2>2 DEF Crosses
      <3>2. Notional(e) <= e.qty * Scale * Ord[e.maker].price  BY <1>3, <1>4, <3>1
      <3>3. FillIsOf(e, e.maker, e.taker)
        BY <1>5, <2>2, <3>1, <3>2 DEF FillIsOf, Buyer, Seller, LockAsset, Obligation
      <3> QED BY <1>1, <3>3
    <2> QED BY <2>1, <2>2
  <1>7. \A x, f, y \in Nat : f <= y => x * y - x * f >= 0
    <2> SUFFICES ASSUME NEW x \in Nat, NEW f \in Nat, NEW y \in Nat, f <= y PROVE x * y - x * f >= 0  OBVIOUS
    <2>1. PICK d : d = y - f  OBVIOUS
    <2>2. d \in Nat /\ y = f + d  BY <2>1
    <2>3. x * d \in Nat /\ x * (f + d) = x * f + x * d /\ x * f \in Nat  BY <2>2
    <2> QED BY <2>2, <2>3
  <1>8. Got(e) >= 0  BY <1>1, <1>2, <1>7 DEF Got
  <1>9. Earned(e) >= 0
    <2>1. e.price * e.qty \in Nat  BY <1>1
    <2> QED BY <1>2, <1>7, <2>1 DEF Earned, Notional
  <1> QED BY <1>6, <1>8, <1>9

(* The balances after a fill cover what is held without the fill. *)
LEMMA CoverFill ==
  ASSUME NEW w \in Balances, NEW h \in [Orders -> Int], NEW k \in [Orders -> Int], Cover(w, h),
         NEW e \in Event, e.kind = "fill", e.taker # e.maker, e.price = Ord[e.maker].price,
         Crosses(e.taker, e.maker), Ord[e.taker].price > 0, Ord[e.maker].price > 0,
         \A o \in Orders : k[o] = h[o] - (IF o \in {e.taker, e.maker} THEN Obligation(o, e.qty) ELSE 0)
  PROVE  /\ ApplyFillLedger(w, e) \in Balances /\ Cover(ApplyFillLedger(w, e), k)
         /\ \A u \in Users, a \in Asset : ApplyFillLedger(w, e)[u][a].available >= w[u][a].available
  <1>1. PICK b, s \in Orders : FillIsOf(e, b, s)  BY FillOrders
  <1>2. PICK n, q, g, r : n = -Notional(e) /\ q = -(e.qty * Scale) /\ g = Got(e) /\ r = Earned(e)  OBVIOUS
  <1>3. /\ Ord[b].user \in Users /\ Ord[s].user \in Users /\ "base" \in Asset /\ "quote" \in Asset
        /\ g \in Int /\ r \in Int /\ n \in Int /\ q \in Int /\ g >= 0 /\ r >= 0 /\ e.qty \in Nat
        /\ Obligation(b, e.qty) \in Int /\ Obligation(s, e.qty) \in Int
    <2>1. e.qty \in Nat /\ Notional(e) \in Int /\ e.qty * Scale \in Int /\ Got(e) \in Int /\ Earned(e) \in Int  BY FillParts
    <2>2. e.qty \in Int  BY <2>1
    <2> QED BY <1>2, <2>1, <2>2, FillOrders, OrderType DEF Asset
  <1>4. PICK w1 : w1 = Move(w, Ord[b].user, "base", g, 0)  OBVIOUS
  <1>5. PICK w2 : w2 = Move(w1, Ord[b].user, "quote", 0, n)  OBVIOUS
  <1>6. PICK w3 : w3 = Move(w2, Ord[s].user, "quote", r, 0)  OBVIOUS
  <1>7. PICK w4 : w4 = Move(w3, Ord[s].user, "base", 0, q)  OBVIOUS
  <1>8. w4 = ApplyFillLedger(w, e)
    BY <1>1, <1>2, <1>4, <1>5, <1>6, <1>7 DEF ApplyFillLedger, FillIsOf
  <1>9. w1 \in Balances  BY <1>3, <1>4, MoveType
  <1>10. w2 \in Balances  BY <1>3, <1>5, <1>9, MoveType
  <1>11. w3 \in Balances  BY <1>3, <1>6, <1>10, MoveType
  <1>12. w4 \in Balances  BY <1>3, <1>7, <1>11, MoveType
  <1>13. PICK h2 : h2 = [h EXCEPT ![b] = h[b] - Obligation(b, e.qty)]  OBVIOUS
  <1>14. /\ h2 \in [Orders -> Int] /\ h2[b] = h[b] - Obligation(b, e.qty) /\ h[b] \in Int
         /\ \A p \in Orders : p # b => h2[p] = h[p]
    BY <1>1, <1>3, <1>13
  <1>15. Cover(w1, h)  BY <1>3, <1>4, CoverAvailable
  <1>16. h2[b] - h[b] <= n
    <2>1. Notional(e) <= Obligation(b, e.qty) /\ Notional(e) \in Int  BY <1>1, FillParts DEF FillIsOf
    <2> QED BY <1>2, <1>3, <1>14, <2>1
  <1>17. Cover(w2, h2)
    <2>1. LockAsset(b) = "quote" /\ 0 \in Int  BY <1>1 DEF FillIsOf
    <2>2. /\ w1 \in Balances /\ b \in Orders /\ 0 \in Int /\ n \in Int /\ h \in [Orders -> Int]
          /\ h2 \in [Orders -> Int] /\ Cover(w1, h) /\ h2[b] - h[b] <= n
          /\ \A p \in Orders : p # b => h2[p] = h[p]
      BY <1>1, <1>3, <1>9, <1>14, <1>15, <1>16
    <2>3. Cover(Move(w1, Ord[b].user, LockAsset(b), 0, n), h2)  BY ONLY <2>2, CoverMove
    <2> QED BY <1>5, <2>1, <2>3
  <1>18. Cover(w3, h2)  BY <1>3, <1>6, <1>10, <1>14, <1>17, CoverAvailable
  <1>19. (\A p \in Orders : p # s => k[p] = h2[p]) /\ k[s] - h2[s] <= q
    <2>1. b # s /\ {b, s} = {e.taker, e.maker} /\ e.qty * Scale = Obligation(s, e.qty)  BY <1>1 DEF FillIsOf
    <2>2. \A p \in Orders : h[p] \in Int  OBVIOUS
    <2>3. h[s] \in Int /\ h2[s] = h[s] /\ k[s] = h[s] - Obligation(s, e.qty)  BY <1>14, <2>1
    <2>4. k[b] = h2[b]  BY <1>14, <2>1
    <2>5. \A p \in Orders : p \notin {b, s} => k[p] = h[p] - 0  BY <2>1
    <2>6. \A p \in Orders : p \notin {b, s} => k[p] = h2[p]  BY <1>14, <2>2, <2>5
    <2> QED BY <1>2, <1>3, <2>1, <2>3, <2>4, <2>6
  <1>20. Cover(w4, k)
    <2>1. LockAsset(s) = "base" /\ 0 \in Int  BY <1>1 DEF FillIsOf
    <2>2. /\ w3 \in Balances /\ s \in Orders /\ 0 \in Int /\ q \in Int /\ h2 \in [Orders -> Int]
          /\ k \in [Orders -> Int] /\ Cover(w3, h2) /\ k[s] - h2[s] <= q
          /\ \A p \in Orders : p # s => k[p] = h2[p]
      BY <1>1, <1>3, <1>11, <1>14, <1>18, <1>19
    <2>3. Cover(Move(w3, Ord[s].user, LockAsset(s), 0, q), k)  BY ONLY <2>2, CoverMove
    <2> QED BY <1>7, <2>1, <2>3
  <1>21. ASSUME NEW u \in Users, NEW a \in Asset PROVE w4[u][a].available >= w[u][a].available
    <2>1. 0 \in Int /\ w[u][a].available \in Int  BY DEF Balances
    <2>2. w1[u][a].available = w[u][a].available + (IF u = Ord[b].user /\ a = "base" THEN g ELSE 0)
      BY <1>3, <1>4, <2>1, MoveParts
    <2>3. w2[u][a].available = w1[u][a].available + (IF u = Ord[b].user /\ a = "quote" THEN 0 ELSE 0)
      BY <1>3, <1>5, <1>9, <2>1, MoveParts
    <2>4. w3[u][a].available = w2[u][a].available + (IF u = Ord[s].user /\ a = "quote" THEN r ELSE 0)
      BY <1>3, <1>6, <1>10, <2>1, MoveParts
    <2>5. w4[u][a].available = w3[u][a].available + (IF u = Ord[s].user /\ a = "base" THEN 0 ELSE 0)
      BY <1>3, <1>7, <1>11, <2>1, MoveParts
    <2> QED BY <1>3, <2>1, <2>2, <2>3, <2>4, <2>5
  <1> QED BY <1>8, <1>12, <1>20, <1>21

(* No event of an order is left when its cancel is settled. *)
LEMMA NotCanceledYet ==
  ASSUME Inv, InOrder, CancelsLast, NEW s \in stored, IsNext(s), NEW o \in Orders, o \in Names(log[s])
  PROVE  ~CancelSettled(o)
  <1> SUFFICES ASSUME NEW t \in processed, CanceledAt(t, o) PROVE FALSE  BY DEF CancelSettled
  <1>1. t \in DOMAIN log /\ s \in DOMAIN log  BY DEF Inv, SettlementTypeOK
  <1>2. s <= t  BY <1>1 DEF CancelsLast
  <1>3. processed = 1..(s - 1) /\ s \in Nat  BY OrderProcess
  <1>4. t \in Int /\ t <= s - 1  BY <1>3
  <1> QED BY <1>2, <1>3, <1>4

(* What is held when the event is settled. *)
After(s) ==
  [o \in Orders |->
     IF log[s].kind = "fill" /\ o \in {log[s].taker, log[s].maker} THEN HeldOf[o] - Obligation(o, log[s].qty)
     ELSE IF log[s].kind = "canceled" /\ o = log[s].id THEN 0
     ELSE HeldOf[o]]

LEMMA NextNamed ==
  ASSUME Inv, FlowInv, InOrder, CancelsLast, Agree, NEW s \in stored, IsNext(s)
  PROVE  /\ s \in DOMAIN log /\ s \notin trades /\ s \notin processed /\ log[s] \in Event
         /\ Names(log[s]) \subseteq Orders
         /\ \A o \in Names(log[s]) :
              rows[o] # None /\ Touched(o) /\ Held(o) = Ord[o].qty - Traded(o)
  <1>1. s \in DOMAIN log /\ s \notin processed /\ s \notin trades /\ log \in Seq(Event)
    BY DEF Inv, SettlementTypeOK, IsNext, Unprocessed
  <1>2. log[s] \in Event  BY <1>1
  <1>3. Names(log[s]) \subseteq Orders  BY <1>2 DEF Names, Event
  <1>4. ASSUME NEW o \in Names(log[s])
        PROVE  rows[o] # None /\ Touched(o) /\ Held(o) = Ord[o].qty - Traded(o)
    <2>1. o \in Orders /\ Touched(o)  BY <1>1, <1>3 DEF Touched
    <2>2. ~CancelSettled(o)  BY <2>1, NotCanceledYet
    <2> QED BY <2>1, <2>2 DEF Agree, AgreeOn, Held, Taken
  <1> QED BY <1>1, <1>2, <1>3, <1>4

(* The next event can be settled, and the locks cover what is then held. *)
LEMMA SettleCovers ==
  ASSUME Inv, FlowInv, InOrder, CancelsLast, Agree, Priced, TakenFair, LocksCoverHeld,
         NEW s \in stored, IsNext(s)
  PROVE  /\ Settleable(s) /\ NewBal(s) \in Balances
         /\ After(s) \in [Orders -> Nat] /\ Cover(NewBal(s), After(s))
  <1>0. /\ HeldSound /\ HeldOf \in [Orders -> Int] /\ bal \in Balances /\ Cover(bal, HeldOf)
        /\ \A u \in Users, a \in Asset : bal[u][a].available \in Nat
    <2>1. HeldSound  BY HeldIsSound
    <2>2. HeldOf \in [Orders -> Int]  BY <2>1 DEF HeldSound, HeldOf
    <2>3. bal \in Balances /\ \A u \in Users, a \in Asset : bal[u][a].available \in Nat
      BY DEF Inv, SettlementTypeOK, Balances
    <2> QED BY <2>1, <2>2, <2>3 DEF LocksCoverHeld
  <1>1. /\ s \in DOMAIN log /\ s \notin trades /\ log[s] \in Event /\ Names(log[s]) \subseteq Orders
        /\ \A o \in Names(log[s]) : rows[o] # None /\ Touched(o) /\ Held(o) = Ord[o].qty - Traded(o)
    BY NextNamed
  <1>2. After(s) \in [Orders -> Nat]
    <2>1. ASSUME NEW o \in Orders, log[s].kind = "fill", o \in {log[s].taker, log[s].maker}
          PROVE  HeldOf[o] - Obligation(o, log[s].qty) \in Nat
      <3>1. o \in Names(log[s])  BY <2>1 DEF Names
      <3>2. log[s].qty \in Nat /\ Traded(o) \in Nat /\ Traded(o) + log[s].qty <= Ord[o].qty
        BY <1>1, <2>1, TradedRoom
      <3>3. Held(o) \in Nat /\ log[s].qty <= Held(o) /\ HeldOf[o] = Obligation(o, Held(o))
        BY <1>0, <1>1, <3>1, <3>2, OrderType DEF HeldSound
      <3>4. /\ Obligation(o, log[s].qty) \in Nat /\ Obligation(o, Held(o)) \in Nat
            /\ Obligation(o, log[s].qty) <= Obligation(o, Held(o))
        BY <1>1, <3>1, <3>2, <3>3, ObligationLinear DEF TakenFair, Taken
      <3> QED BY <3>3, <3>4
    <2>2. \A o \in Orders : HeldOf[o] \in Nat  BY <1>0 DEF HeldSound
    <2> QED BY <2>1, <2>2 DEF After
  <1>3. PICK k : k = After(s)  OBVIOUS
  <1>4. k \in [Orders -> Int]  BY <1>2, <1>3
  <1>5. \A o \in Needed(log[s]) : rows[o] # None
    <2>1. Needed(log[s]) \subseteq Names(log[s])  BY <1>1 DEF Needed, Names, Event
    <2> QED BY <1>1, <2>1
  <1>6. /\ NewBal(s) \in Balances /\ Cover(NewBal(s), k)
        /\ \A u \in Users, a \in Asset : NewBal(s)[u][a].available >= 0
    <2>1. CASE log[s].kind = "fill"
      <3>1. PICK e : e = log[s]  OBVIOUS
      <3>2. /\ e \in Event /\ e.kind = "fill" /\ e.taker # e.maker /\ e.price = Ord[e.maker].price
            /\ Crosses(e.taker, e.maker) /\ Ord[e.taker].price > 0 /\ Ord[e.maker].price > 0
        <4>1. {e.taker, e.maker} \subseteq Names(log[s])  BY <2>1, <3>1 DEF Names
        <4>2. Ord[e.taker].price > 0 /\ Ord[e.maker].price > 0  BY <1>1, <4>1 DEF Priced
        <4> QED BY <1>1, <2>1, <3>1, <4>2 DEF FlowInv, FillSound
      <3>3. \A o \in Orders : k[o] = HeldOf[o] - (IF o \in {e.taker, e.maker} THEN Obligation(o, e.qty) ELSE 0)
        <4>1. \A o \in Orders : HeldOf[o] \in Int  BY <1>0
        <4> QED BY <1>3, <2>1, <3>1, <4>1 DEF After
      <3>4. NewBal(s) = ApplyFillLedger(bal, e)  BY <1>1, <2>1, <3>1 DEF NewBal, FillBal
      <3>5. PICK w : w = ApplyFillLedger(bal, e)  OBVIOUS
      <3>6. /\ w \in Balances /\ Cover(w, k)
            /\ \A u \in Users, a \in Asset : w[u][a].available >= bal[u][a].available
        BY <1>0, <1>4, <3>2, <3>3, <3>5, CoverFill
      <3>7. \A u \in Users, a \in Asset : w[u][a].available \in Int  BY <3>6 DEF Balances
      <3>8. \A u \in Users, a \in Asset : w[u][a].available >= 0  BY <1>0, <3>6, <3>7
      <3> QED BY <3>4, <3>5, <3>6, <3>8
    <2>2. CASE log[s].kind = "canceled"
      <3>1. PICK o : o = log[s].id  OBVIOUS
      <3>2. o \in Names(log[s]) /\ o \in Orders  BY <1>1, <2>2, <3>1 DEF Names
      <3>3. k[o] = 0 /\ \A p \in Orders : p # o => k[p] = HeldOf[p]
        BY <1>3, <2>2, <3>1, <3>2 DEF After
      <3>4. Held(o) \in Nat /\ HeldOf[o] = Obligation(o, Held(o)) /\ HeldOf[o] \in Nat
        BY <1>0, <3>2 DEF HeldSound
      <3>5. NewBal(s) = CanceledBal(o)  BY <2>2, <3>1 DEF NewBal
      <3>6. CASE Closed(o)
        <4>1. NewBal(s) = bal  BY <3>5, <3>6 DEF CanceledBal
        <4>2. \A p \in Orders : k[p] <= HeldOf[p]  BY <1>0, <3>3, <3>4
        <4>3. \A u \in Users, a \in Asset : bal[u][a].locked <= bal[u][a].locked  BY <1>0 DEF Balances
        <4>4. Cover(bal, k)  BY <1>0, <1>4, <4>2, <4>3, CoverLess
        <4> QED BY <1>0, <4>1, <4>4
      <3>7. CASE ~Closed(o)
        <4>1. rows[o].filled = Traded(o)  BY <1>1, <3>2 DEF FlowInv, RowsCount
        <4>2. Ord[o].qty - rows[o].filled = Held(o)  BY <1>1, <3>2, <4>1
        <4>3. PICK x : x = HeldOf[o]  OBVIOUS
        <4>4. NewBal(s) = Lock(bal, o, -x)  BY <3>4, <3>5, <3>7, <4>2, <4>3 DEF CanceledBal
        <4>5. PICK w : w = Move(bal, Ord[o].user, LockAsset(o), -(-x), -x)  OBVIOUS
        <4>6. NewBal(s) = w  BY <4>4, <4>5 DEF Lock
        <4>7. x \in Nat /\ -x \in Int /\ -(-x) \in Int /\ -(-x) = x  BY <3>4, <4>3
        <4>8. Ord[o].user \in Users /\ LockAsset(o) \in Asset  BY <3>2, OrderType
        <4>9. w \in Balances  BY <1>0, <4>5, <4>7, <4>8, MoveType
        <4>10. k[o] - HeldOf[o] <= -x  BY <3>3, <4>3, <4>7
        <4>11. Cover(w, k)
          <5>1. /\ bal \in Balances /\ o \in Orders /\ -(-x) \in Int /\ -x \in Int /\ HeldOf \in [Orders -> Int]
                /\ k \in [Orders -> Int] /\ Cover(bal, HeldOf) /\ k[o] - HeldOf[o] <= -x
                /\ \A p \in Orders : p # o => k[p] = HeldOf[p]
            BY <1>0, <1>4, <3>2, <3>3, <4>7, <4>10
          <5> QED BY ONLY <4>5, <5>1, CoverMove
        <4>12. ASSUME NEW u \in Users, NEW a \in Asset PROVE w[u][a].available >= 0
          <5>1. w[u][a].available = bal[u][a].available + (IF u = Ord[o].user /\ a = LockAsset(o) THEN -(-x) ELSE 0)
            BY <1>0, <4>5, <4>7, <4>8, MoveParts
          <5>2. bal[u][a].available \in Nat  BY <1>0
          <5> QED BY <4>7, <5>1, <5>2
        <4> QED BY <4>6, <4>9, <4>11, <4>12
      <3> QED BY <3>6, <3>7
    <2>3. CASE log[s].kind \notin {"fill", "canceled"}
      <3>1. log[s].id \in Names(log[s])  BY <2>3 DEF Names
      <3>2. NewBal(s) = bal  BY <1>1, <2>3, <3>1 DEF NewBal, AcceptedBal
      <3>3. k = HeldOf  BY <1>3, <2>3 DEF After, HeldOf
      <3> QED BY <1>0, <3>2, <3>3
    <2> QED BY <2>1, <2>2, <2>3
  <1>7. Valid(NewBal(s))  BY <1>2, <1>3, <1>6, CoverValid
  <1> QED BY <1>2, <1>3, <1>5, <1>6, <1>7 DEF Settleable

LEMMA HeldSettled ==
  ASSUME Inv, FlowInv, InOrder, CancelsLast, Agree, TakenFair, NEW s \in stored, ProcessNext(s), NEW o \in Orders
  PROVE  Obligation(o, Held(o))' = After(s)[o]
  <1>0. IsNext(s) /\ UNCHANGED <<log, pc>> /\ processed' = processed \cup {s}  BY DEF ProcessNext
  <1>1. /\ s \in DOMAIN log /\ s \notin trades /\ log[s] \in Event /\ Names(log[s]) \subseteq Orders
        /\ \A p \in Names(log[s]) : rows[p] # None /\ Touched(p) /\ Held(p) = Ord[p].qty - Traded(p)
    BY <1>0, NextNamed
  <1>2. Touched(o)' <=> Touched(o)  BY <1>0, TouchKept
  <1>3. Taken(o)' <=> Taken(o)  BY <1>0, <1>2 DEF Taken
  <1>4. CancelSettled(o)' <=> CancelSettled(o) \/ CanceledAt(s, o)  BY <1>0 DEF CancelSettled, CanceledAt
  <1>5. HeldOf[o] = Obligation(o, Held(o)) /\ Held(o) \in Nat  BY HeldIsSound DEF HeldSound
  <1>6. Obligation(o, Held(o))' = Obligation(o, Held(o)')  BY DEF Obligation
  <1>7. CASE log[s].kind = "fill"
    <2>1. trades' = trades \cup {s}  BY <1>7 DEF ProcessNext
    <2>2. CancelSettled(o)' <=> CancelSettled(o)  BY <1>4, <1>7 DEF CanceledAt
    <2>3. CASE o \in {log[s].taker, log[s].maker}
      <3>1. Traded(o)' = Traded(o) + log[s].qty  BY <1>0, <1>1, <1>7, <2>1, <2>3, TradeAdded
      <3>2. o \in Names(log[s])  BY <1>7, <2>3 DEF Names
      <3>3. ~CancelSettled(o) /\ Taken(o) /\ Held(o) = Ord[o].qty - Traded(o)
        BY <1>0, <1>1, <3>2, NotCanceledYet DEF Taken
      <3>4. Held(o)' = Ord[o].qty - Traded(o)'  BY <1>3, <2>2, <3>3 DEF Held
      <3>5. log[s].qty \in Nat /\ Traded(o) \in Nat /\ Traded(o) + log[s].qty <= Ord[o].qty /\ Ord[o].qty \in Nat
        BY <1>1, <1>7, <2>3, TradedRoom, OrderType
      <3>6. Held(o)' = Held(o) - log[s].qty /\ log[s].qty <= Held(o)  BY <3>1, <3>3, <3>4, <3>5
      <3>7. Obligation(o, Held(o) - log[s].qty) = Obligation(o, Held(o)) - Obligation(o, log[s].qty)
        BY <1>5, <3>5, <3>6, ObligationLinear
      <3> QED BY <1>5, <1>6, <1>7, <2>3, <3>6, <3>7 DEF After
    <2>4. CASE o \notin {log[s].taker, log[s].maker}
      <3>1. Traded(o)' = Traded(o)  BY <1>0, <1>1, <1>7, <2>1, <2>4, TradeAdded
      <3>2. Held(o)' = Held(o)  BY <1>3, <2>2, <3>1 DEF Held
      <3> QED BY <1>5, <1>6, <1>7, <2>4, <3>2 DEF After
    <2> QED BY <2>3, <2>4
  <1>8. CASE log[s].kind # "fill"
    <2>1. trades' = trades /\ \A t \in DOMAIN log : t \in DOMAIN log' /\ log'[t] = log[t]
      BY <1>0, <1>8 DEF ProcessNext
    <2>2. Traded(o)' = Traded(o)  BY <2>1, TradedKept
    <2>3. CASE CanceledAt(s, o)
      <3>1. Held(o)' = 0  BY <1>4, <2>3 DEF Held
      <3>2. Obligation(o, 0) = 0  BY ObligationLinear
      <3> QED BY <1>6, <2>3, <3>1, <3>2 DEF After, CanceledAt
    <2>4. CASE ~CanceledAt(s, o)
      <3>1. Held(o)' = Held(o)  BY <1>3, <1>4, <2>2, <2>4 DEF Held
      <3> QED BY <1>5, <1>6, <1>8, <2>4, <3>1 DEF After, CanceledAt
    <2> QED BY <2>3, <2>4
  <1> QED BY <1>7, <1>8

LEMMA HeldKept ==
  ASSUME Inv, [Next]_vars, UNCHANGED <<trades, processed>>, NEW o \in Orders, Taken(o)' <=> Taken(o)
  PROVE  Held(o)' = Held(o)
  <1>1. \A s \in DOMAIN log : s \in DOMAIN log' /\ log'[s] = log[s]  BY LogKept
  <1>2. Traded(o)' = Traded(o)  BY <1>1, TradedKept
  <1>3. processed \subseteq DOMAIN log  BY DEF Inv, SettlementTypeOK
  <1>4. CancelSettled(o)' <=> CancelSettled(o)  BY <1>1, <1>3 DEF CancelSettled, CanceledAt
  <1> QED BY <1>2, <1>4 DEF Held

LEMMA CoverKept ==
  ASSUME Inv, [Next]_vars, LocksCoverHeld, UNCHANGED <<bal, trades, processed>>,
         \A o \in Orders : Taken(o)' <=> Taken(o)
  PROVE  LocksCoverHeld'
  <1>1. \A o \in Orders : Held(o)' = Held(o)  BY HeldKept
  <1>2. HeldOf' = HeldOf
    <2>1. HeldOf' = [o \in Orders |-> Obligation(o, Held(o)')]  BY DEF HeldOf, Obligation
    <2> QED BY <1>1, <2>1 DEF HeldOf
  <1> QED BY <1>2 DEF LocksCoverHeld, Cover, OfBalance, LockAsset

(* An event of the engine is of an order that has one already, or of the   *)
(* order it was asked to place.                                            *)
LEMMA TouchEngine ==
  ASSUME Inv, FlowInv, EngineStep, NEW p \in Orders
  PROVE  /\ Touched(p) => Touched(p)'
         /\ Touched(p)' => Touched(p) \/ Asked(p)
  <1>0. /\ queue \in [Conn -> Seq(Message)] /\ log \in Seq(Event) /\ live \in [Orders -> Nat] /\ BookLogged
    BY DEF Inv, SettlementTypeOK, FlowInv
  <1>1. CASE log' = log  BY <1>1, TouchKept
  <1>2. ASSUME NEW e, log' = Append(log, e), \A o \in Names(e) : o \in Orders => Touched(o) \/ Asked(o)
        PROVE  (Touched(p) => Touched(p)') /\ (Touched(p)' => Touched(p) \/ Asked(p))
    BY <1>0, <1>2, TouchEmit
  <1>3. ASSUME NEW m \in Orders, EngineFill(m), NEW e, log' = Append(log, e), Names(e) = {busy.id, m}
        PROVE  \A o \in Names(e) : o \in Orders => Touched(o) \/ Asked(o)
    <2>1. live[m] > 0 /\ busy # None  BY <1>3 DEF EngineFill, BestMakers, Makers
    <2> QED BY <1>0, <1>3, <2>1 DEF BookLogged
  <1>4. ASSUME NEW m \in Orders, EngineFill(m)
        PROVE  (Touched(p) => Touched(p)') /\ (Touched(p)' => Touched(p) \/ Asked(p))
    <2>1. PICK o, q : o = busy.id /\ q = IF live[o] < live[m] THEN live[o] ELSE live[m]  OBVIOUS
    <2>2. PICK e : e = [kind |-> "fill", taker |-> o, maker |-> m, price |-> Ord[m].price, qty |-> q]  OBVIOUS
    <2>3. log' = Append(log, e) /\ Names(e) = {o, m}  BY <1>4, <2>1, <2>2 DEF EngineFill, Emit, Names
    <2> QED BY <1>2, <1>3, <1>4, <2>1, <2>3
  <1>5. CASE EngineAnswer
    <2>1. PICK e : e = [kind |-> "canceled", id |-> busy.id]  OBVIOUS
    <2>2. log' = log \/ (log' = Append(log, e) /\ Names(e) = {busy.id})
      BY <1>5, <2>1 DEF EngineAnswer, Emit, Names
    <2>3. Touched(busy.id)  BY <1>0, <1>5 DEF EngineAnswer, BookLogged
    <2> QED BY <1>1, <1>2, <2>2, <2>3
  <1>6. ASSUME NEW c \in Conn, EngineReject(c) \/ EngineAccept(c) \/ EngineCancel(c) \/ Broadcast(c)
        PROVE  (Touched(p) => Touched(p)') /\ (Touched(p)' => Touched(p) \/ Asked(p))
    <2>1. PICK o : o = Head(queue[c]).id  OBVIOUS
    <2>2. CASE EngineReject(c) \/ Broadcast(c)  BY <1>1, <2>2 DEF EngineReject, Broadcast
    <2>3. CASE EngineAccept(c)
      <3>1. PICK e : e = [kind |-> "accepted", id |-> o]  OBVIOUS
      <3>2. log' = Append(log, e) /\ Names(e) = {o} /\ Fetches(c, "place")
        BY <2>1, <2>3, <3>1 DEF EngineAccept, Emit, Names
      <3>3. Head(queue[c]) = queue[c][1] /\ 1 \in DOMAIN queue[c]  BY <1>0, <3>2, AskFetch DEF Fetches
      <3>4. Asked(o)  BY <2>1, <3>2, <3>3 DEF Asked, AsksAt, Fetches
      <3> QED BY <1>2, <3>2, <3>4
    <2>4. CASE EngineCancel(c)
      <3>1. PICK e : e = [kind |-> "canceled", id |-> o]  OBVIOUS
      <3>2. log' = log \/ (live[o] > 0 /\ log' = Append(log, e) /\ Names(e) = {o})
        BY <2>1, <2>4, <3>1 DEF EngineCancel, Emit, Names
      <3>3. o \in Orders  BY <2>1, <2>4, Fetched DEF Inv, EngineCancel
      <3>4. live[o] > 0 => Touched(o)  BY <1>0, <3>3 DEF BookLogged
      <3> QED BY <1>1, <1>2, <3>2, <3>4
    <2> QED BY <1>6, <2>2, <2>3, <2>4
  <1> QED BY <1>4, <1>5, <1>6 DEF EngineStep

(* The lock is taken, or released after a reject. *)
LEMMA CoverLock ==
  ASSUME Inv, FlowInv, Agree, TakenFair, LocksCoverHeld, Inv', FlowInv', TakenFair', [Next]_vars,
         NEW o \in Orders, TryLockBalance(o) \/ UnlockBalance(o)
  PROVE  LocksCoverHeld'
  <1>0. /\ pc \in [Orders -> {"none", "checked", "locked", "inserted", "sent", "unlocking", "leaked", "done"}]
        /\ bal \in Balances /\ bal' \in Balances /\ Ord[o].qty \in Nat /\ UNCHANGED <<log, trades, processed>>
    <2>1. UNCHANGED <<log, trades, processed>>  BY DEF TryLockBalance, UnlockBalance
    <2>2. bal \in Balances  BY DEF Inv, SettlementTypeOK, Balances
    <2>3. bal' \in Balances  BY DEF Inv, SettlementTypeOK, Balances
    <2> QED BY <2>1, <2>2, <2>3, OrderType DEF Inv, SettlementTypeOK
  <1>1. PICK h, k : h = HeldOf /\ k = HeldOf'  OBVIOUS
  <1>2. HeldSound /\ HeldSound'
    <2>1. HeldSound  BY HeldIsSound
    <2>2. HeldSound'  BY HeldIsSound, PTL
    <2> QED BY <2>1, <2>2
  <1>3. h = [p \in Orders |-> Obligation(p, Held(p))] /\ k = [p \in Orders |-> Obligation(p, Held(p)')]
    BY <1>1 DEF HeldOf, Obligation
  <1>4. \A p \in Orders : Held(p) \in Nat /\ Held(p)' \in Nat  BY <1>2 DEF HeldSound
  <1>5. h \in [Orders -> Int] /\ k \in [Orders -> Int]
    <2>1. \A p \in Orders : Obligation(p, Held(p)) \in Int /\ Obligation(p, Held(p)') \in Int
      BY <1>4, ObligationLinear
    <2> QED BY <1>3, <2>1
  <1>6. Cover(bal, h)  BY <1>1 DEF LocksCoverHeld
  <1>7. \A p \in Orders : p # o => k[p] = h[p]
    <2> SUFFICES ASSUME NEW p \in Orders, p # o PROVE k[p] = h[p]  OBVIOUS
    <2>1. pc'[p] = pc[p]  BY <1>0 DEF TryLockBalance, UnlockBalance
    <2>2. Taken(p)' <=> Taken(p)  BY <1>0, <2>1, TouchKept DEF Taken
    <2>3. Held(p)' = Held(p)  BY <1>0, <2>2, HeldKept
    <2> QED BY <1>3, <2>3
  <1>8. ~Touched(o) /\ ~Touched(o)'
    <2>1. ~Touched(o)
      BY DEF TryLockBalance, UnlockBalance, Agree, AgreeOn, FlowInv, PlacedOnce, NotYetSent, Early
    <2> QED BY <1>0, <2>1, TouchKept
  <1>9. Traded(o) = 0 /\ Traded(o)' = 0
    <2>1. Traded(o) = 0  BY <1>8, UntouchedSums DEF FlowInv
    <2> QED BY <1>0, <2>1, TradedKept
  <1>10. ~CancelSettled(o)  BY <1>8, CancelNames DEF CancelSettled, Inv, SettlementTypeOK
  <1>11. PICK x : x = Obligation(o, Ord[o].qty)  OBVIOUS
  <1>12. x \in Int /\ Obligation(o, 0) = 0 /\ (Fair(o) => x \in Nat)
    <2>1. Ord[o].qty <= Ord[o].qty  BY <1>0
    <2> QED BY <1>0, <1>11, <2>1, ObligationLinear
  <1>13. ASSUME NEW y \in Int, k[o] - h[o] <= y, bal' = Lock(bal, o, y) PROVE LocksCoverHeld'
    <2>1. -y \in Int  OBVIOUS
    <2>2. bal' = Move(bal, Ord[o].user, LockAsset(o), -y, y)  BY <1>13 DEF Lock
    <2>3. /\ bal \in Balances /\ o \in Orders /\ -y \in Int /\ y \in Int /\ h \in [Orders -> Int]
          /\ k \in [Orders -> Int] /\ Cover(bal, h) /\ k[o] - h[o] <= y
          /\ \A p \in Orders : p # o => k[p] = h[p]
      BY <1>0, <1>5, <1>6, <1>7, <1>13, <2>1
    <2>4. Cover(Move(bal, Ord[o].user, LockAsset(o), -y, y), k)  BY ONLY <2>3, CoverMove
    <2>5. Cover(bal', k)  BY <2>2, <2>4
    <2> QED BY <1>1, <2>5 DEF LocksCoverHeld, Cover, OfBalance, LockAsset
  <1>14. ASSUME k[o] <= h[o], bal' = bal PROVE LocksCoverHeld'
    <2>1. \A p \in Orders : k[p] <= h[p]
      <3>1. \A p \in Orders : k[p] \in Int /\ h[p] \in Int  BY <1>5
      <3> QED BY <1>7, <1>14, <3>1
    <2>2. \A u \in Users, a \in Asset : bal[u][a].locked <= bal[u][a].locked  BY <1>0 DEF Balances
    <2>3. Cover(bal, k)  BY <1>0, <1>5, <1>6, <2>1, <2>2, CoverLess
    <2> QED BY <1>1, <1>14, <2>3 DEF LocksCoverHeld, Cover, OfBalance, LockAsset
  <1>15. CASE TryLockBalance(o)
    <2>1. pc[o] = "checked" /\ ~Taken(o)  BY <1>8, <1>15 DEF TryLockBalance, Taken
    <2>2. Held(o) = 0 /\ h[o] = 0  BY <1>3, <1>12, <2>1 DEF Held
    <2>3. CASE bal' = Lock(bal, o, Obligation(o, Ord[o].qty)) /\ pc'[o] = "locked"
      <3>0. Fair(o)
        <4>1. Taken(o)'  BY <2>3 DEF Taken
        <4> QED BY <4>1 DEF TakenFair, Fair
      <3>1. Held(o)' = 0 \/ Held(o)' = Ord[o].qty - Traded(o)'  BY DEF Held
      <3>2. k[o] <= x  BY <1>0, <1>3, <1>9, <1>11, <1>12, <3>0, <3>1
      <3>3. k[o] \in Int /\ k[o] - h[o] <= x  BY <1>5, <1>12, <2>2, <3>2
      <3> QED BY <1>11, <1>12, <1>13, <2>3, <3>3
    <2>4. CASE bal' = bal /\ pc'[o] = "done"
      <3>1. ~Taken(o)'  BY <1>8, <2>4 DEF Taken
      <3>2. Held(o)' = 0  BY <3>1 DEF Held
      <3>3. k[o] = 0  BY <1>3, <1>12, <3>2
      <3> QED BY <1>14, <2>2, <2>4, <3>3
    <2> QED BY <1>0, <1>15, <2>3, <2>4 DEF TryLockBalance
  <1>16. CASE UnlockBalance(o)
    <2>1. pc[o] = "unlocking" /\ pc'[o] = "done"  BY <1>0, <1>16 DEF UnlockBalance
    <2>2. Taken(o) /\ ~Taken(o)'  BY <1>8, <2>1 DEF Taken
    <2>3. Held(o) = Ord[o].qty - Traded(o) /\ Held(o)' = 0  BY <1>10, <2>2 DEF Held
    <2>4. h[o] = x /\ k[o] = 0  BY <1>0, <1>3, <1>9, <1>11, <1>12, <2>3
    <2>5. bal' = Lock(bal, o, -x) \/ bal' = bal  BY <1>11, <1>16 DEF UnlockBalance
    <2>6. -x \in Int /\ k[o] - h[o] <= -x /\ k[o] <= h[o]  BY <1>12, <2>2, <2>4 DEF TakenFair
    <2> QED BY <1>13, <1>14, <2>5, <2>6
  <1> QED BY <1>15, <1>16

LEMMA NextCovers ==
  ASSUME Inv, FlowInv, InOrder, CancelsLast, Agree, Priced, TakenFair, LocksCoverHeld,
         Inv', FlowInv', TakenFair', CalmStep
  PROVE  LocksCoverHeld'
  <1>0. /\ pc \in [Orders -> {"none", "checked", "locked", "inserted", "sent", "unlocking", "leaked", "done"}]
        /\ [Next]_vars
    BY DEF Inv, SettlementTypeOK, CalmStep
  <1>1. ASSUME NEW o \in Orders,
               PlaceOrder(o) \/ CancelOrder(o) \/ InsertPending(o) \/ Send(o) \/ Rejected(o) \/ Acked(o) \/ CancelAnswered(o)
        PROVE  LocksCoverHeld'
    <2>1. UNCHANGED <<bal, trades, processed, log>>
      BY <1>1 DEF PlaceOrder, CancelOrder, InsertPending, Send, Rejected, Acked, CancelAnswered
    <2>2. \A p : Touched(p)' <=> Touched(p)  BY <2>1, TouchKept
    <2>3. \A p \in Orders : p # o => pc'[p] = pc[p]
      BY <1>0, <1>1 DEF PlaceOrder, CancelOrder, InsertPending, Send, Rejected, Acked, CancelAnswered
    <2>4. Taken(o)' <=> Taken(o)
      <3>1. CASE Acked(o)
        <4>1. Touched(o)  BY <3>1 DEF Acked, Agree, AgreeOn
        <4> QED BY <2>2, <4>1 DEF Taken
      <3>2. CASE ~Acked(o)
        BY <1>0, <1>1, <2>2, <3>2 DEF PlaceOrder, CancelOrder, InsertPending, Send, Rejected, CancelAnswered, Taken
      <3> QED BY <3>1, <3>2
    <2>5. \A p \in Orders : Taken(p)' <=> Taken(p)  BY <2>2, <2>3, <2>4 DEF Taken
    <2> QED BY <1>0, <2>1, <2>5, CoverKept
  <1>2. CASE EngineStep
    <2>1. UNCHANGED <<bal, trades, processed, pc>>
      BY <1>2 DEF EngineStep, EngineReject, EngineAccept, EngineCancel, Broadcast, EngineFill, EngineAnswer
    <2>2. \A p \in Orders : (Touched(p) => Touched(p)') /\ (Touched(p)' => Touched(p) \/ Asked(p))
      BY <1>2, TouchEngine
    <2>3. \A p \in Orders : Asked(p) => pc[p] = "sent"  BY DEF Agree, AgreeOn
    <2>4. \A p \in Orders : Taken(p)' <=> Taken(p)  BY <2>1, <2>2, <2>3 DEF Taken
    <2> QED BY <1>0, <2>1, <2>4, CoverKept
  <1>3. CASE PersistEvent \/ Reconnect \/ UNCHANGED vars
    <2>1. UNCHANGED <<bal, trades, processed, pc, log>>
      BY <1>3 DEF PersistEvent, Reconnect, vars, db, api, engine, bridge
    <2>2. \A p \in Orders : Taken(p)' <=> Taken(p)  BY <2>1, TouchKept DEF Taken
    <2> QED BY <1>0, <2>1, <2>2, CoverKept
  <1>4. ASSUME NEW s \in stored, ProcessNext(s) PROVE LocksCoverHeld'
    <2>1. IsNext(s) /\ bal' = NewBal(s)  BY <1>4 DEF ProcessNext
    <2>2. Cover(NewBal(s), After(s))  BY <2>1, SettleCovers
    <2>3. \A o \in Orders : Obligation(o, Held(o))' = After(s)[o]  BY <1>4, HeldSettled
    <2>4. HeldOf' = After(s)
      <3>1. HeldOf' = [o \in Orders |-> Obligation(o, Held(o))']  BY DEF HeldOf
      <3>2. After(s) = [o \in Orders |-> After(s)[o]]  BY DEF After
      <3> QED BY <2>3, <3>1, <3>2
    <2>5. Cover(bal', HeldOf')  BY <2>1, <2>2, <2>4
    <2> QED BY <2>5 DEF LocksCoverHeld, Cover, OfBalance, LockAsset
  <1>5. CASE \E o \in Orders : TryLockBalance(o) \/ UnlockBalance(o)  BY <1>0, <1>5, CoverLock
  <1> QED BY <1>1, <1>2, <1>3, <1>4, <1>5 DEF CalmStep, Next, ApiStep, Worker

-----------------------------------------------------------------------------
(* Together. *)

(* As long as nothing fails, events stay in order, the handlers agree with *)
(* the tables, and the locks cover what is not yet settled.                *)
CalmInv == Calm => InOrder /\ Agree /\ LocksCoverHeld

AllInv == Inv /\ FlowInv /\ CancelsLast /\ Priced /\ failures \in Nat /\ CalmInv

(* The locks of the orders that have one are not negative then. *)
LEMMA CalmIsFair ==
  ASSUME Inv, Priced, Agree, Calm
  PROVE  TakenFair
  <1> SUFFICES ASSUME NEW o \in Orders, Taken(o) PROVE Fair(o)  BY DEF TakenFair
  <1>1. Ord[o].price \in Int  BY OrderType
  <1>2. CASE pc[o] \in {"locked", "leaked"}
    <2>1. o \notin Loosening  BY DEF Calm
    <2> QED BY <1>1, <1>2, <2>1 DEF Loosening, Fair
  <1>3. CASE pc[o] \in {"inserted", "sent"}  BY <1>1, <1>3 DEF Inv, RowKept, Priced, Fair
  <1>4. CASE pc[o] = "unlocking"  BY <1>1, <1>4 DEF Priced, Fair
  <1>5. CASE Touched(o)  BY <1>1, <1>5 DEF Agree, AgreeOn, Priced, Fair
  <1> QED BY <1>2, <1>3, <1>4, <1>5 DEF Taken

LEMMA InitAll == Init => AllInv
  <1> SUFFICES ASSUME Init PROVE AllInv  OBVIOUS
  <1>1. Inv /\ FlowInv  BY InitInv, InitFlow
  <1>2. log = <<>> /\ DOMAIN log = {}  BY DEF Init
  <1>3. CancelsLast /\ failures \in Nat  BY <1>2 DEF CancelsLast, Init
  <1>4. InOrder
    <2>1. /\ link /\ queue["direct"] = <<>> /\ bundle["direct"] = <<>> /\ bundle["api"] = <<>>
          /\ busy = None /\ channel = <<>> /\ processed = {} /\ stored = {} /\ Len(log) = 0
      BY <1>2, BundleType, <1>1 DEF Init
    <2>2. DOMAIN channel = {} /\ DOMAIN bundle["api"] = {} /\ Len(channel) = 0 /\ Len(bundle["api"]) = 0  BY <2>1
    <2>3. InOrderAt(0, 0)  BY <2>1, <2>2 DEF InOrderAt
    <2> QED BY <2>1, <2>3 DEF InOrder, OnlyApi
  <1>5. \A o \in Orders : ~Asked(o) /\ ~Touched(o)
    <2>1. \A c \in Conn : DOMAIN queue[c] = {}  BY DEF Init
    <2> QED BY <1>2, <2>1 DEF Asked, Touched
  <1>6. Agree
    <2>1. "rejected" # None  BY SettlementAssumption
    <2> QED BY <1>5, <2>1 DEF Init, Agree, AgreeOn
  <1>7. LocksCoverHeld
    <2>1. \A o \in Orders : Held(o) = 0  BY <1>5 DEF Held, Taken, Init
    <2>a. 0 \in Nat /\ 0 <= 0  OBVIOUS
    <2>b. \A o \in Orders : Obligation(o, 0) = 0  BY <2>a, ObligationLinear
    <2>2. \A o \in Orders : HeldOf[o] = 0  BY <2>1, <2>b DEF HeldOf
    <2>3. ASSUME NEW u \in Users, NEW a \in Asset
          PROVE  bal[u][a].locked >= SumFunctionOnSet(HeldOf, OfBalance(u, a))
      <3>1. PICK S : S = OfBalance(u, a)  OBVIOUS
      <3>2. IsFiniteSet(S) /\ S \subseteq Orders  BY <3>1, OfBalanceFinite
      <3>3. SumFunctionOnSet(HeldOf, S) = Cardinality(S) * 0  BY <2>2, <3>2, SumConst
      <3>4. Cardinality(S) \in Nat  BY <3>2, FS_CardinalityType
      <3>5. bal[u][a].locked = 0  BY DEF Init
      <3> QED BY <3>1, <3>3, <3>4, <3>5
    <2> QED BY <2>3 DEF LocksCoverHeld, Cover
  <1>8. Priced  BY <1>2 DEF Priced, Init
  <1> QED BY <1>1, <1>3, <1>4, <1>6, <1>7, <1>8 DEF AllInv, CalmInv

LEMMA NextAll == AllInv /\ [Next]_vars => AllInv'
  <1> SUFFICES ASSUME AllInv, [Next]_vars PROVE AllInv'  OBVIOUS
  <1>1. Inv /\ FlowInv /\ CancelsLast /\ Priced /\ failures \in Nat  BY DEF AllInv
  <1>2. Inv' /\ FlowInv' /\ CancelsLast' /\ Priced'  BY <1>1, NextInv, NextFlow, NextCancels, NextPriced
  <1>3. failures' \in Nat  BY <1>1, CalmBefore
  <1>4. ASSUME Calm' PROVE InOrder' /\ Agree' /\ LocksCoverHeld'
    <2>1. /\ Calm /\ ~ConnectionBreaks /\ ~Disconnect
          /\ \A o \in Orders : ~GiveUp(o) /\ ~CancelGivesUp(o) /\ ~PlaceDirect(o)
      BY <1>1, <1>4, CalmBefore
    <2>2. InOrder /\ Agree /\ LocksCoverHeld  BY <2>1 DEF AllInv, CalmInv
    <2>a. TakenFair  BY <1>1, <2>1, <2>2, CalmIsFair
    <2>3. \A s \in stored : ~ProcessFails(s)  BY <1>1, <2>2, <2>a, SettleCovers DEF ProcessFails
    <2>4. CalmStep  BY <2>1, <2>3 DEF CalmStep
    <2>5. InOrder' /\ Agree'  BY <1>1, <2>2, <2>4, NextOrder, NextAgree
    <2>6. Inv /\ Priced /\ Agree /\ Calm => TakenFair  BY CalmIsFair
    <2>7. (Inv /\ Priced /\ Agree /\ Calm => TakenFair)'  BY CalmIsFair, PTL
    <2>8. TakenFair'  BY <1>2, <1>4, <2>5, <2>7
    <2> QED BY <1>1, <1>2, <2>2, <2>4, <2>5, <2>8, <2>a, NextCovers
  <1>5. CalmInv'  BY <1>4 DEF CalmInv
  <1> QED BY <1>2, <1>3, <1>5 DEF AllInv

LEMMA AllAlways == Spec => []AllInv
  BY InitAll, NextAll, PTL DEF Spec

LEMMA AllApply == AllInv => EventsApply
  <1> SUFFICES ASSUME AllInv PROVE EventsApply  OBVIOUS
  <1>1. Inv /\ FlowInv /\ CancelsLast /\ Priced  BY DEF AllInv
  <1>2. FilledMatchesTrades  BY <1>1, FlowFills
  <1>3. ASSUME Calm, NEW s \in Unprocessed, IsNext(s) PROVE Settleable(s)
    <2>1. InOrder /\ Agree /\ LocksCoverHeld  BY <1>3 DEF AllInv, CalmInv
    <2>2. s \in stored  BY DEF Unprocessed
    <2>3. TakenFair  BY <1>1, <1>3, <2>1, CalmIsFair
    <2> QED BY <1>1, <1>3, <2>1, <2>2, <2>3, SettleCovers
  <1> QED BY <1>2, <1>3 DEF EventsApply, NoPoisonEvent

(* What the book has left of an order is held for it. *)
LEMMA AllCover == AllInv => CalmLocksCoverLive
  <1> SUFFICES ASSUME AllInv, Calm, NEW u \in Users, NEW a \in Asset
               PROVE  bal[u][a].locked >= Owed(u, a)
    BY DEF CalmLocksCoverLive, LocksCoverLive
  <1>1. Inv /\ FlowInv /\ CancelsLast /\ LocksCoverHeld /\ Priced /\ Agree  BY DEF AllInv, CalmInv
  <1>a. TakenFair  BY <1>1, CalmIsFair
  <1>2. HeldSound  BY <1>1, <1>a, HeldIsSound
  <1>3. ASSUME NEW o \in Orders
        PROVE  /\ HeldOf[o] \in Int /\ Obligation(o, live[o]) \in Int /\ Obligation(o, live[o]) <= HeldOf[o]
    <2>1. live[o] \in Nat /\ Ord[o].qty \in Nat  BY <1>1, OrderType DEF Inv, SettlementTypeOK
    <2>2. Held(o) \in Nat /\ HeldOf[o] = Obligation(o, Held(o))  BY <1>2 DEF HeldSound
    <2>3. live[o] <= Held(o)
      <3>1. CASE live[o] > 0
        <4>1. Touched(o)  BY <1>1, <3>1 DEF FlowInv, BookLogged
        <4>2. ~CancelSettled(o)  BY <1>1, <3>1, LiveNotCanceled DEF CancelSettled, Inv, SettlementTypeOK
        <4>3. Held(o) = Ord[o].qty - Traded(o)  BY <4>1, <4>2 DEF Held, Taken
        <4>4. Traded(o) \in Nat /\ Logged(o) \in Nat  BY <1>1, LogSumsHold DEF LogSums
        <4>5. Traded(o) <= Logged(o)  BY <1>1, TradedBound DEF FlowInv
        <4>6. Logged(o) + live[o] <= Ord[o].qty  BY <1>1 DEF FlowInv, NeverOverfilled
        <4> QED BY <2>1, <4>3, <4>4, <4>5, <4>6
      <3>2. CASE ~(live[o] > 0)  BY <2>1, <2>2, <3>2
      <3> QED BY <3>1, <3>2
    <2>4. /\ Obligation(o, live[o]) \in Int /\ Obligation(o, Held(o)) \in Int
          /\ Obligation(o, live[o]) <= Obligation(o, Held(o))
      <3>1. CASE Taken(o)  BY <1>a, <2>1, <2>2, <2>3, <3>1, ObligationLinear DEF TakenFair
      <3>2. CASE ~Taken(o)
        <4>1. Held(o) = 0 /\ live[o] = 0  BY <2>1, <2>3, <3>2 DEF Held
        <4>2. Obligation(o, 0) = 0  BY <2>1, <2>2, <2>3, ObligationLinear
        <4> QED BY <4>1, <4>2
      <3> QED BY <3>1, <3>2
    <2> QED BY <2>2, <2>4
  <1>4. PICK S, f : S = OfBalance(u, a) /\ f = [o \in S |-> Obligation(o, live[o])]  OBVIOUS
  <1>5. IsFiniteSet(S) /\ S \subseteq Orders /\ DOMAIN f = S  BY <1>4, OfBalanceFinite
  <1>6. Owed(u, a) = SumFunctionOnSet(f, S)  BY <1>4, <1>5 DEF Owed, SumFunction
  <1>7. \A o \in S : f[o] \in Int /\ HeldOf[o] \in Int /\ f[o] <= HeldOf[o]  BY <1>3, <1>4, <1>5
  <1>8. SumFunctionOnSet(f, S) <= SumFunctionOnSet(HeldOf, S)  BY <1>5, <1>7, SumMonotone
  <1>9. SumFunctionOnSet(f, S) \in Int /\ SumFunctionOnSet(HeldOf, S) \in Int  BY <1>5, <1>7, SumTake
  <1>10. bal[u][a].locked >= SumFunctionOnSet(HeldOf, S) /\ bal[u][a].locked \in Nat
    BY <1>1, <1>4 DEF LocksCoverHeld, Cover, Inv, SettlementTypeOK
  <1> QED BY <1>6, <1>8, <1>9, <1>10

(* PRD 9.3 INV-5, whatever fails: filled_quantity is the sum of the        *)
(* order's trades and never more than its quantity.  And as long as        *)
(* nothing fails, all orders come through the API and no buy order with a  *)
(* negative price has lowered a lock, process_next never meets an event it *)
(* cannot apply.                                                           *)
THEOREM EventsAreApplied == Spec => []EventsApply
  BY AllAlways, AllApply, PTL

(* PRD 9.3 INV-2, as long as nothing fails, all orders come through the    *)
(* API and no buy order with a negative price has lowered a lock: the      *)
(* locked balance covers what the book has left of the user's orders,      *)
(* however far settlement is behind the engine.                            *)
THEOREM LocksCoverBook == Spec => []CalmLocksCoverLive
  BY AllAlways, AllCover, PTL
=============================================================================
