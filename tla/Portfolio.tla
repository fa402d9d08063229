----------------------------- MODULE Portfolio -----------------------------
(* What the API computes for a customer from the tables while settlement   *)
(* and the faucet change them: the ledger in pages, profit and loss by     *)
(* FIFO lots, and the proof of reserves, a Merkle tree over liabilities.   *)
(* services/api/src/repositories/{account,proof}.rs and their handlers     *)
EXTENDS Integers, Sequences, FiniteSets, FiniteSetsExt, SequencesExt

CONSTANTS
  Null,
  Customers,        \* accounts that are not closed
  Client,           \* the customer whose history and PnL are read
  Maker,            \* the user with is_mm, left out of the proof
  Slots,            \* <<asset, user>> by asset symbol, then user id
  StartBalances,    \* bound: balances at the start
  FaucetMax,        \* assets.faucet_max
  TakerFeeBps, MakerFeeBps,   \* fee rates
  Prices, Amounts,  \* bound: trade prices and quantities
  ProofRequests,    \* bound: concurrent proof requests
  PageLimit,        \* limit of a history page
  MaxDeposits, MaxTrades,   \* bounds: faucet calls; trades (one where no PnL is asked for)
  Activities        \* bound: requests explored together

Users  == Customers \cup {Maker}
Assets == {"BTC", "USDT"}
Rows   == {<<a, u>> : a \in Assets, u \in Users}

ASSUME PortfolioAssumption ==
  /\ Null \notin Nat
  /\ Client \in Customers /\ Maker \notin Customers
  /\ ToSet(Slots) = Rows /\ IsInjective(Slots)
  /\ StartBalances \subseteq [Rows -> Nat]
  /\ Prices \cup Amounts \subseteq Nat \ {0}
  /\ {FaucetMax, PageLimit} \subseteq Nat \ {0}
  /\ {TakerFeeBps, MakerFeeBps, MaxDeposits, MaxTrades} \subseteq Nat

VARIABLES
  balances,   \* balances: available + locked, per row
  ledger,     \* ledger_entries: committed entries
  nextId,     \* sequence of ledger_entries.id
  deposits,   \* faucet transactions that have updated their row and not ended
  given,      \* faucet transactions begun so far
  trades,     \* trades, in the order of created_at, engine_seq
  price,      \* close of the newest 1m kline, or Null
  proofs,     \* proof_of_reserves, oldest first
  prover,     \* ensure_current_snapshot in progress, per request
  pnl,        \* get_pnl in progress
  pager,      \* a client that reads its ledger page by page
  active

vars == <<balances, ledger, nextId, deposits, given, trades, price, proofs, prover, pnl, pager, active>>

Init ==
  /\ balances \in StartBalances
  /\ ledger = {} /\ nextId = 1 /\ deposits = {} /\ given = 0
  /\ trades = <<>> /\ price = Null /\ proofs = <<>>
  /\ prover = [r \in ProofRequests |-> [at |-> "idle"]]
  /\ pnl = [at |-> "idle"]
  /\ pager = [at |-> "idle"]
  /\ active \in Activities

-----------------------------------------------------------------------------
(* The faucet: the update locks the row until the transaction ends, the    *)
(* entry takes its id and is visible with the commit.                      *)
Locked(row) == \E d \in deposits : d.row = row

Faucet(row, amount) ==
  /\ "faucet" \in active /\ row[2] \in Customers /\ given < MaxDeposits
  /\ amount > 0 /\ amount <= FaucetMax
  /\ ~Locked(row)
  /\ deposits' = deposits \cup {[row |-> row, amount |-> amount, id |-> nextId]}
  /\ nextId' = nextId + 1 /\ given' = given + 1
  /\ UNCHANGED <<balances, ledger, trades, price, proofs, prover, pnl, pager, active>>

FaucetCommits(d) ==
  /\ d \in deposits
  /\ deposits' = deposits \ {d}
  /\ balances' = [balances EXCEPT ![d.row] = @ + d.amount]
  /\ ledger' = ledger \cup {[id |-> d.id, row |-> d.row, amount |-> d.amount,
                             after |-> balances[d.row] + d.amount]}
  /\ UNCHANGED <<nextId, given, trades, price, proofs, prover, pnl, pager, active>>

FaucetFails(d) ==
  /\ "faults" \in active /\ d \in deposits
  /\ deposits' = deposits \ {d}
  /\ UNCHANGED <<balances, ledger, nextId, given, trades, price, proofs, prover, pnl, pager, active>>

(* settle_fill as far as these tables go: one transaction with six entries. *)
(* The fee named taker's is the buyer's, the one named maker's the seller's, *)
(* whoever was the taker.  The code's quotient is exact until the column     *)
(* rounds it at the 18th decimal; here a fee is rounded down to a unit.      *)
FeeAmount(gross, bps) == (gross * bps) \div 10000
Moves(t) ==
  LET buyer    == IF t.side = "buy" THEN t.taker ELSE t.maker
      seller   == IF t.side = "buy" THEN t.maker ELSE t.taker
      notional == t.price * t.quantity
  IN  <<[row |-> <<"BTC", buyer>>,   amount |-> t.quantity],
        [row |-> <<"BTC", buyer>>,   amount |-> -FeeAmount(t.quantity, TakerFeeBps)],
        [row |-> <<"USDT", buyer>>,  amount |-> -notional],
        [row |-> <<"USDT", seller>>, amount |-> notional],
        [row |-> <<"USDT", seller>>, amount |-> -FeeAmount(notional, MakerFeeBps)],
        [row |-> <<"BTC", seller>>,  amount |-> -t.quantity]>>

(* The balance of a row behind the first n entries of the trade. *)
BalanceAfter(t, row, n) ==
  balances[row] +
    SumFunctionOnSet([i \in 1..6 |-> IF Moves(t)[i].row = row THEN Moves(t)[i].amount ELSE 0], 1..n)

(* The ids of the entries are taken and committed in one step: the rows stay *)
(* locked from the first of them to the commit, so nobody writes to a row in *)
(* between.                                                                  *)
SettleFill(t) ==
  /\ "trade" \in active /\ Len(trades) < (IF "pnl" \in active THEN MaxTrades ELSE 1)
  /\ \A i \in 1..6 : LET row == Moves(t)[i].row IN ~Locked(row) /\ BalanceAfter(t, row, i) >= 0
  /\ trades' = Append(trades, t)
  /\ balances' = [row \in Rows |-> BalanceAfter(t, row, 6)]
  /\ ledger' = ledger \cup {[id |-> nextId + i - 1, row |-> Moves(t)[i].row,
       amount |-> Moves(t)[i].amount, after |-> BalanceAfter(t, Moves(t)[i].row, i)] : i \in 1..6}
  /\ nextId' = nextId + 6
  /\ UNCHANGED <<deposits, given, price, proofs, prover, pnl, pager, active>>

(* upsert_kline of the market-data worker. *)
NewPrice(p) ==
  /\ "pnl" \in active /\ p # price
  /\ price' = p
  /\ UNCHANGED <<balances, ledger, nextId, deposits, given, trades, proofs, prover, pnl, pager, active>>

-----------------------------------------------------------------------------
(* get_history: pages of the client's entries, newest first.               *)
Mine == {e \in ledger : e.row[2] = Client}

(* ORDER BY id DESC LIMIT n: so many entries of S precede the i-th one.    *)
NewestFirst(S, n) ==
  [i \in 1..Min({n, Cardinality(S)}) |->
     CHOOSE e \in S : Cardinality({d \in S : d.id > e.id}) = i - 1]

(* A mutant: the cursor's own entry comes again.                           *)
PageFromCursor(cursor) ==
  NewestFirst({e \in Mine : cursor = Null \/ e.id <= cursor}, PageLimit)

LedgerHistory(cursor) ==
  NewestFirst({e \in Mine : cursor = Null \/ e.id < cursor}, PageLimit)

StartHistory ==
  /\ "history" \in active /\ pager.at = "idle"
  /\ pager' = [at |-> "paging", cursor |-> Null, got |-> <<>>, present |-> Mine]
  /\ UNCHANGED <<balances, ledger, nextId, deposits, given, trades, price, proofs, prover, pnl, active>>

GetHistory ==
  /\ pager.at = "paging"
  /\ LET page == LedgerHistory(pager.cursor) IN
       pager' = IF page = <<>> THEN [pager EXCEPT !.at = "done"]
                ELSE [pager EXCEPT !.cursor = Last(page).id, !.got = @ \o page]
  /\ UNCHANGED <<balances, ledger, nextId, deposits, given, trades, price, proofs, prover, pnl, active>>

-----------------------------------------------------------------------------
(* PnlState: lots in the order of purchase. *)
Buy(s, quantity, cost) == [s EXCEPT !.lots = Append(@, [quantity |-> quantity, cost |-> cost])]

(* A mutant: the youngest lot is sold first.                               *)
SellNewest(s, quantity, p) ==
  LET Take(acc, lot) ==
        LET consumed == Min({lot.quantity, acc.left}) IN
        [lots |-> IF lot.quantity = consumed THEN acc.lots
                  ELSE <<[lot EXCEPT !.quantity = @ - consumed]>> \o acc.lots,
         left |-> acc.left - consumed, gain |-> acc.gain + (p - lot.cost) * consumed]
      end == FoldLeft(Take, [lots |-> <<>>, left |-> quantity, gain |-> 0], Reverse(s.lots))
  IN  [lots |-> end.lots, realised |-> s.realised + end.gain + p * end.left]

(* sell: lots from the front; what exceeds them has no cost.               *)
Sell(s, quantity, p) ==
  LET Take(acc, lot) ==
        LET consumed == Min({lot.quantity, acc.left}) IN
        [lots |-> IF lot.quantity = consumed THEN acc.lots
                  ELSE Append(acc.lots, [lot EXCEPT !.quantity = @ - consumed]),
         left |-> acc.left - consumed, gain |-> acc.gain + (p - lot.cost) * consumed]
      end == FoldLeft(Take, [lots |-> <<>>, left |-> quantity, gain |-> 0], s.lots)
  IN  [lots |-> end.lots, realised |-> s.realised + end.gain + p * end.left]

RemainingQuantity(s) == FoldLeft(LAMBDA n, lot : n + lot.quantity, 0, s.lots)
RemainingCost(s) == FoldLeft(LAMBDA n, lot : n + lot.quantity * lot.cost, 0, s.lots)

(* pnl_trades: the client's side of its trades. *)
SideOf(t) == IF t.taker = Client THEN t.side ELSE IF t.side = "buy" THEN "sell" ELSE "buy"
PnlTrades ==
  [i \in DOMAIN SelectSeq(trades, LAMBDA t : Client \in {t.taker, t.maker}) |->
     LET t == SelectSeq(trades, LAMBDA u : Client \in {u.taker, u.maker})[i]
     IN  [side |-> SideOf(t), price |-> t.price, quantity |-> t.quantity]]

(* compute_pnl for the one base asset.  avg_cost is kept as the pair       *)
(* cost / quantity, so that unrealised stays an integer.                   *)
ComputePnl(rows, held, p) ==
  LET s == FoldLeft(LAMBDA acc, t : IF t.side = "buy" THEN Buy(acc, t.quantity, t.price)
                                     ELSE Sell(acc, t.quantity, t.price),
                    [lots |-> <<>>, realised |-> 0], rows)
      quantity == IF held > 0 THEN held ELSE RemainingQuantity(s)
  IN  [quantity |-> quantity, cost |-> IF quantity > 0 THEN RemainingCost(s) ELSE 0,
       realised |-> s.realised,
       unrealised |-> IF p = Null THEN Null
                      ELSE IF quantity > 0 THEN p * quantity - RemainingCost(s) ELSE 0]

PnlBalances     == balances[<<"BTC", Client>>]
PnlMarketPrices == price

(* pnl: three queries, one after the other, in no transaction. *)
PnlReads(step) ==
  /\ "pnl" \in active /\ pnl.at = step
  /\ CASE step = "idle"     -> pnl' = [at |-> "balances", rows |-> PnlTrades]
       [] step = "balances" -> pnl' = [at |-> "prices", rows |-> pnl.rows,
                                       held |-> PnlBalances]
       [] step = "prices"   -> pnl' = [at |-> "done", rows |-> pnl.rows, held |-> pnl.held,
                                       price |-> PnlMarketPrices,
                                       answer |-> ComputePnl(pnl.rows, pnl.held, PnlMarketPrices)]
  /\ UNCHANGED <<balances, ledger, nextId, deposits, given, trades, price, proofs, prover, pager, active>>

-----------------------------------------------------------------------------
(* Proof of reserves.  A hash is the term it is taken of: two hashes are   *)
(* equal only if their inputs are; a pair is hashed in sorted order.       *)
EmptyRoot      == [kind |-> "empty"]
HashLeaf(l)    == [kind |-> "leaf", liability |-> l]
HashPair(x, y) == [kind |-> "node", kids |-> {x, y}]

(* current_liabilities, in the order MerkleTree::new sorts them into.      *)
Owed(slot) == slot[2] \in Customers /\ balances[slot] > 0
CurrentLiabilities ==
  LET owed == SelectSeq(Slots, Owed) IN
  [i \in DOMAIN owed |-> [asset |-> owed[i][1], user |-> owed[i][2], total |-> balances[owed[i]]]]

(* A mutant: the last node of an odd level is dropped.                     *)
NextLevelPairs(level) == [i \in 1..(Len(level) \div 2) |-> HashPair(level[2 * i - 1], level[2 * i])]

NextLevel(level) ==
  [i \in 1..((Len(level) + 1) \div 2) |->
     IF 2 * i <= Len(level) THEN HashPair(level[2 * i - 1], level[2 * i]) ELSE level[2 * i - 1]]

(* The levels of merkle_root and proof_for_index, from the leaves to the   *)
(* root; a level of one node stays as it is.                               *)
Levels(leaves) ==
  LET level[n \in 0..Len(leaves)] ==
        IF n = 0 THEN leaves
        ELSE IF Len(level[n - 1]) > 1 THEN NextLevel(level[n - 1]) ELSE level[n - 1]
  IN  level

HashedLeaves(liabilities) == [i \in DOMAIN liabilities |-> HashLeaf(liabilities[i])]
MerkleRoot(liabilities) ==
  LET leaves == HashedLeaves(liabilities) IN
  IF leaves = <<>> THEN EmptyRoot ELSE Levels(leaves)[Len(leaves)][1]

(* proof_for_index, with the index counted from 0. *)
ProofForIndex(liabilities, index) ==
  LET level == Levels(HashedLeaves(liabilities))
      at[n \in 0..Len(liabilities)] == IF n = 0 THEN index ELSE at[n - 1] \div 2
      sibling(n) == IF at[n] % 2 = 0 THEN at[n] + 1 ELSE at[n] - 1
      step(acc, n) == IF Len(level[n]) > 1 /\ sibling(n) < Len(level[n])
                      THEN Append(acc, level[n][sibling(n) + 1]) ELSE acc
  IN  FoldLeft(step, <<>>, [n \in 1..Len(liabilities) |-> n - 1])

UserProofEntries(row, u) ==
  {[liability |-> row.liabilities[i], siblings |-> ProofForIndex(row.liabilities, i - 1)] :
     i \in {j \in DOMAIN row.liabilities : row.liabilities[j].user = u}}

VerifyProof(liability, siblings, root) ==
  FoldLeft(HashPair, HashLeaf(liability), siblings) = root

SummarizeLiabilities(row) ==
  [a \in Assets |-> FoldLeft(LAMBDA n, l : IF l.asset = a THEN n + l.total ELSE n, 0, row.liabilities)]

(* ensure_current_snapshot: liabilities, the latest row, perhaps a new     *)
(* row, each a statement of its own.                                       *)
ReadLiabilities(r) ==
  /\ "proof" \in active /\ prover[r].at = "idle"
  /\ prover' = [prover EXCEPT ![r] = [at |-> "latest", liabilities |-> CurrentLiabilities,
                                      root |-> MerkleRoot(CurrentLiabilities)]]
  /\ UNCHANGED <<balances, ledger, nextId, deposits, given, trades, price, proofs, pnl, pager, active>>

LatestSnapshot(r) ==
  /\ prover[r].at = "latest"
  /\ prover' = [prover EXCEPT ![r] =
       IF proofs # <<>> /\ Last(proofs).root = prover[r].root
       THEN [at |-> "done", read |-> prover[r].liabilities, row |-> Last(proofs)]
       ELSE [prover[r] EXCEPT !.at = "insert"]]
  /\ UNCHANGED <<balances, ledger, nextId, deposits, given, trades, price, proofs, pnl, pager, active>>

InsertSnapshot(r) ==
  /\ prover[r].at = "insert"
  /\ LET row == [root |-> prover[r].root, liabilities |-> prover[r].liabilities] IN
       /\ proofs' = Append(proofs, row)
       /\ prover' = [prover EXCEPT ![r] =
            [at |-> "done", read |-> prover[r].liabilities, row |-> row]]
  /\ UNCHANGED <<balances, ledger, nextId, deposits, given, trades, price, pnl, pager, active>>

-----------------------------------------------------------------------------
Trades == [taker: {Client}, maker: {Maker}, side: {"buy", "sell"}, price: Prices, quantity: Amounts]
          \cup [taker: {Maker}, maker: {Client}, side: {"buy", "sell"}, price: Prices, quantity: Amounts]

Money   == \/ \E row \in Rows, amount \in 0..(FaucetMax + 1) : Faucet(row, amount)
           \/ \E d \in deposits : FaucetCommits(d) \/ FaucetFails(d)
           \/ \E t \in Trades : SettleFill(t)
           \/ \E p \in Prices : NewPrice(p)
Reading == \/ StartHistory \/ GetHistory
           \/ \E step \in {"idle", "balances", "prices"} : PnlReads(step)
Proving == \E r \in ProofRequests : ReadLiabilities(r) \/ LatestSnapshot(r) \/ InsertSnapshot(r)

Next == Money \/ Reading \/ Proving
Spec == Init /\ [][Next]_vars

-----------------------------------------------------------------------------
(* Type invariant of the tables. *)
PortfolioTypeOK ==
  /\ balances \in [Rows -> Nat]
  /\ \A e \in ledger : e.id < nextId
  /\ \A d, e \in deposits : d.row = e.row => d = e

(* A client that pages through its ledger while faucet and settlement add  *)
(* entries gets every entry that was there at the start, none twice, the   *)
(* newest first; and the entries of one asset form a running account: each *)
(* balance is the one before plus the amount, although ids are taken       *)
(* before commits (get_history, ledger_history, apply_faucet).             *)
HistoryRuns ==
  /\ PortfolioTypeOK
  /\ pager.at # "idle" =>
       \A i, j \in DOMAIN pager.got : i < j => pager.got[i].id > pager.got[j].id
  /\ pager.at = "done" => pager.present \subseteq ToSet(pager.got)
  /\ \A row \in Rows : LET of == {e \in ledger : e.row = row} IN \A e \in of :
       LET newer == {d \in of : d.id > e.id} IN
       IF newer = {} THEN e.after = balances[row]
       ELSE LET d == CHOOSE d \in newer : \A x \in newer : d.id <= x.id
            IN  d.after - d.amount = e.after

(* What the lots must amount to: after sales beyond the lots nothing is    *)
(* owed, so the quantity left is the largest surplus of purchases over any *)
(* suffix of the trades; and it is the youngest of the units bought.       *)
Net(t) == IF t.side = "buy" THEN t.quantity ELSE -t.quantity
SurplusFrom(rows, k) == FoldLeft(LAMBDA n, t : n + Net(t), 0, SubSeq(rows, k, Len(rows)))
FifoQuantity(rows) == Max({0} \cup {SurplusFrom(rows, k) : k \in DOMAIN rows})
UnitsBought(rows) ==
  FoldLeft(LAMBDA units, t : IF t.side = "buy" THEN units \o [i \in 1..t.quantity |-> t.price]
                             ELSE units, <<>>, rows)
FifoCost(rows) ==
  LET units == UnitsBought(rows) IN
  FoldLeft(LAMBDA n, p : n + p, 0, SubSeq(units, Len(units) - FifoQuantity(rows) + 1, Len(units)))
Cash(rows) == FoldLeft(LAMBDA n, t : n - Net(t) * t.price, 0, rows)

(* Profit and loss: gains are what came in from trades, less what went     *)
(* out, plus the cost of what FIFO leaves; and realised and unrealised     *)
(* gain together are the cash of the trades plus the market value of the   *)
(* quantity shown, whatever settled between the three queries (pnl,        *)
(* compute_pnl, PnlState).                                                 *)
PnlIsFifo ==
  pnl.at = "done" =>
    LET a == pnl.answer IN
    /\ a.realised = Cash(pnl.rows) + FifoCost(pnl.rows)
    /\ a.quantity = IF pnl.held > 0 THEN pnl.held ELSE FifoQuantity(pnl.rows)
    /\ a.unrealised # Null /\ a.quantity > 0 =>
         a.realised + a.unrealised = Cash(pnl.rows) + pnl.price * a.quantity

(* A proof of reserves, made while balances change and other requests      *)
(* insert snapshots, commits to the balances of the moment it read them:   *)
(* the same root is the same liabilities, every customer's entries verify  *)
(* against the root, with any other amount they do not, and the public     *)
(* totals are the sums of the entries (ensure_current_snapshot,            *)
(* user_proof_entries, verify_proof, summarize_liabilities).               *)
ProofsHold ==
  \A r \in ProofRequests : prover[r].at = "done" =>
    LET row == prover[r].row
        entries == UNION {UserProofEntries(row, u) : u \in Customers}
    IN  /\ row.liabilities = prover[r].read
        /\ {e.liability : e \in entries} = ToSet(prover[r].read)
        /\ \A e \in entries :
             /\ VerifyProof(e.liability, e.siblings, row.root)
             /\ ~VerifyProof([e.liability EXCEPT !.total = @ + 1], e.siblings, row.root)
        /\ \A a \in Assets : SummarizeLiabilities(row)[a] =
             MapThenSumSet(LAMBDA e : IF e.liability.asset = a THEN e.liability.total ELSE 0, entries)
=============================================================================
