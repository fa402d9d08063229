------------------------------- MODULE Engine -------------------------------
(***************************************************************************)
(* The matching-engine server around one order book: EngineState of        *)
(* engine/crates/server/src/state.rs, with the command WAL and the event   *)
(* log it writes, a crash at any point and the replay at the next start.   *)
(*                                                                         *)
(* A request holds the state's mutex from its first step to its reply, so  *)
(* requests do not overlap (cmd # None); crashes do.  The two files are    *)
(* sequences of whole records here, torn records are the subject of Wal.   *)
(* One symbol: the books of two symbols share only open_orders, whose      *)
(* entries name their symbol.                                              *)
(***************************************************************************)
EXTENDS OrderBook

CONSTANTS
  MaxCommands,   \* bound: records in the command WAL
  MaxCrashes,    \* bound: crashes
  MaxMarket      \* bound: halt and resume requests that reach the event log

OpenOrder == [user: Users, remaining: Nat]

ASSUME EngineAssumption ==
  /\ MaxCommands \in Nat /\ MaxCrashes \in Nat /\ MaxMarket \in Nat
  /\ None \notin OpenOrder /\ None \notin [kind: {"place"}, order: Inputs]

VARIABLES
  mode,      \* "up", "down" or "replay"
  cmd,       \* the command being handled or replayed
  open,      \* open_orders: user and remaining quantity, per order id
  todo,      \* the ids cancel_all has still to visit
  wal,       \* command_wal (durable)
  cursor,    \* how many WAL records replay_books has read
  outbox,    \* wire events sequence_events has still to append
  log,       \* event_log (durable); the sequence number is the position
  halted,    \* halted_symbols contains the symbol
  reply,     \* the last OrderAck: order and status
  crashes,   \* how often the process crashed
  done       \* history: book and open_orders after each WAL record, and whether
             \* its order was rejected although match_order changed the book

evars == <<mode, cmd, open, todo, wal, cursor, outbox, log, halted, reply, crashes, done>>
allVars == <<vars, evars>>

PlaceCmd(o)  == [kind |-> "place", order |-> o]
CancelCmd(i) == [kind |-> "cancel", id |-> i]
Accepted(i)  == [kind |-> "accepted", id |-> i]
BookDelta    == [kind |-> "delta"]
MarketEvent(h) == [kind |-> "market", halted |-> h]

-----------------------------------------------------------------------------
(* decrement_open_order and apply_open_order_updates. *)
(* Mutant of Decrement: any fill removes the entry. *)
DecrementRemoves(op, i, qty) == [op EXCEPT ![i] = None]

Decrement(op, i, qty) ==
  IF op[i] = None THEN op
  ELSE IF op[i].remaining <= qty THEN [op EXCEPT ![i] = None]
  ELSE [op EXCEPT ![i].remaining = @ - qty]

(* Mutant of ApplyUpdate: a triggered stop that rests loses its owner. *)
ApplyUpdateNoOwner(op, submitted, e) ==
  CASE e.kind = "fill" -> Decrement(Decrement(op, e.maker, e.qty), e.taker, e.qty)
    [] e.kind = "rested"
         -> [op EXCEPT ![e.id] = [user |-> IF submitted # None /\ submitted.id = e.id
                                          THEN submitted.user ELSE None,
                                  remaining |-> e.remaining]]
    [] e.kind = "cancelled" -> [op EXCEPT ![e.id] = None]
    [] OTHER -> op

ApplyUpdate(op, submitted, e) ==
  CASE e.kind = "fill" -> Decrement(Decrement(op, e.maker, e.qty), e.taker, e.qty)
    [] e.kind = "rested" /\ submitted # None /\ submitted.id = e.id
         -> [op EXCEPT ![e.id] = [user |-> submitted.user, remaining |-> e.remaining]]
    [] e.kind = "rested" /\ ~(submitted # None /\ submitted.id = e.id) /\ op[e.id] # None
         -> [op EXCEPT ![e.id].remaining = e.remaining]
    [] e.kind = "cancelled" -> [op EXCEPT ![e.id] = None]
    [] OTHER -> op

ApplyUpdates(op, submitted, evs) ==
  LET after[n \in 0..Len(evs)] ==
        IF n = 0 THEN op ELSE ApplyUpdate(after[n - 1], submitted, evs[n])
  IN after[Len(evs)]

(* to_wire_core_events and to_wire_cancel_events. *)
ToWire(evs) == SelectSeq(evs, LAMBDA e : e.kind # "stop_triggered")

(* immediate_pre_reject looks at the reason of the order's own cancel, not *)
(* at whether the order traded before it.                                  *)
ImmediatePreReject(i, evs) ==
  \E k \in DOMAIN evs : evs[k] \in {Cancelled(i, "fok_unfilled"), Cancelled(i, "post_only_crossed")}

(* order_status_for_place, from the fills of the order as a taker. *)
FilledAsTaker(i, evs) ==
  MapThenSumSet(LAMBDA k : evs[k].qty, {k \in FillsOf(evs) : evs[k].taker = i})

(* Mutant of OrderStatusForPlace: a rested remainder is not looked at. *)
OrderStatusAnyFill(o, evs) ==
  IF FilledAsTaker(o.id, evs) > 0 THEN "filled"
  ELSE IF o.id \in CancelledIn(evs) THEN "canceled" ELSE "new"

OrderStatusForPlace(o, evs) ==
  LET filled == FilledAsTaker(o.id, evs)
  IN IF \E k \in DOMAIN evs : evs[k].kind = "rested" /\ evs[k].id = o.id
     THEN IF filled > 0 THEN "partial" ELSE "new"
     ELSE IF filled < o.quantity /\ o.id \in CancelledIn(evs) THEN "canceled"
     ELSE "filled"

(* An order is rejected although it did more than be cancelled: a fill-or- *)
(* kill order that traded or removed makers before self-trade prevention   *)
(* starved it.  place_order then leaves open_orders behind the book.       *)
Starved ==
  /\ mode = "up" /\ cmd # None /\ cmd.kind = "place"
  /\ ImmediatePreReject(cmd.order.id, events) /\ Len(events) > 1

(* A command is complete: remember the state it leads to, once. *)
Complete(n) ==
  done' = IF n > Len(done)
          THEN Append(done, [book |-> book', open |-> open', starved |-> Starved]) ELSE done

-----------------------------------------------------------------------------
EngineInit ==
  /\ Init
  /\ mode = "up" /\ cmd = None /\ open = [i \in Id |-> None] /\ todo = {}
  /\ wal = <<>> /\ cursor = 0 /\ outbox = <<>> /\ log = <<>>
  /\ halted = FALSE /\ reply = None /\ crashes = 0 /\ done = <<>>

Idle == mode = "up" /\ cmd = None /\ phase = "idle"

(* place_order of an order that passed validate_wire_order: the command is *)
(* appended and flushed before the book is touched.                        *)
PlaceOrder(o) ==
  /\ Idle /\ ~halted /\ Len(wal) < MaxCommands
  /\ Place(o)
  /\ wal' = Append(wal, PlaceCmd(o))
  /\ cmd' = PlaceCmd(o) /\ reply' = None
  /\ UNCHANGED <<mode, open, todo, cursor, outbox, log, halted, crashes, done>>

(* match_order, one step at a time, in a request or in the replay. *)
Match ==
  /\ mode # "down" /\ cmd # None
  /\ Step
  /\ UNCHANGED evars

Matched(kind) == cmd # None /\ cmd.kind = kind /\ phase = "idle"

(* The pre-rejected order: the reply is a reject and open_orders is left   *)
(* alone, whatever match_order did.                                        *)
PlaceReject ==
  /\ mode = "up" /\ Matched("place")
  /\ ImmediatePreReject(cmd.order.id, events)
  /\ cmd' = None
  /\ UNCHANGED <<vars, mode, open, todo, wal, cursor, outbox, log, halted, reply, crashes>>
  /\ Complete(Len(wal))

PlaceAccept ==
  /\ mode = "up" /\ Matched("place")
  /\ ~ImmediatePreReject(cmd.order.id, events)
  /\ open' = ApplyUpdates(open, cmd.order, events)
  /\ outbox' = <<Accepted(cmd.order.id)>> \o ToWire(events) \o <<BookDelta>>
  /\ cmd' = [kind |-> "ack", id |-> cmd.order.id, status |-> OrderStatusForPlace(cmd.order, events)]
  /\ UNCHANGED <<vars, mode, todo, wal, cursor, log, halted, reply, crashes>>
  /\ Complete(Len(wal))

(* cancel_known_order: only an order open_orders knows. *)
CancelKnownOrder(i) ==
  /\ open[i] # None
  /\ CancelOrder(i)
  /\ wal' = Append(wal, CancelCmd(i))
  /\ open' = ApplyUpdates(open, None, events')
  /\ Complete(Len(wal'))

CancelRequest(i) ==
  /\ Idle /\ Len(wal) < MaxCommands
  /\ CancelKnownOrder(i)
  /\ IF events' = <<>> THEN UNCHANGED <<cmd, outbox>>
     ELSE cmd' = [kind |-> "ack", id |-> None, status |-> "canceled"] /\ outbox' = events' \o <<BookDelta>>
  /\ reply' = None
  /\ UNCHANGED <<mode, todo, cursor, log, halted, crashes>>

(* cancel_all visits the ids in order; a leg that an earlier OCO cancel    *)
(* removed is skipped.  Nothing is logged before the last one.             *)
CancelAll(u) ==
  /\ Idle
  /\ todo' = {i \in Id : open[i] # None /\ open[i].user = u}
  /\ Len(wal) + Cardinality(todo') <= MaxCommands
  /\ cmd' = [kind |-> "cancel_all"] /\ reply' = None
  /\ UNCHANGED <<vars, mode, open, wal, cursor, outbox, log, halted, crashes, done>>

(* Mutant of CancelAllNext: an id that is gone is not taken off the list. *)
CancelAllNextStuck(i) ==
  /\ mode = "up" /\ Matched("cancel_all")
  /\ i \in todo /\ \A j \in todo : i <= j
  /\ IF open[i] = None THEN UNCHANGED <<vars, wal, open, done, outbox, todo>>
     ELSE CancelKnownOrder(i) /\ outbox' = outbox \o events' /\ todo' = todo \ {i}
  /\ UNCHANGED <<mode, cmd, cursor, log, halted, reply, crashes>>

CancelAllNext(i) ==
  /\ mode = "up" /\ Matched("cancel_all")
  /\ i \in todo /\ \A j \in todo : i <= j
  /\ todo' = todo \ {i}
  /\ IF open[i] = None THEN UNCHANGED <<vars, wal, open, done, outbox>>
     ELSE CancelKnownOrder(i) /\ outbox' = outbox \o events'
  /\ UNCHANGED <<mode, cmd, cursor, log, halted, reply, crashes>>

CancelAllEnd ==
  /\ mode = "up" /\ Matched("cancel_all") /\ todo = {}
  /\ cmd' = [kind |-> "ack", id |-> None, status |-> "canceled"]
  /\ outbox' = IF outbox = <<>> THEN <<>> ELSE Append(outbox, BookDelta)
  /\ UNCHANGED <<vars, mode, open, todo, wal, cursor, log, halted, reply, crashes, done>>

(* halt_market and resume_market. *)
SetMarket(h) ==
  /\ Idle
  /\ Len(SelectSeq(log, LAMBDA e : e.kind = "market")) < MaxMarket
  /\ halted' = h
  /\ outbox' = <<MarketEvent(h)>>
  /\ cmd' = [kind |-> "ack", id |-> None, status |-> IF h THEN "halted" ELSE "trading"]
  /\ reply' = None
  /\ UNCHANGED <<vars, mode, open, todo, wal, cursor, log, crashes, done>>

(* Requests that change nothing: ping, snapshot, and the rejected ones (an *)
(* invalid order, an order for a halted market, a cancel of an order that  *)
(* open_orders does not know).                                             *)
ReadOnly == Idle /\ UNCHANGED allVars

(* sequence_events appends and flushes one event after the other. *)
LogEvent ==
  /\ mode = "up" /\ Matched("ack") /\ outbox # <<>>
  /\ log' = Append(log, Head(outbox)) /\ outbox' = Tail(outbox)
  /\ UNCHANGED <<vars, mode, cmd, open, todo, wal, cursor, halted, reply, crashes, done>>

Respond ==
  /\ mode = "up" /\ Matched("ack") /\ outbox = <<>>
  /\ reply' = IF cmd.id = None THEN None ELSE [id |-> cmd.id, status |-> cmd.status]
  /\ cmd' = None
  /\ UNCHANGED <<vars, mode, open, todo, wal, cursor, outbox, log, halted, crashes, done>>

-----------------------------------------------------------------------------
ForgetBook ==
  /\ book' = EmptyBook /\ phase' = "idle" /\ taker' = None /\ lastTrade' = None
  /\ triggered' = <<>> /\ work' = <<>> /\ stopDepth' = 0 /\ events' = <<>> /\ placed' = 0
  /\ acct' = EmptyAcct /\ ended' = {} /\ dropped' = {}

(* The process dies; only the two files remain. *)
Crash ==
  /\ mode # "down" /\ crashes < MaxCrashes
  /\ mode' = "down" /\ crashes' = crashes + 1
  /\ ForgetBook
  /\ cmd' = None /\ open' = [i \in Id |-> None] /\ todo' = {} /\ outbox' = <<>>
  /\ cursor' = 0 /\ halted' = FALSE /\ reply' = None
  /\ UNCHANGED <<wal, log, done>>

(* EngineState::open: replay_books, then the two files are opened. *)
Start ==
  /\ mode = "down"
  /\ mode' = "replay"
  /\ UNCHANGED <<vars, cmd, open, todo, wal, cursor, outbox, log, halted, reply, crashes, done>>

ReplayPlace ==
  /\ mode = "replay" /\ cmd = None /\ cursor < Len(wal)
  /\ LET c == wal[cursor + 1]
     IN c.kind = "place" /\ Place(c.order) /\ cmd' = c
  /\ cursor' = cursor + 1
  /\ UNCHANGED <<mode, open, todo, wal, outbox, log, halted, reply, crashes, done>>

(* Mutants of ReplayApply: the submitted order is not known, the events    *)
(* are logged once more.                                                   *)
ReplayApplyUnknown ==
  /\ mode = "replay" /\ Matched("place")
  /\ open' = ApplyUpdates(open, None, events)
  /\ cmd' = None
  /\ UNCHANGED <<vars, mode, todo, wal, cursor, outbox, log, halted, reply, crashes>>
  /\ Complete(cursor)
ReplayApplyLogs ==
  /\ mode = "replay" /\ Matched("place")
  /\ open' = ApplyUpdates(open, cmd.order, events)
  /\ log' = log \o ToWire(events)
  /\ cmd' = None
  /\ UNCHANGED <<vars, mode, todo, wal, cursor, outbox, halted, reply, crashes>>
  /\ Complete(cursor)

(* Here the updates are applied after a pre-reject as well. *)
ReplayApply ==
  /\ mode = "replay" /\ Matched("place")
  /\ open' = ApplyUpdates(open, cmd.order, events)
  /\ cmd' = None
  /\ UNCHANGED <<vars, mode, todo, wal, cursor, outbox, log, halted, reply, crashes>>
  /\ Complete(cursor)

(* Mutant of ReplayCancel: cancels are not replayed. *)
ReplayCancelIgnored ==
  /\ mode = "replay" /\ cmd = None /\ cursor < Len(wal)
  /\ wal[cursor + 1].kind = "cancel"
  /\ cursor' = cursor + 1
  /\ UNCHANGED <<vars, open, mode, cmd, todo, wal, outbox, log, halted, reply, crashes>>
  /\ Complete(cursor')

(* replay_cancel: skipped if open_orders does not know the order. *)
ReplayCancel ==
  /\ mode = "replay" /\ cmd = None /\ cursor < Len(wal)
  /\ LET c == wal[cursor + 1]
     IN /\ c.kind = "cancel"
        /\ IF open[c.id] = None THEN UNCHANGED <<vars, open>>
           ELSE CancelOrder(c.id) /\ open' = ApplyUpdates(open, None, events')
  /\ cursor' = cursor + 1
  /\ UNCHANGED <<mode, cmd, todo, wal, outbox, log, halted, reply, crashes>>
  /\ Complete(cursor')

ReplayEnd ==
  /\ mode = "replay" /\ cmd = None /\ cursor = Len(wal)
  /\ mode' = "up"
  /\ UNCHANGED <<vars, cmd, open, todo, wal, cursor, outbox, log, halted, reply, crashes, done>>

-----------------------------------------------------------------------------
Request ==
  \/ \E o \in Inputs : PlaceOrder(o)
  \/ \E i \in Id : CancelRequest(i)
  \/ \E u \in Users : CancelAll(u)
  \/ \E h \in BOOLEAN : SetMarket(h)
  \/ ReadOnly

Handle ==
  \/ Match \/ PlaceReject \/ PlaceAccept
  \/ \E i \in Id : CancelAllNext(i)
  \/ CancelAllEnd \/ LogEvent \/ Respond

Recover == Start \/ ReplayPlace \/ ReplayApply \/ ReplayCancel \/ ReplayEnd

EngineNext == Request \/ Handle \/ Recover \/ Crash

(* A handler runs to its reply unless the process dies, and the supervisor *)
(* restarts a dead process; nobody is obliged to send requests.            *)
EngineSpec == EngineInit /\ [][EngineNext]_allVars /\ WF_allVars(Handle \/ Recover)

-----------------------------------------------------------------------------
(* Type invariant of the server's own state. *)
EngineTypeOK ==
  /\ mode \in {"up", "down", "replay"} /\ cursor \in 0..Len(wal)
  /\ open \in [Id -> OpenOrder \cup {None}]
  /\ todo \subseteq Id /\ halted \in BOOLEAN /\ crashes \in 0..MaxCrashes
  /\ Len(done) \in {Len(wal), Len(wal) - 1}

Remaining(i) ==
  LET s == book.index[i][1] p == book.index[i][2]
  IN book.level[s][p][Pos(book.level[s][p], i)].remaining

(* Between requests every live order of the book has an open_orders entry  *)
(* with at least its remaining quantity: cancel and cancel_all can reach   *)
(* it.  Fills, cascades, STP, rejects and recovery must all keep this.     *)
OpenCoversLive ==
  Idle => \A i \in Live(book) :
    open[i] # None /\ (book.index[i] # None => open[i].remaining >= Remaining(i))

StarvedBefore(n) == \E m \in 1..n : done[m].starved

(* What replay_books rebuilds after n records is what the server had after *)
(* the same n commands before the crash.  The book is the same, unless a   *)
(* cancel follows a starved order: replay_books applies the updates that   *)
(* place_order skips for it (state.rs:139), so the cancel may name an      *)
(* order that open_orders knew then and replay_cancel does not know now.   *)
BookRecovered ==
  mode = "replay" /\ cmd = None /\ cursor > 0
    /\ (\A n \in 1..cursor : wal[n].kind = "cancel" => ~StarvedBefore(n))
  => book = done[cursor].book

(* open_orders is the same as long as no order was starved. *)
OpenRecovered ==
  mode = "replay" /\ cmd = None /\ cursor > 0 /\ ~StarvedBefore(cursor)
  => open = done[cursor].open

(* A replay rebuilds what the server had, command by command, up to the    *)
(* commands after a starved fill-or-kill order; with those, the PRD's      *)
(* claim fails: ReplayIdentical below.                                     *)
Recovered == BookRecovered /\ OpenRecovered

LoggedFills(i) ==
  {k \in DOMAIN log : log[k].kind = "fill" /\ i \in {log[k].taker, log[k].maker}}

(* The event log never reports more of an order than its quantity and no   *)
(* fill after its cancel, across crashes and replays: a replayed command   *)
(* is not logged a second time.                                            *)
LogSound ==
  Idle => \A i \in 1..placed :
    /\ MapThenSumSet(LAMBDA k : log[k].qty, LoggedFills(i)) <= acct[i].filled
    /\ \A k \in LoggedFills(i), j \in DOMAIN log :
         log[j].kind = "cancelled" /\ log[j].id = i => k < j

(* The server's own state and its event log are sound. *)
EngineSound == EngineTypeOK /\ LogSound

(* An order acknowledged as filled or canceled is out of the book for      *)
(* good: the API and settlement treat both states as final, so such an     *)
(* order must not trade again, whatever cascade the call set off.          *)
TerminalAckIsFinal ==
  reply # None /\ reply.status \in {"filled", "canceled"} => reply.id \notin Live(book)

(* A crashed server is up again after its last crash, a request is always  *)
(* answered: the replay works through the WAL and does not get stuck.      *)
ServesAgain == []<>Idle

-----------------------------------------------------------------------------
(* Statements of the repository that the code does not meet. *)

(* PRD.md:1273: "Replaying WAL produces identical book state". *)
ReplayIdentical ==
  mode = "replay" /\ cmd = None /\ cursor > 0 => book = done[cursor].book

(* docs/runbooks/engine-restart.md: "A restart is therefore safe as long   *)
(* as the WAL files on the mounted volume are intact".  The events of a    *)
(* command that was in the WAL but not yet in the log are never logged.    *)
EveryFillLogged ==
  Idle => \A i \in 1..placed :
    MapThenSumSet(LAMBDA k : log[k].qty, LoggedFills(i)) = acct[i].filled
=============================================================================
