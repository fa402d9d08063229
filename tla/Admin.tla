------------------------------- MODULE Admin -------------------------------
(* The admin handlers and the order handlers over the shared engine link:  *)
(* halt, resume, cancel-all, freeze and the engine view change the engine  *)
(* first and the database afterwards, or only one of them when a step      *)
(* fails.  A new order passes two gates, the market's status in the        *)
(* database and the engine's set of halted symbols; the market maker       *)
(* sends its orders to the engine directly and passes only the second.     *)
(* services/api/src/handlers/admin.rs, services/api/src/repositories/      *)
(* admin.rs, handlers/orders.rs, middleware.rs, services/market-data/src/  *)
(* engine.rs                                                               *)
EXTENDS EngineLink

CONSTANTS
  Traders,     \* users
  Symbols,     \* markets the engine view lists; orders are for one market
  MaxBreaks,   \* bound: connections the network breaks
  MaxDeaths,   \* bound: engine crashes
  Workloads    \* bound: jobs, users and faults explored together

ASSUME AdminAssumption ==
  {MaxBreaks, MaxDeaths} \subseteq Nat /\ IsFiniteSet(Traders) /\ IsFiniteSet(Symbols)

(* What passes over the link: requests, their answers, and the errors send *)
(* returns in place of an answer.                                          *)
Op      == {"halt", "resume", "place", "cancel_all", "snapshot"}
Arg     == Traders \cup Symbols \cup {None}
Req     == [rid: Rid, op: Op, arg: Arg]
Resp    == [rid: Rid, op: Op, arg: Arg, ok: BOOLEAN, ids: SUBSET Rid]
Failure == {Io, TimedOut}

Call == [req: Req, step: {"write", "wait"}, got: Resp \cup Failure \cup {None}]
Kind == {"halt", "resume", "place", "cancel_all", "freeze", "view", "user_cancel"}
Job  == [kind: Kind, rid: Rid, step: {"engine", "db", "audit"},
         todo: Seq(Traders \cup Symbols), ids: SUBSET Rid, seen: SUBSET Rid]
Row  == [user: Traders, status: {"pending", "new", "canceled"}]

(* None is no task, no connection, no answer, no call, no job and no row. *)
ASSUME NoneAssumption ==
  /\ None \notin Tasks /\ None \notin Conn /\ None \notin Resp /\ None \notin Call
  /\ None \notin Job /\ None \notin Row

VARIABLES
  halted,    \* the engine's halted_symbols holds the market
  live,      \* orders open in the engine
  owner,     \* their users, as the engine has them
  status,    \* markets.status
  row,       \* orders: status per order, [user, status]
  frozen,    \* users.status = 'frozen'
  audits,    \* audit_log: action and request
  job,       \* per task the HTTP request in progress
  nextRid,   \* requests so far
  view,      \* the last engine view answered, per symbol the symbol its book is of
  faults,    \* [breaks, deaths]
  \* history, for the properties only:
  ran,       \* what the engine executed, per request id a sequence of requests
  acked,     \* halts that were answered with success
  eased,     \* halts the engine undid after it executed them: by a resume or by dying
  lifted,    \* halts whose row of the market a resume wrote over
  defied,    \* orders that passed a gate an acknowledged halt should have closed
  accepted,  \* orders the engine has ever accepted
  missed,    \* <<cancel-all, order>> it should have reached and did not
  load

engineVars == <<halted, live, owner>>
dbVars     == <<status, row, frozen, audits>>
jobVars    == <<job, nextRid, wireId>>
ghostVars  == <<ran, acked, eased, lifted, defied, accepted, missed>>
adminVars  == <<linkVars, engineVars, dbVars, jobVars, view, faults, ghostVars, load>>

(* A mutant: an order counts as open only once it is acknowledged. *)
OpenStatusNew == {"new"}
OpenStatus == {"pending", "new"}

AdminInit ==
  /\ LinkInit
  /\ halted = FALSE /\ live = {} /\ owner = [r \in Rid |-> None]
  /\ status = "trading" /\ row = [r \in Rid |-> None] /\ frozen = {} /\ audits = {}
  /\ job = [t \in Tasks |-> None] /\ nextRid = 1
  /\ view = [s \in Symbols |-> None]
  /\ faults = [breaks |-> 0, deaths |-> 0]
  /\ ran = [r \in Rid |-> <<>>] /\ acked = {} /\ eased = {} /\ lifted = {}
  /\ defied = {} /\ accepted = {} /\ missed = {}
  /\ load \in Workloads

-----------------------------------------------------------------------------
(* The engine's handle_request.                                            *)

Request(r, op, arg) == [rid |-> r, op |-> op, arg |-> arg]
OfUser(u) == {r \in live : owner[r] = u}
Refused(q) == q.op = "place" /\ halted

(* History: the halts the engine has executed, and whether one that was    *)
(* acknowledged, under an id of its own, should still close the gate.      *)
Halts == {h \in Rid : \E i \in DOMAIN ran[h] : ran[h][i].op = "halt"}
ClosedAtEngine == \E h \in acked \ eased : ~Reused(h)

Execute(q) ==
  LET placed == q.op = "place" /\ ~halted IN
  /\ halted' = CASE q.op = "halt" -> TRUE [] q.op = "resume" -> FALSE [] OTHER -> halted
  /\ live' = CASE placed -> live \cup {q.rid}
               [] q.op = "cancel_all" -> live \ OfUser(q.arg)
               [] OTHER -> live
  /\ owner' = IF placed THEN [owner EXCEPT ![q.rid] = q.arg] ELSE owner
  /\ accepted' = IF placed THEN accepted \cup {q.rid} ELSE accepted
  /\ ran' = [ran EXCEPT ![q.rid] = Append(@, q)]
  /\ eased' = IF q.op = "resume" THEN eased \cup Halts ELSE eased
  /\ defied' = IF placed /\ ClosedAtEngine THEN defied \cup {q.rid} ELSE defied
  /\ UNCHANGED <<acked, lifted, missed>>

Handle(g) ==
  /\ CanServe(g)
  /\ LET q == Head(conn[g].req) IN
       /\ Serve(g, [rid |-> q.rid, op |-> q.op, arg |-> q.arg, ok |-> ~Refused(q),
                    ids |-> IF q.op = "cancel_all" THEN OfUser(q.arg) ELSE {}])
       /\ Execute(q)
  /\ UNCHANGED <<dbVars, jobVars, view, faults, load>>

(* An error returns from the connection's handler, before the request was  *)
(* executed or after.                                                      *)
HandleFails(g) ==
  /\ "error" \in load
  /\ GoesDeaf(g)
  /\ Execute(Head(conn[g].req)) \/ UNCHANGED <<engineVars, ghostVars>>
  /\ UNCHANGED <<dbVars, jobVars, view, faults, load>>

(* The market maker's EngineClient has a connection of its own for each    *)
(* order and asks nobody but the engine.  The row of such an order is      *)
(* inserted by settlement once it gets the event.                          *)
DirectOrder(u) ==
  /\ "direct" \in load /\ up /\ nextRid <= MaxRequests
  /\ Execute(Request(nextRid, "place", u))
  /\ nextRid' = nextRid + 1
  /\ UNCHANGED <<linkVars, dbVars, job, wireId, view, faults, load>>

SettleRow(r) ==
  /\ r \in accepted /\ row[r] = None
  /\ row' = [row EXCEPT ![r] = [user |-> owner[r], status |-> "new"]]
  /\ UNCHANGED <<linkVars, engineVars, status, frozen, audits, jobVars, view, faults, ghostVars, load>>

-----------------------------------------------------------------------------
(* Handlers.                                                               *)

(* A request gets the first free task (tasks differ in nothing else). *)
Begin(t, kind) ==
  /\ kind \in load /\ nextRid <= MaxRequests
  /\ job[t] = None /\ \A u \in Tasks : u < t => job[u] # None

(* The request_id middleware takes X-Request-Id from the client, if it is  *)
(* a UUID, and makes one up otherwise.                                     *)
RequestIds == IF "reuse" \in load THEN 1..nextRid ELSE {nextRid}

NewJob(t, kind, todo, i) ==
  /\ job' = [job EXCEPT ![t] = [kind |-> kind, rid |-> nextRid, step |-> "engine",
                                todo |-> todo, ids |-> {},
                                seen |-> IF kind = "cancel_all" THEN {r \in live : row[r] # None} ELSE {}]]
  /\ wireId' = [wireId EXCEPT ![nextRid] = i]
  /\ nextRid' = nextRid + 1

Running(kind) == {u \in Tasks : job[u] # None /\ job[u].kind = kind}

(* halt_market and resume_market: engine, database, audit log. *)
Control(t, kind) ==
  /\ Begin(t, kind)
  /\ \E i \in RequestIds :
       NewJob(t, kind, <<>>, i) /\ Send(t, Request(nextRid, kind, None), i)
  /\ UNCHANGED <<engineVars, dbVars, view, faults, ghostVars, load>>

(* cancel_all_in_market: the users with open rows, one cancel_all each,    *)
(* all under the same request id; freeze_user: the status, then one user.  *)
UsersWithOpenOrders ==
  SetToSeq({u \in Traders : \E r \in Rid : row[r] # None /\ row[r].user = u
                                           /\ row[r].status \in OpenStatus})

CancelAllInMarket(t) ==
  /\ Begin(t, "cancel_all")
  /\ \E i \in RequestIds : NewJob(t, "cancel_all", UsersWithOpenOrders, i)
  /\ UNCHANGED <<linkVars, engineVars, dbVars, view, faults, ghostVars, load>>

FreezeUser(t, u) ==
  /\ Begin(t, "freeze")
  /\ frozen' = frozen \cup {u}
  /\ \E i \in RequestIds : NewJob(t, "freeze", <<u>>, i)
  /\ UNCHANGED <<linkVars, engineVars, status, row, audits, view, faults, ghostVars, load>>

(* engine_state: one snapshot per market, again under one request id. *)
EngineState(t) ==
  /\ Begin(t, "view")
  /\ \E i \in RequestIds : NewJob(t, "view", SetToSeq(Symbols), i)
  /\ UNCHANGED <<linkVars, engineVars, dbVars, view, faults, ghostVars, load>>

(* get_market_assets, and the test of its status. *)
MarketTrades == status = "trading"

(* place_order: the first gate is the row of the market, then the order    *)
(* is inserted and sent.  cancel_all_orders is the user's own cancel-all.  *)
PlaceOrder(t, u) ==
  /\ Begin(t, "place") /\ MarketTrades
  /\ row' = [row EXCEPT ![nextRid] = [user |-> u, status |-> "pending"]]
  /\ \E i \in RequestIds :
       NewJob(t, "place", <<>>, i) /\ Send(t, Request(nextRid, "place", u), i)
  /\ defied' = IF acked \subseteq lifted THEN defied ELSE defied \cup {nextRid}
  /\ UNCHANGED <<engineVars, status, frozen, audits, view, faults, ran, acked, eased, lifted,
                 accepted, missed, load>>

CancelAllOrders(t, u) ==
  /\ Begin(t, "user_cancel")
  /\ \E i \in RequestIds : NewJob(t, "user_cancel", <<u>>, i)
  /\ UNCHANGED <<linkVars, engineVars, dbVars, view, faults, ghostVars, load>>

-----------------------------------------------------------------------------
Doing(t, kinds, step) == job[t] # None /\ job[t].kind \in kinds /\ job[t].step = step
NoCall(t)  == call' = [call EXCEPT ![t] = None] /\ UNCHANGED <<up, conn, writer, pending>>
Answer(t)  == job' = [job EXCEPT ![t] = None]

(* The next engine call of a job that makes several. *)
Several == {"cancel_all", "freeze", "view", "user_cancel"}
NextCall(t) ==
  /\ Doing(t, Several, "engine") /\ call[t] = None /\ job[t].todo # <<>>
  /\ Send(t, Request(job[t].rid, IF job[t].kind = "view" THEN "snapshot" ELSE "cancel_all",
                     Head(job[t].todo)), wireId[job[t].rid])
  /\ UNCHANGED <<engineVars, dbVars, jobVars, view, faults, ghostVars, load>>

(* A mutant: a failed cancel is skipped like a failed snapshot. *)
CallReturnsGoesOn(t) ==
  /\ Doing(t, Several, "engine") /\ Returned(t)
  /\ job' = [job EXCEPT ![t].todo = Tail(@)]
  /\ NoCall(t)
  /\ UNCHANGED <<engineVars, dbVars, nextRid, wireId, view, faults, ghostVars, load>>

(* Its answer.  A failed snapshot leaves its market without a book and the *)
(* view goes on; a failed cancel ends the request, with nothing marked.    *)
CallReturns(t) ==
  /\ Doing(t, Several, "engine") /\ Returned(t)
  /\ IF job[t].kind = "view"
     THEN /\ view' = [view EXCEPT ![Head(job[t].todo)] = IF Failed(t) THEN None ELSE call[t].got.arg]
          /\ job' = [job EXCEPT ![t].todo = Tail(@)]
     ELSE /\ IF Failed(t) THEN Answer(t)
             ELSE job' = [job EXCEPT ![t].todo = Tail(@), ![t].ids = @ \cup call[t].got.ids]
          /\ UNCHANGED view
  /\ NoCall(t)
  /\ UNCHANGED <<engineVars, dbVars, nextRid, wireId, faults, ghostVars, load>>

(* The calls are made: the view is answered, the user's cancel too; the    *)
(* others mark the rows, which may fail.                                   *)
CallsDone(t) ==
  /\ Doing(t, Several, "engine") /\ call[t] = None /\ job[t].todo = <<>>
  /\ IF job[t].kind \in {"view", "user_cancel"} THEN Answer(t)
     ELSE job' = [job EXCEPT ![t].step = "db"]
  /\ UNCHANGED <<linkVars, engineVars, dbVars, nextRid, wireId, view, faults, ghostVars, load>>

MarkOrdersCanceled(t) ==
  /\ Doing(t, {"cancel_all", "freeze"}, "db")
  /\ row' = [r \in Rid |-> IF r \in job[t].ids /\ row[r] # None /\ row[r].status \in OpenStatus
                           THEN [row[r] EXCEPT !.status = "canceled"] ELSE row[r]]
  /\ job' = [job EXCEPT ![t].step = "audit"]
  /\ UNCHANGED <<linkVars, engineVars, status, frozen, audits, nextRid, wireId, view, faults, ghostVars, load>>

(* Halt, resume and place have one call. *)
ControlReturns(t) ==
  /\ Doing(t, {"halt", "resume"}, "engine") /\ Returned(t)
  /\ IF Failed(t) THEN Answer(t) ELSE job' = [job EXCEPT ![t].step = "db"]
  /\ NoCall(t)
  /\ UNCHANGED <<engineVars, dbVars, nextRid, wireId, view, faults, ghostVars, load>>

(* A mutant: the row of the market is not written. *)
NewStatusUnwritten(kind) == status
NewStatus(kind) == IF kind = "halt" THEN "halted" ELSE "trading"

UpdateMarketStatus(t) ==
  /\ Doing(t, {"halt", "resume"}, "db")
  /\ status' = NewStatus(job[t].kind)
  /\ job' = [job EXCEPT ![t].step = "audit"]
  /\ lifted' = IF job[t].kind = "halt" THEN lifted
               ELSE lifted \cup acked \cup {job[u].rid : u \in {v \in Running("halt") : job[v].step = "audit"}}
  /\ UNCHANGED <<linkVars, engineVars, row, frozen, audits, nextRid, wireId, view, faults, ran, acked,
                 eased, defied, accepted, missed, load>>

DbFails(t) ==
  /\ "db_error" \in load
  /\ Doing(t, {"halt", "resume", "cancel_all", "freeze"}, "db")
       \/ Doing(t, {"halt", "resume", "cancel_all", "freeze"}, "audit")
  /\ Answer(t)
  /\ UNCHANGED <<linkVars, engineVars, dbVars, nextRid, wireId, view, faults, ghostVars, load>>

(* The audit entry and the 200 answer. *)
Audit(t) ==
  /\ Doing(t, {"halt", "resume", "cancel_all", "freeze"}, "audit")
  /\ audits' = audits \cup {<<job[t].kind, job[t].rid>>}
  /\ Answer(t)
  /\ acked' = IF job[t].kind = "halt" THEN acked \cup {job[t].rid} ELSE acked
  /\ missed' = IF job[t].kind = "cancel_all" THEN missed \cup ({job[t].rid} \X (job[t].seen \cap live))
               ELSE missed
  /\ UNCHANGED <<linkVars, engineVars, status, row, frozen, nextRid, wireId, view, faults, ran,
                 eased, lifted, defied, accepted, load>>

(* An order's answer; after a failed or refused call its row stays as it   *)
(* was inserted.                                                           *)
PlaceReturns(t) ==
  /\ Doing(t, {"place"}, "engine") /\ Returned(t)
  /\ row' = IF Failed(t) THEN row ELSE [row EXCEPT ![job[t].rid].status = "new"]
  /\ Answer(t) /\ NoCall(t)
  /\ UNCHANGED <<engineVars, status, frozen, audits, nextRid, wireId, view, faults, ghostVars, load>>

-----------------------------------------------------------------------------
Link(A) == A /\ UNCHANGED <<engineVars, dbVars, jobVars, view, faults, ghostVars, load>>

Break(g) ==
  /\ "break" \in load /\ faults.breaks < MaxBreaks
  /\ NetworkBreaks(g)
  /\ faults' = [faults EXCEPT !.breaks = @ + 1]
  /\ UNCHANGED <<engineVars, dbVars, jobVars, view, ghostVars, load>>

(* halted_symbols lives in memory only; the books come back from the WAL.  *)
Death ==
  /\ "death" \in load /\ faults.deaths < MaxDeaths
  /\ EngineDies
  /\ halted' = FALSE /\ eased' = eased \cup Halts
  /\ faults' = [faults EXCEPT !.deaths = @ + 1]
  /\ UNCHANGED <<live, owner, dbVars, jobVars, view, ran, acked, lifted, defied, accepted, missed, load>>

Arrive(t) ==
  \/ \E k \in {"halt", "resume"} : Control(t, k)
  \/ CancelAllInMarket(t) \/ EngineState(t)
  \/ \E u \in Traders \cap load : FreezeUser(t, u) \/ PlaceOrder(t, u) \/ CancelAllOrders(t, u)

Proceed(t) ==
  \/ NextCall(t) \/ CallReturns(t) \/ CallsDone(t) \/ MarkOrdersCanceled(t)
  \/ ControlReturns(t) \/ UpdateMarketStatus(t) \/ DbFails(t) \/ Audit(t) \/ PlaceReturns(t)
  \/ Link(Sending(t))

Late(t) == Link({"slow", "error"} \cap load # {} /\ Timeout(t))

Work ==
  \/ \E t \in Tasks : Proceed(t) \/ Late(t)
  \/ \E g \in Conn : Handle(g) \/ Link(Reader(g)) \/ Link(ServerSeesEof(g))
  \/ Link(EngineStarts)

AdminNext ==
  \/ Work
  \/ \E t \in Tasks : Arrive(t)
  \/ \E u \in Traders \cap load : DirectOrder(u)
  \/ \E r \in Rid : SettleRow(r)
  \/ \E g \in Conn : Break(g) \/ HandleFails(g)
  \/ Death

(* Handler, reader and engine tasks run and a dead engine is restarted;    *)
(* nobody has to send a request.  With a bounded number of requests the    *)
(* steps cannot starve each other.                                         *)
AdminSpec == AdminInit /\ [][AdminNext]_adminVars /\ WF_adminVars(Work)

-----------------------------------------------------------------------------
(* Type invariant of link and handlers. *)
AdminTypeOK ==
  /\ pending \in [Rid -> Tasks \cup {None}] /\ writer \in Conn \cup {None}
  /\ \A g \in Conn : conn[g].state = "unused" => conn[g].reader = "none"
  /\ status \in {"trading", "halted"} /\ live \subseteq accepted
  /\ row \in [Rid -> Row \cup {None}] /\ job \in [Tasks -> Job \cup {None}]
  /\ \A t \in Tasks : call[t] # None => job[t] # None

(* A halt that was answered with success holds at both gates, however      *)
(* halts and resumes of several administrators interleave between engine   *)
(* and database, and whatever times out.  The engine accepts no order,     *)
(* through the API or from the market maker, until it has executed a       *)
(* resume after the halt or has died; place_order lets no order through    *)
(* until a resume has written the market's row after the halt did, so an   *)
(* engine that restarts and forgets the halt still gets no order from the  *)
(* API.  At the engine the halt must have come under an id of its own.     *)
HaltHolds == defied = {}

(* A call under an id no other request came with is answered with the      *)
(* engine's answer to that very request, and the engine executes no        *)
(* request twice, across reconnects, a reader that outlives its            *)
(* connection, timeouts and late answers.  (Only the engine view may get   *)
(* the answer meant for its previous market: it reuses its own id, see     *)
(* ViewShowsOwnBook; for the ids clients choose see CallGetsOwnAnswer.)    *)
AnswersOwnRequest ==
  /\ AdminTypeOK
  /\ \A t \in Tasks : Returned(t) /\ ~Failed(t) /\ ~Reused(call[t].req.rid) =>
       /\ call[t].got.rid = call[t].req.rid /\ call[t].got.op = call[t].req.op
       /\ call[t].req.op # "snapshot" => call[t].got.arg = call[t].req.arg
  /\ \A r \in Rid : \A i, j \in DOMAIN ran[r] : i # j => ran[r][i] # ran[r][j]

(* A cancel-all that reports success, under an id of its own, has removed  *)
(* every order that was in the engine and had its row in the database when *)
(* it began: the orders whose placement the API gave up on are among them, *)
(* since their rows stay pending.  (The market maker's orders have no row  *)
(* until settlement inserts it.)                                           *)
CancelAllReaches == \A m \in missed : Reused(m[1])

(* Every request to the API is answered, whatever the link and the engine  *)
(* do.                                                                     *)
JobsEnd == \A t \in Tasks : job[t] # None ~> job[t] = None

-----------------------------------------------------------------------------
(* Statements of the repository that the code does not meet. *)

(* engine_client.rs: a call "awaits its response by `requestId`".  The     *)
(* engine view sends the next market's snapshot under the id of the one    *)
(* that timed out, and shows the late answer as that market's book.        *)
ViewShowsOwnBook == \A s \in Symbols : view[s] \in {None, s}

(* The same, with ids that clients choose: the second sender under an id   *)
(* takes the place of the first and gets its answer.                       *)
CallGetsOwnAnswer ==
  \A t \in Tasks : Returned(t) /\ ~Failed(t) => call[t].got.rid = call[t].req.rid

(* PRD.md, FR-ADM-02: a halt means "engine refuses new orders".  An engine *)
(* that restarts has forgotten the halt and takes the market maker's.      *)
EngineRefusesOrders == [][status = "halted" => accepted' = accepted]_adminVars
=============================================================================
