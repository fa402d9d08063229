----------------------------- MODULE ApiProofs ------------------------------
(***************************************************************************)
(* The API's handlers.                                                     *)
(*                                                                         *)
(* Over the shared engine link (Admin), for any number of tasks, requests, *)
(* connections, traders and markets, and any number of broken connections  *)
(* and engine deaths: a call gets the answer to its own request, nothing   *)
(* is executed twice, a halt that was acknowledged holds, and a cancel-all *)
(* that reports success has reached the orders it had to reach.  The first *)
(* and the last are about requests whose X-Request-Id no other has.        *)
(*                                                                         *)
(* Over the tables (Portfolio), for any balances, fees and page limit: the *)
(* ledger is a running account, and its pages are complete and in order.   *)
(***************************************************************************)
EXTENDS Admin, Portfolio, Sums, SequenceTheorems, FiniteSetTheorems, TLAPS

-----------------------------------------------------------------------------
(* Shapes. *)

ConnType == [state : {"unused", "up", "broken", "deaf"}, req : Seq(Req), resp : Seq(Resp),
             reader : {"none", "reading", "clearing", "done"}]

Shapes ==
  /\ conn \in [Conn -> ConnType]
  /\ call \in [Tasks -> Call \cup {None}]
  /\ job \in [Tasks -> Job \cup {None}]
  /\ row \in [Rid -> Row \cup {None}]
  /\ ran \in [Rid -> Seq(Req)]
  /\ pending \in [Rid -> Tasks \cup {None}] /\ writer \in Conn \cup {None}
  /\ \A g \in Conn : conn[g].state = "unused" => conn[g].reader = "none"
  /\ nextRid \in 1 .. MaxRequests + 1
  /\ live \subseteq accepted /\ accepted \subseteq Rid /\ owner \in [Rid -> Arg]
  /\ status \in {"trading", "halted"}

(* Request ids: a request has its own or an earlier one's. *)
IdsOK ==
  /\ wireId \in [Rid -> Rid]
  /\ \A r \in Rid : wireId[r] <= r /\ (r >= nextRid => wireId[r] = r)

(* The sender in the map belongs to a call that waits under that id. *)
PendingOK ==
  \A i \in Rid : pending[i] # None =>
    /\ call[pending[i]] # None /\ call[pending[i]].got = None
    /\ wireId[call[pending[i]].req.rid] = i

(* What identifies a message: a response answers the request it names. *)
Key(m) == Request(m.rid, m.op, m.arg)
Elems(q) == {q[i] : i \in DOMAIN q}
KeyDistinct(q) == \A i, j \in DOMAIN q : Key(q[i]) = Key(q[j]) => i = j

Asked(g) == Elems(conn[g].req)
Told(g)  == Elems(conn[g].resp)

(* The engine call a job is making or will make next. *)
OpOf(kind) == CASE kind = "view" -> "snapshot"
                [] kind \in Several \ {"view"} -> "cancel_all"
                [] OTHER -> kind

(* A job and its call. *)
JobOK(t) ==
  LET j == job[t] IN
  /\ j.rid < nextRid
  /\ j.kind \notin Several => j.todo = <<>>
  /\ j.step # "engine" => j.todo = <<>> /\ call[t] = None /\ j.kind \notin {"view", "user_cancel", "place"}
  /\ \A a, b \in DOMAIN j.todo : j.todo[a] = j.todo[b] => a = b
  /\ call[t] # None =>
       /\ call[t].req.rid = j.rid /\ call[t].req.op = OpOf(j.kind)
       /\ j.kind \in Several => j.todo # <<>> /\ call[t].req.arg = Head(j.todo)
  /\ j.kind = "place" => row[j.rid] # None /\ call[t] # None /\ call[t].req.arg = row[j.rid].user

JobsOK ==
  /\ \A t \in Tasks : job[t] # None => JobOK(t)
  /\ \A t \in Tasks : call[t] # None => job[t] # None
  /\ \A t, u \in Tasks : job[t] # None /\ job[u] # None /\ job[t].rid = job[u].rid => t = u
  /\ \A r \in Rid : r >= nextRid => row[r] = None

(* No message is there twice, and nothing that was executed is on its way. *)
FlightOK ==
  /\ \A g \in Conn : KeyDistinct(conn[g].req) /\ KeyDistinct(conn[g].resp)
  /\ \A g, h \in Conn : g # h =>
       /\ Asked(g) \cap Asked(h) = {}
       /\ \A a \in Told(g), b \in Told(h) : Key(a) # Key(b)
  /\ \A r \in Rid : /\ \A i, j \in DOMAIN ran[r] : ran[r][i] = ran[r][j] => i = j
                    /\ \A q \in Elems(ran[r]) : q.rid = r /\ r < nextRid
  /\ \A g \in Conn : \A q \in Asked(g) : q \notin Elems(ran[q.rid]) /\ q.rid < nextRid
  /\ \A g \in Conn : \A a \in Told(g) : Key(a) \in Elems(ran[a.rid])

Sent(executed, links, q) ==
  q \in Elems(executed[q.rid]) \/ \E g \in Conn : q \in Elems(links[g].req)

(* What a job has not written yet, nobody has seen. *)
UnsentOK ==
  \A t \in Tasks : job[t] # None =>
    /\ call[t] # None /\ call[t].step = "write" => ~Sent(ran, conn, call[t].req)
    /\ \A i \in DOMAIN job[t].todo :
         i > 1 \/ call[t] = None =>
           ~Sent(ran, conn, Request(job[t].rid, OpOf(job[t].kind), job[t].todo[i]))

OnItsWay == UNION {Asked(g) \cup {Key(a) : a \in Told(g)} : g \in Conn}

(* While a job whose X-Request-Id is its own lasts, the only message under *)
(* its id is the one its call is waiting for, except that the engine view  *)
(* gives up on snapshots; what the call got is the engine's answer to it.  *)
Awaited(t, m) ==
  IF job[t].kind = "view" THEN m.op = "snapshot"
  ELSE /\ call[t] # None /\ call[t].step = "wait" /\ call[t].req = m
       /\ call[t].got = None \/ call[t].got \in Failure

OwnAnswer(t) ==
  /\ call[t].got.op = call[t].req.op /\ call[t].got.rid = call[t].req.rid
  /\ call[t].req.op # "snapshot" => call[t].got.arg = call[t].req.arg
  /\ Key(call[t].got) \in Elems(ran[call[t].got.rid])

AwaitedOK ==
  \A t \in Tasks : job[t] # None /\ ~Reused(job[t].rid) =>
    /\ \A m \in OnItsWay : m.rid = job[t].rid => Awaited(t, m)
    /\ call[t] # None /\ call[t].got \in Resp => OwnAnswer(t)
    /\ call[t] # None /\ call[t].step = "write" /\ job[t].kind # "view" =>
         call[t].got = None \/ call[t].got \in Failure

(* Every request to place carries the user of its row, an accepted order   *)
(* was executed for its owner, and what a cancel reports is gone for good. *)
Gone == accepted \ live

OrdersOK ==
  /\ \A g \in Conn : \A q \in Asked(g) : q.op = "place" => row[q.rid] # None /\ q.arg = row[q.rid].user
  /\ \A r \in accepted : /\ owner[r] \in Traders /\ r < nextRid
                         /\ Request(r, "place", owner[r]) \in Elems(ran[r])
                         /\ row[r] # None => row[r].user = owner[r]
  /\ \A r \in Rid : row[r] # None /\ row[r].status = "canceled" => r \in Gone
  /\ \A g \in Conn : \A a \in Told(g) : a.ids \subseteq Gone
  /\ \A t \in Tasks : call[t] # None /\ call[t].got \in Resp => call[t].got.ids \subseteq Gone
  /\ \A t \in Tasks : job[t] # None => job[t].ids \subseteq Gone

(* A cancel-all has yet to reach the orders it saw of the users on its     *)
(* list; a user whose cancel was answered has none of them left.           *)
Reached(seen, open, owners, u) == \A r \in seen \cap open : owners[r] # u

ReachOK ==
  /\ \A t \in Tasks : job[t] # None /\ job[t].kind = "cancel_all" /\ ~Reused(job[t].rid) =>
       /\ job[t].seen \subseteq accepted
       /\ \A r \in job[t].seen \cap live : owner[r] \in Elems(job[t].todo)
       /\ \A g \in Conn : \A a \in Told(g) : a.rid = job[t].rid =>
            Reached(job[t].seen, live, owner, a.arg)
       /\ call[t] # None /\ call[t].got \in Resp => Reached(job[t].seen, live, owner, call[t].got.arg)
  /\ \A m \in missed : m[1] \in Rid /\ m[1] < nextRid /\ Reused(m[1])

(* Halts: what was executed and not undone is in force in the engine, and  *)
(* what was written and not written over is in the row of the market.      *)
HaltOK ==
  /\ defied = {}
  /\ Halts \subseteq eased \/ halted
  /\ \A h \in acked : h \in Rid /\ h < nextRid /\ (~Reused(h) => h \in Halts)
  /\ acked \subseteq lifted \/ status = "halted"
  /\ \A t \in Running("halt") :
       /\ job[t].step # "engine" /\ ~Reused(job[t].rid) => job[t].rid \in Halts
       /\ job[t].step = "audit" => job[t].rid \in lifted \/ status = "halted"

AdminInv ==
  /\ Shapes /\ IdsOK /\ PendingOK /\ JobsOK /\ FlightOK /\ UnsentOK /\ AwaitedOK
  /\ OrdersOK /\ ReachOK /\ HaltOK

-----------------------------------------------------------------------------
(* Sequences. *)

LEMMA ElemsOfSeq ==
  ASSUME NEW S, NEW q \in Seq(S)
  PROVE  /\ Elems(q) \subseteq S /\ DOMAIN q = 1 .. Len(q) /\ Len(q) \in Nat
         /\ q # <<>> => Head(q) \in Elems(q) /\ Head(q) \in S
         /\ q = <<>> => Elems(q) = {}
  <1>1. DOMAIN q = 1 .. Len(q) /\ Len(q) \in Nat /\ \A i \in 1 .. Len(q) : q[i] \in S  OBVIOUS
  <1>2. Elems(q) \subseteq S  BY <1>1 DEF Elems
  <1>3. ASSUME q # <<>> PROVE Head(q) \in Elems(q)
    <2>1. Len(q) # 0 /\ Head(q) = q[1]  BY <1>3, EmptySeq
    <2>2. 1 \in DOMAIN q  BY <1>1, <2>1
    <2> QED BY <2>1, <2>2 DEF Elems
  <1>4. q = <<>> => Elems(q) = {}  BY DEF Elems
  <1> QED BY <1>1, <1>2, <1>3, <1>4

LEMMA ElemsTail ==
  ASSUME NEW S, NEW q \in Seq(S), q # <<>>
  PROVE  /\ Tail(q) \in Seq(S)
         /\ \A i \in DOMAIN Tail(q) : i + 1 \in DOMAIN q /\ Tail(q)[i] = q[i + 1] /\ i \in Nat /\ i > 0
         /\ Elems(Tail(q)) \subseteq Elems(q)
         /\ Elems(q) \subseteq Elems(Tail(q)) \cup {Head(q)}
  <1>1. /\ Tail(q) \in Seq(S) /\ Len(Tail(q)) = Len(q) - 1 /\ Len(q) \in Nat /\ Len(q) # 0 /\ Head(q) = q[1]
        /\ \A i \in 1 .. Len(Tail(q)) : Tail(q)[i] = q[i + 1]
    BY EmptySeq, HeadTailProperties
  <1>2. DOMAIN Tail(q) = 1 .. Len(q) - 1 /\ DOMAIN q = 1 .. Len(q)  BY <1>1
  <1>3. \A i \in DOMAIN Tail(q) : i + 1 \in DOMAIN q /\ Tail(q)[i] = q[i + 1] /\ i \in Nat /\ i > 0
    BY <1>1, <1>2
  <1>4. Elems(Tail(q)) \subseteq Elems(q)  BY <1>3 DEF Elems
  <1>5. ASSUME NEW i \in DOMAIN q, i # 1 PROVE q[i] \in Elems(Tail(q))
    <2>1. i - 1 \in DOMAIN Tail(q) /\ (i - 1) + 1 = i  BY <1>1, <1>2, <1>5
    <2>2. Tail(q)[i - 1] = q[i]  BY <1>3, <2>1
    <2> QED BY <2>1, <2>2 DEF Elems
  <1>6. Elems(q) \subseteq Elems(Tail(q)) \cup {Head(q)}  BY <1>1, <1>5 DEF Elems
  <1> QED BY <1>1, <1>3, <1>4, <1>6

LEMMA ElemsAppend ==
  ASSUME NEW S, NEW q \in Seq(S), NEW x \in S
  PROVE  /\ Append(q, x) \in Seq(S) /\ Elems(Append(q, x)) = Elems(q) \cup {x}
         /\ DOMAIN Append(q, x) = DOMAIN q \cup {Len(q) + 1} /\ Append(q, x)[Len(q) + 1] = x
         /\ \A i \in DOMAIN q : Append(q, x)[i] = q[i]
  <1>1. DOMAIN q = 1 .. Len(q) /\ Len(q) \in Nat  OBVIOUS
  <1>2. /\ Append(q, x) \in Seq(S) /\ Len(Append(q, x)) = Len(q) + 1
        /\ \A i \in 1 .. Len(q) : Append(q, x)[i] = q[i]
        /\ Append(q, x)[Len(q) + 1] = x
    BY AppendProperties
  <1>3. DOMAIN Append(q, x) = 1 .. Len(q) + 1  BY <1>2
  <1>4. 1 .. Len(q) + 1 = (1 .. Len(q)) \cup {Len(q) + 1}  BY <1>1
  <1> QED BY <1>1, <1>2, <1>3, <1>4 DEF Elems

LEMMA TailDistinct ==
  ASSUME NEW S, NEW q \in Seq(S), q # <<>>, KeyDistinct(q)
  PROVE  KeyDistinct(Tail(q)) /\ \A x \in Elems(Tail(q)) : Key(x) # Key(Head(q))
  <1>1. \A i \in DOMAIN Tail(q) : i + 1 \in DOMAIN q /\ Tail(q)[i] = q[i + 1] /\ i \in Nat /\ i > 0
    BY ElemsTail
  <1>2. Head(q) = q[1] /\ 1 \in DOMAIN q
    <2>1. Len(q) # 0 /\ Head(q) = q[1] /\ DOMAIN q = 1 .. Len(q) /\ Len(q) \in Nat  BY EmptySeq
    <2> QED BY <2>1
  <1>3. KeyDistinct(Tail(q))
    <2> SUFFICES ASSUME NEW i \in DOMAIN Tail(q), NEW j \in DOMAIN Tail(q),
                        Key(Tail(q)[i]) = Key(Tail(q)[j])
                 PROVE  i = j
      BY DEF KeyDistinct
    <2>1. i + 1 = j + 1  BY <1>1 DEF KeyDistinct
    <2> QED BY <1>1, <2>1
  <1>4. ASSUME NEW i \in DOMAIN Tail(q) PROVE Key(Tail(q)[i]) # Key(Head(q))
    <2>1. i + 1 # 1 /\ i + 1 \in DOMAIN q /\ Tail(q)[i] = q[i + 1]  BY <1>1
    <2> QED BY <1>2, <2>1 DEF KeyDistinct
  <1> QED BY <1>3, <1>4 DEF Elems

LEMMA AppendDistinct ==
  ASSUME NEW S, NEW q \in Seq(S), KeyDistinct(q), NEW x \in S, \A y \in Elems(q) : Key(y) # Key(x)
  PROVE  KeyDistinct(Append(q, x))
  <1>1. /\ DOMAIN Append(q, x) = DOMAIN q \cup {Len(q) + 1} /\ Append(q, x)[Len(q) + 1] = x
        /\ \A i \in DOMAIN q : Append(q, x)[i] = q[i]
    BY ElemsAppend
  <1>2. \A i \in DOMAIN q : q[i] \in Elems(q)  BY DEF Elems
  <1> QED BY <1>1, <1>2 DEF KeyDistinct

LEMMA EmptyDistinct == KeyDistinct(<<>>) /\ Elems(<<>>) = {}
  BY DEF KeyDistinct, Elems

LEMMA OneDistinct ==
  ASSUME NEW x
  PROVE  KeyDistinct(<<x>>) /\ Elems(<<x>>) = {x}
  BY DEF KeyDistinct, Elems

(* SetToSeq lists every element of a finite set once. *)
LEMMA SetToSeqLists ==
  ASSUME NEW S, IsFiniteSet(S)
  PROVE  /\ SetToSeq(S) \in Seq(S) /\ Elems(SetToSeq(S)) = S
         /\ \A a, b \in DOMAIN SetToSeq(S) : SetToSeq(S)[a] = SetToSeq(S)[b] => a = b
  <1> DEFINE n == Cardinality(S)
             f == SetToSeq(S)
  <1>1. n \in Nat  BY FS_CardinalityType
  <1>2. \E g \in [1 .. n -> S] : IsInjective(g)
    <2>1. PICK m \in Nat : ExistsBijection(1 .. m, S)  BY FS_NatBijection
    <2>2. m = n  BY <2>1, FS_CountingElements
    <2>3. PICK g : g \in Bijection(1 .. m, S)  BY <2>1 DEF ExistsBijection
    <2> QED BY <2>2, <2>3 DEF Bijection, Injection, IsInjective
  <1>3. f \in [1 .. n -> S] /\ IsInjective(f)  BY <1>2 DEF SetToSeq
  <1> HIDE DEF f
  <1>4. f \in Seq(S) /\ DOMAIN f = 1 .. n  BY <1>1, <1>3
  <1>5. f \in Injection(1 .. n, S)  BY <1>3 DEF Injection
  <1>6. Cardinality(1 .. n) = n
    <2>1. n = 0 \/ n >= 1  BY <1>1
    <2> QED BY <1>1, FS_Interval
  <1>7. f \in Surjection(1 .. n, S)  BY <1>5, <1>6, FS_Injection
  <1>8. Elems(f) = S  BY <1>4, <1>7, <1>3 DEF Surjection, Elems
  <1> QED BY <1>3, <1>4, <1>8 DEF f, IsInjective

-----------------------------------------------------------------------------
(* The link moves on. *)

LEMMA ConnFacts ==
  ASSUME Shapes, NEW g \in Conn
  PROVE  /\ conn[g] \in ConnType /\ conn[g].req \in Seq(Req) /\ conn[g].resp \in Seq(Resp)
         /\ Asked(g) \subseteq Req /\ Told(g) \subseteq Resp
  <1>1. conn[g] \in ConnType  BY DEF Shapes
  <1>2. conn[g].req \in Seq(Req) /\ conn[g].resp \in Seq(Resp)  BY <1>1 DEF ConnType
  <1> QED BY <1>1, <1>2, ElemsOfSeq DEF Asked, Told

LEMMA KeyOfReq ==
  /\ \A q \in Req : Key(q) = q
  /\ \A a \in Resp : Key(a) \in Req /\ Key(a).rid = a.rid /\ Key(a).op = a.op /\ Key(a).arg = a.arg
  BY DEF Req, Resp, Key, Request

(* Only the link changed: the jobs, the files, the orders and what was     *)
(* executed did not.  (Halts may have been forgotten: the engine may die.) *)
LinkStep ==
  /\ UNCHANGED <<job, row, ran, nextRid, live, owner, accepted, missed, status, wireId>>
  /\ HaltOK'

LEMMA SameIds ==
  ASSUME wireId' = wireId
  PROVE  \A r : Reused(r)' <=> Reused(r)
  BY DEF Reused

(* The senders that stay in the map are those of calls that still wait. *)
LEMMA PendingStay ==
  ASSUME AdminInv, wireId' = wireId, pending' \in [Rid -> Tasks \cup {None}],
         \A i \in Rid : pending'[i] # None =>
           /\ pending'[i] = pending[i] /\ call'[pending[i]] # None
           /\ call'[pending[i]].got = None /\ call'[pending[i]].req = call[pending[i]].req
  PROVE  PendingOK'
  BY DEF AdminInv, PendingOK

(* The calls stay, for the same requests, and none goes back to writing. *)
SameCalls ==
  /\ call' \in [Tasks -> Call \cup {None}]
  /\ \A t \in Tasks :
       /\ call'[t] = None <=> call[t] = None
       /\ call[t] # None => /\ call'[t].req = call[t].req
                            /\ call[t].step = "wait" => call'[t].step = "wait"

LEMMA LinkJobs ==
  ASSUME AdminInv, LinkStep, SameCalls
  PROVE  JobsOK' /\ HaltOK' /\ IdsOK'
  <1>1. JobsOK'
    <2>1. ASSUME NEW t \in Tasks, job[t] # None PROVE JobOK(t)'
      <3>1. JobOK(t)  BY <2>1 DEF AdminInv, JobsOK
      <3>2. (call'[t] = None <=> call[t] = None) /\ (call[t] # None => call'[t].req = call[t].req)
        BY DEF SameCalls
      <3> QED BY <3>1, <3>2 DEF JobOK, LinkStep
    <2> QED BY <2>1 DEF AdminInv, JobsOK, LinkStep, SameCalls
  <1>2. HaltOK' /\ IdsOK'  BY DEF AdminInv, IdsOK, LinkStep
  <1> QED BY <1>1, <1>2

(* Messages only get fewer. *)
Fewer ==
  \A g \in Conn : /\ Asked(g)' \subseteq Asked(g) /\ Told(g)' \subseteq Told(g)
                  /\ KeyDistinct(conn'[g].req) /\ KeyDistinct(conn'[g].resp)

LEMMA FewerFlight ==
  ASSUME AdminInv, LinkStep, Fewer
  PROVE  /\ FlightOK' /\ OnItsWay' \subseteq OnItsWay /\ \A q : Sent(ran', conn', q) => Sent(ran, conn, q)
  <1>1. FlightOK  BY DEF AdminInv
  <1>2. ran' = ran /\ nextRid' = nextRid  BY DEF LinkStep
  <1>3. \A g, h \in Conn : g # h =>
          /\ Asked(g)' \cap Asked(h)' = {}
          /\ \A a \in Told(g)', b \in Told(h)' : Key(a) # Key(b)
    BY <1>1 DEF Fewer, FlightOK
  <1>4. \A g \in Conn : \A q \in Asked(g)' : q \notin Elems(ran[q.rid]) /\ q.rid < nextRid
    BY <1>1 DEF Fewer, FlightOK
  <1>5. \A g \in Conn : \A a \in Told(g)' : Key(a) \in Elems(ran[a.rid])
    BY <1>1 DEF Fewer, FlightOK
  <1>6. FlightOK'  BY <1>1, <1>2, <1>3, <1>4, <1>5 DEF FlightOK, Fewer
  <1>7. OnItsWay' \subseteq OnItsWay  BY DEF OnItsWay, Fewer
  <1>8. \A q : Sent(ran', conn', q) => Sent(ran, conn, q)  BY <1>2 DEF Sent, Fewer, Asked
  <1> QED BY <1>6, <1>7, <1>8

LEMMA LinkUnsent ==
  ASSUME AdminInv, LinkStep, SameCalls, \A q : Sent(ran', conn', q) => Sent(ran, conn, q)
  PROVE  UnsentOK'
  <1> SUFFICES ASSUME NEW t \in Tasks, job[t] # None
               PROVE  /\ call'[t] # None /\ call'[t].step = "write" => ~Sent(ran', conn', call'[t].req)
                      /\ \A i \in DOMAIN job[t].todo : i > 1 \/ call'[t] = None =>
                           ~Sent(ran', conn', Request(job[t].rid, OpOf(job[t].kind), job[t].todo[i]))
    BY DEF UnsentOK, LinkStep
  <1>1. /\ call[t] # None /\ call[t].step = "write" => ~Sent(ran, conn, call[t].req)
        /\ \A i \in DOMAIN job[t].todo :
             i > 1 \/ call[t] = None => ~Sent(ran, conn, Request(job[t].rid, OpOf(job[t].kind), job[t].todo[i]))
    BY DEF AdminInv, UnsentOK
  <1>2. ASSUME call'[t] # None, call'[t].step = "write" PROVE ~Sent(ran', conn', call'[t].req)
    <2>1. call[t] # None /\ call'[t].req = call[t].req  BY <1>2 DEF SameCalls
    <2>2. call[t] \in Call  BY <2>1 DEF AdminInv, Shapes
    <2>3. call[t].step = "write"  BY <1>2, <2>1, <2>2 DEF SameCalls, Call
    <2> QED BY <1>1, <2>1, <2>3
  <1> QED BY <1>1, <1>2 DEF SameCalls

(* No call got an answer: it may have failed. *)
NoAnswers ==
  \A t \in Tasks : call[t] # None => call'[t].got = call[t].got \/ call'[t].got \in Failure

LEMMA RespIsNoFailure == \A a \in Resp : a \notin Failure /\ a.op \notin {"io", "timeout"}
  BY DEF Resp, Failure, Io, TimedOut, Op

LEMMA LinkQuiet ==
  ASSUME AdminInv, LinkStep, Shapes', PendingOK', SameCalls, Fewer, NoAnswers
  PROVE  AdminInv'
  <1>1. JobsOK' /\ HaltOK' /\ IdsOK' /\ \A r : Reused(r)' <=> Reused(r)
    BY LinkJobs, SameIds DEF LinkStep
  <1>2. FlightOK' /\ OnItsWay' \subseteq OnItsWay /\ \A q : Sent(ran', conn', q) => Sent(ran, conn, q)  BY FewerFlight
  <1>3. UnsentOK'  BY <1>2, LinkUnsent
  <1>4. ASSUME NEW t \in Tasks, call'[t] # None, call'[t].got \in Resp
        PROVE  call[t] # None /\ call'[t].req = call[t].req /\ call'[t].got = call[t].got
    <2>1. call[t] # None /\ call'[t].req = call[t].req  BY <1>4 DEF SameCalls
    <2> QED BY <1>4, <2>1, RespIsNoFailure DEF NoAnswers
  <1>5. AwaitedOK'
    <2>1. ASSUME NEW t \in Tasks, job[t] # None, ~Reused(job[t].rid), NEW m \in OnItsWay', m.rid = job[t].rid
          PROVE  Awaited(t, m)'
      <3>1. Awaited(t, m)  BY <1>2, <2>1 DEF AdminInv, AwaitedOK
      <3> QED BY <3>1 DEF Awaited, LinkStep, SameCalls, NoAnswers
    <2>2. ASSUME NEW t \in Tasks, job[t] # None, ~Reused(job[t].rid), call'[t] # None, call'[t].got \in Resp
          PROVE  OwnAnswer(t)'
      BY <1>4, <2>2 DEF AdminInv, AwaitedOK, OwnAnswer, LinkStep
    <2>3. ASSUME NEW t \in Tasks, job[t] # None, ~Reused(job[t].rid),
                 call'[t] # None, call'[t].step = "write", job[t].kind # "view"
          PROVE  call'[t].got = None \/ call'[t].got \in Failure
      <3>1. call[t] # None /\ call[t] \in Call  BY <2>3 DEF SameCalls, AdminInv, Shapes
      <3>2. call[t].step = "write"  BY <2>3, <3>1 DEF SameCalls, Call
      <3>3. call[t].got = None \/ call[t].got \in Failure
        BY <2>3, <3>1, <3>2 DEF AdminInv, AwaitedOK
      <3> QED BY <3>1, <3>3 DEF NoAnswers
    <2> QED BY <1>1, <2>1, <2>2, <2>3 DEF AwaitedOK, LinkStep
  <1>6. OrdersOK'
    <2>1. OrdersOK /\ Gone' = Gone  BY DEF AdminInv, LinkStep, Gone
    <2>2. \A t \in Tasks : call'[t] # None /\ call'[t].got \in Resp => call'[t].got.ids \subseteq Gone
      BY <1>4, <2>1 DEF OrdersOK
    <2> QED BY <2>1, <2>2 DEF OrdersOK, LinkStep, Fewer
  <1>7. ReachOK'
    <2>1. ReachOK  BY DEF AdminInv
    <2>3. ASSUME NEW t \in Tasks, job[t] # None, job[t].kind = "cancel_all", ~Reused(job[t].rid)
          PROVE  /\ \A g \in Conn : \A a \in Told(g)' : a.rid = job[t].rid => Reached(job[t].seen, live, owner, a.arg)
                 /\ call'[t] # None /\ call'[t].got \in Resp => Reached(job[t].seen, live, owner, call'[t].got.arg)
      BY <1>4, <2>1, <2>3 DEF ReachOK, Fewer
    <2> QED BY <1>1, <2>1, <2>3 DEF ReachOK, LinkStep
  <1> QED BY <1>1, <1>2, <1>3, <1>5, <1>6, <1>7 DEF AdminInv

(* A connection whose queues shrink or stay. *)
LEMMA Conns ==
  ASSUME AdminInv, NEW c \in [Conn -> ConnType], conn' = c,
         \A g \in Conn :
           /\ c[g].req = conn[g].req \/ c[g].req = <<>>
           /\ c[g].resp = conn[g].resp \/ c[g].resp = <<>>
  PROVE  Fewer
  <1>1. FlightOK  BY DEF AdminInv
  <1> SUFFICES ASSUME NEW g \in Conn
               PROVE  /\ Elems(c[g].req) \subseteq Elems(conn[g].req)
                      /\ Elems(c[g].resp) \subseteq Elems(conn[g].resp)
                      /\ KeyDistinct(c[g].req) /\ KeyDistinct(c[g].resp)
    BY DEF Fewer, Asked, Told
  <1> QED BY <1>1, EmptyDistinct DEF FlightOK

LEMMA SameQueues ==
  ASSUME AdminInv, conn' = conn
  PROVE  Fewer
  BY DEF AdminInv, FlightOK, Fewer, Asked, Told

LEMMA SameCallsStay ==
  ASSUME AdminInv, call' = call
  PROVE  SameCalls /\ NoAnswers
  BY DEF AdminInv, Shapes, SameCalls, NoAnswers

(* One call changes its step or fails. *)
LEMMA OneCall ==
  ASSUME AdminInv, NEW t \in Tasks, call[t] # None, NEW c \in Call, call' = [call EXCEPT ![t] = c],
         c.req = call[t].req, c.step = "wait", c.got = call[t].got \/ c.got \in Failure
  PROVE  SameCalls /\ NoAnswers
  <1>1. call \in [Tasks -> Call \cup {None}]  BY DEF AdminInv, Shapes
  <1>2. call'[t] = c /\ \A u \in Tasks : u # t => call'[u] = call[u]  BY <1>1
  <1>3. c # None  BY NoneAssumption
  <1>4. call' \in [Tasks -> Call \cup {None}]  BY <1>1
  <1> QED BY <1>2, <1>3, <1>4 DEF SameCalls, NoAnswers

LEMMA ShapesLink ==
  ASSUME AdminInv, LinkStep, conn' \in [Conn -> ConnType], SameCalls, pending' \in [Rid -> Tasks \cup {None}],
         writer' \in Conn \cup {None},
         \A g \in Conn : conn'[g].state = "unused" => conn'[g].reader = "none"
  PROVE  Shapes'
  BY DEF AdminInv, Shapes, LinkStep, SameCalls

LEMMA CallIs ==
  ASSUME AdminInv, NEW t \in Tasks, call[t] # None
  PROVE  /\ call[t] \in Call /\ job[t] # None /\ job[t] \in Job /\ JobOK(t)
         /\ call[t].req \in Req /\ call[t].got \in Resp \cup Failure \cup {None}
         /\ call[t].step \in {"write", "wait"}
  <1>1. call[t] \in Call  BY DEF AdminInv, Shapes
  <1>2. job[t] # None  BY DEF AdminInv, JobsOK
  <1>3. job[t] \in Job /\ JobOK(t)  BY <1>2 DEF AdminInv, JobsOK, Shapes
  <1> QED BY <1>1, <1>2, <1>3 DEF Call

(* The call under an id, and the entry under it, are the only ones that    *)
(* change.                                                                 *)
LEMMA EntryGone ==
  ASSUME AdminInv, wireId' = wireId, NEW w \in Rid, pending' = [pending EXCEPT ![w] = None],
         \A u \in Tasks : call[u] # None /\ wireId[call[u].req.rid] # w => call'[u] = call[u]
  PROVE  PendingOK' /\ pending' \in [Rid -> Tasks \cup {None}]
  <1>1. pending \in [Rid -> Tasks \cup {None}] /\ PendingOK  BY DEF AdminInv, Shapes
  <1>2. pending' \in [Rid -> Tasks \cup {None}]  BY <1>1
  <1>3. ASSUME NEW i \in Rid, pending'[i] # None
        PROVE  /\ pending'[i] = pending[i] /\ call'[pending[i]] # None
               /\ call'[pending[i]].got = None /\ call'[pending[i]].req = call[pending[i]].req
    <2>1. i # w /\ pending'[i] = pending[i] /\ pending[i] # None /\ pending[i] \in Tasks  BY <1>1, <1>3
    <2>2. /\ call[pending[i]] # None /\ call[pending[i]].got = None
          /\ wireId[call[pending[i]].req.rid] = i
      BY <1>1, <2>1 DEF PendingOK
    <2> QED BY <2>1, <2>2
  <1> QED BY <1>2, <1>3, PendingStay

LEMMA DroppedFacts ==
  ASSUME AdminInv, NEW S \in SUBSET Rid
  PROVE  /\ Dropped(S) \in [Tasks -> Call \cup {None}]
         /\ \A t \in Tasks :
              \/ Dropped(S)[t] = call[t] /\ \A i \in S : pending[i] # t
              \/ /\ call[t] # None /\ wireId[call[t].req.rid] \in S
                 /\ Dropped(S)[t] \in Call /\ Dropped(S)[t] # None
                 /\ Dropped(S)[t].req = call[t].req /\ Dropped(S)[t].step = call[t].step
                 /\ Dropped(S)[t].got = Io
  <1>1. /\ call \in [Tasks -> Call \cup {None}] /\ pending \in [Rid -> Tasks \cup {None}] /\ PendingOK
    BY DEF AdminInv, Shapes
  <1>2. ASSUME NEW t \in Tasks, NEW i \in S, pending[i] = t
        PROVE  /\ call[t] # None /\ wireId[call[t].req.rid] \in S
               /\ Dropped(S)[t] \in Call /\ Dropped(S)[t] # None
               /\ Dropped(S)[t].req = call[t].req /\ Dropped(S)[t].step = call[t].step
               /\ Dropped(S)[t].got = Io
    <2>1. pending[i] # None  BY <1>2, NoneAssumption
    <2>2. call[t] # None /\ wireId[call[t].req.rid] = i  BY <1>2, <2>1, <1>1 DEF PendingOK
    <2>3. call[t] \in Call  BY <1>1, <2>2
    <2>4. Dropped(S)[t] = [call[t] EXCEPT !.got = Io]  BY <1>2 DEF Dropped
    <2>5. /\ Dropped(S)[t] \in Call /\ Dropped(S)[t].req = call[t].req
          /\ Dropped(S)[t].step = call[t].step /\ Dropped(S)[t].got = Io
      BY <2>3, <2>4 DEF Call, Failure
    <2> QED BY <1>2, <2>2, <2>5, NoneAssumption
  <1>3. ASSUME NEW t \in Tasks, \A i \in S : pending[i] # t PROVE Dropped(S)[t] = call[t]
    BY <1>3 DEF Dropped
  <1>4. \A t \in Tasks : Dropped(S)[t] \in Call \cup {None}  BY <1>1, <1>2, <1>3
  <1>5. Dropped(S) = [t \in Tasks |-> Dropped(S)[t]]  BY DEF Dropped
  <1> QED BY <1>2, <1>3, <1>4, <1>5

LEMMA TimeoutStep ==
  ASSUME AdminInv, LinkStep, NEW t \in Tasks, Timeout(t)
  PROVE  AdminInv'
  <1> DEFINE c == [call[t] EXCEPT !.got = TimedOut]
  <1>1. /\ call[t] # None /\ call[t] \in Call /\ call[t].step = "wait" /\ call[t].req.rid \in Rid
        /\ wireId[call[t].req.rid] \in Rid
    <2>1. call[t] # None /\ call[t] \in Call /\ call[t].step = "wait" /\ call[t].req \in Req
      BY CallIs DEF Timeout
    <2> QED BY <2>1 DEF Req, AdminInv, IdsOK
  <1>2. call \in [Tasks -> Call \cup {None}] /\ Shapes  BY DEF AdminInv, Shapes
  <1>3. c \in Call /\ c.req = call[t].req /\ c.step = "wait" /\ c.got \in Failure
    BY <1>1 DEF Call, Failure
  <1>4. call' = [call EXCEPT ![t] = c]  BY <1>1, <1>2 DEF Timeout
  <1> HIDE DEF c
  <1>5. SameCalls /\ NoAnswers  BY <1>1, <1>3, <1>4, OneCall
  <1>6. conn' = conn /\ writer' = writer /\ pending' = [pending EXCEPT ![wireId[call[t].req.rid]] = None]
    BY DEF Timeout, IdOf
  <1>7. PendingOK' /\ pending' \in [Rid -> Tasks \cup {None}]
    <2>1. \A u \in Tasks : u # t => call'[u] = call[u]  BY <1>2, <1>4
    <2>2. wireId' = wireId  BY DEF LinkStep
    <2> QED BY <1>1, <1>6, <2>1, <2>2, EntryGone
  <1>8. Shapes'  BY <1>2, <1>5, <1>6, <1>7, ShapesLink DEF Shapes
  <1> QED BY <1>5, <1>6, <1>7, <1>8, SameQueues, LinkQuiet

LEMMA ConnectFailsStep ==
  ASSUME AdminInv, LinkStep, NEW t \in Tasks, ConnectFails(t)
  PROVE  AdminInv'
  <1>1. /\ call[t] # None /\ call[t] \in Call /\ call[t].req.rid \in Rid
        /\ wireId[call[t].req.rid] \in Rid
    <2>1. call[t] # None /\ call[t] \in Call /\ call[t].req \in Req  BY CallIs DEF ConnectFails, Writing
    <2> QED BY <2>1 DEF Req, AdminInv, IdsOK
  <1>2. call \in [Tasks -> Call \cup {None}] /\ Shapes  BY DEF AdminInv, Shapes
  <1>3. PICK w \in Rid : w = wireId[call[t].req.rid]  BY <1>1
  <1> DEFINE D == Dropped({w})
             c == [D[t] EXCEPT !.step = "wait", !.got = Io]
  <1>4. /\ D \in [Tasks -> Call \cup {None}]
        /\ \A u \in Tasks :
             \/ D[u] = call[u]
             \/ /\ call[u] # None /\ wireId[call[u].req.rid] \in {w}
                /\ D[u] \in Call /\ D[u] # None
                /\ D[u].req = call[u].req /\ D[u].step = call[u].step /\ D[u].got = Io
    BY DroppedFacts
  <1>5. call' = [D EXCEPT ![t].step = "wait", ![t].got = Io]
        /\ conn' = conn /\ writer' = None /\ pending' = [pending EXCEPT ![w] = None]
    BY <1>3 DEF ConnectFails, IdOf
  <1> HIDE DEF D
  <1>6. call' = [D EXCEPT ![t] = c]  BY <1>4, <1>5
  <1>7. c \in Call /\ c.req = call[t].req /\ c.step = "wait" /\ c.got = Io
    <2>1. D[t] \in Call /\ D[t].req = call[t].req  BY <1>1, <1>4
    <2> QED BY <2>1 DEF Call, Failure
  <1> HIDE DEF c
  <1>8. /\ call'[t] = c /\ c # None /\ \A u \in Tasks : u # t => call'[u] = D[u]
        /\ call' \in [Tasks -> Call \cup {None}] /\ Io \in Failure
    BY <1>4, <1>6, <1>7, NoneAssumption DEF Failure
  <1>9. ASSUME NEW u \in Tasks
        PROVE  /\ call'[u] = None <=> call[u] = None
               /\ call[u] # None => /\ call'[u].req = call[u].req
                                    /\ call[u].step = "wait" => call'[u].step = "wait"
                                    /\ call'[u].got = call[u].got \/ call'[u].got \in Failure
    <2>1. CASE u = t  BY <1>1, <1>7, <1>8, <2>1
    <2>2. CASE u # t /\ D[u] = call[u]  BY <1>8, <2>2
    <2>3. CASE u # t /\ D[u] # call[u]  BY <1>4, <1>8, <2>3
    <2> QED BY <2>1, <2>2, <2>3
  <1>10. SameCalls /\ NoAnswers  BY <1>8, <1>9 DEF SameCalls, NoAnswers
  <1>11. PendingOK' /\ pending' \in [Rid -> Tasks \cup {None}]
    <2>1. \A u \in Tasks : call[u] # None /\ wireId[call[u].req.rid] # w => call'[u] = call[u]
      BY <1>3, <1>4, <1>8
    <2>2. wireId' = wireId  BY DEF LinkStep
    <2> QED BY <1>5, <2>1, <2>2, EntryGone
  <1>12. Shapes'  BY <1>2, <1>5, <1>10, <1>11, ShapesLink DEF Shapes
  <1> QED BY <1>5, <1>10, <1>11, <1>12, SameQueues, LinkQuiet

LEMMA ReaderClearsStep ==
  ASSUME AdminInv, LinkStep, NEW g \in Conn, ReaderClears(g)
  PROVE  AdminInv'
  <1>1. call \in [Tasks -> Call \cup {None}] /\ Shapes /\ conn \in [Conn -> ConnType]
    BY DEF AdminInv, Shapes
  <1>2. SameCalls /\ NoAnswers
    <2>1. Rid \in SUBSET Rid /\ Io \in Failure /\ call' = Dropped(Rid)  BY DEF Failure, ReaderClears
    <2>2. /\ Dropped(Rid) \in [Tasks -> Call \cup {None}]
          /\ \A t \in Tasks :
               \/ Dropped(Rid)[t] = call[t]
               \/ /\ call[t] # None /\ Dropped(Rid)[t] # None
                  /\ Dropped(Rid)[t].req = call[t].req /\ Dropped(Rid)[t].step = call[t].step
                  /\ Dropped(Rid)[t].got = Io
      BY <2>1, DroppedFacts
    <2> QED BY <2>1, <2>2 DEF SameCalls, NoAnswers
  <1> DEFINE c == [conn EXCEPT ![g].reader = "done"]
  <1>3. c \in [Conn -> ConnType] /\ conn' = c  BY <1>1 DEF ReaderClears, ConnType
  <1>4. \A h \in Conn : c[h].req = conn[h].req /\ c[h].resp = conn[h].resp /\ c[h].state = conn[h].state
                        /\ (h # g => c[h] = conn[h])
    BY <1>1 DEF ConnType
  <1>5. conn[g].state # "unused"  BY <1>1 DEF Shapes, ReaderClears
  <1>6. Fewer  BY <1>3, <1>4, Conns
  <1>7. pending' \in [Rid -> Tasks \cup {None}] /\ PendingOK'  BY DEF ReaderClears, PendingOK
  <1>8. Shapes'
    <2>1. \A h \in Conn : c[h].state = "unused" => c[h].reader = "none"  BY <1>1, <1>4, <1>5 DEF Shapes
    <2>2. writer' \in Conn \cup {None}  BY <1>1 DEF ReaderClears, Shapes
    <2> HIDE DEF c
    <2> QED BY <1>2, <1>3, <1>7, <2>1, <2>2, ShapesLink
  <1> QED BY <1>2, <1>6, <1>7, <1>8, LinkQuiet

(* Steps that only touch connections: a reader that sees the end, the      *)
(* server that closes, a broken connection, the end of the engine.         *)
LEMMA ConnStep ==
  ASSUME AdminInv, LinkStep, NEW c \in [Conn -> ConnType], conn' = c, call' = call,
         pending' = pending, writer' \in {writer, None},
         \A g \in Conn :
           /\ c[g].req = conn[g].req \/ c[g].req = <<>>
           /\ c[g].resp = conn[g].resp \/ c[g].resp = <<>>
           /\ c[g].state = "unused" => c[g].reader = "none"
  PROVE  AdminInv'
  <1>1. Fewer  BY Conns
  <1>2. SameCalls /\ NoAnswers  BY SameCallsStay
  <1>3. writer' \in Conn \cup {None}  BY DEF AdminInv, Shapes
  <1>4. PendingOK' /\ pending' \in [Rid -> Tasks \cup {None}]
    BY DEF AdminInv, Shapes, PendingOK, LinkStep
  <1>5. Shapes'  BY <1>2, <1>3, <1>4, ShapesLink
  <1> QED BY <1>1, <1>2, <1>4, <1>5, LinkQuiet

LEMMA ConnSteps ==
  ASSUME AdminInv, LinkStep,
         \/ \E g \in Conn : ReaderEnds(g) \/ ServerSeesEof(g) \/ GoesDeaf(g) \/ NetworkBreaks(g)
         \/ EngineDies \/ EngineStarts \/ UNCHANGED linkVars
  PROVE  AdminInv'
  <1>1. /\ conn \in [Conn -> ConnType]
        /\ \A g \in Conn : conn[g].state = "unused" => conn[g].reader = "none"
    BY DEF AdminInv, Shapes
  <1>2. ASSUME NEW x \in ConnType
        PROVE  /\ Lost(x) \in ConnType /\ Lost(x).reader = x.reader
               /\ Lost(x).req = x.req \/ Lost(x).req = <<>>
               /\ Lost(x).resp = x.resp \/ Lost(x).resp = <<>>
               /\ Lost(x).state = "unused" => x.state = "unused"
    <2> DEFINE y == [x EXCEPT !.state = "broken", !.req = <<>>, !.resp = <<>>]
    <2>1. <<>> \in Seq(Req) /\ <<>> \in Seq(Resp)  OBVIOUS
    <2>2. y \in ConnType /\ y.reader = x.reader /\ y.req = <<>> /\ y.resp = <<>> /\ y.state = "broken"
      BY <2>1 DEF ConnType
    <2>3. Lost(x) = IF Open(x) THEN y ELSE x  BY DEF Lost
    <2> HIDE DEF y
    <2> QED BY <2>2, <2>3
  <1>3. ASSUME NEW g \in Conn, ReaderEnds(g) PROVE AdminInv'
    <2> DEFINE c == [conn EXCEPT ![g].reader = "clearing"]
    <2>1. /\ c \in [Conn -> ConnType] /\ conn' = c /\ call' = call /\ pending' = pending /\ writer' = None
      BY <1>1, <1>3 DEF ReaderEnds, ConnType
    <2>2. \A h \in Conn : c[h].req = conn[h].req /\ c[h].resp = conn[h].resp /\ c[h].state = conn[h].state
                          /\ (h # g => c[h] = conn[h])
      BY <1>1 DEF ConnType
    <2>3. conn[g].state # "unused"  BY <1>3 DEF ReaderEnds
    <2>4. \A h \in Conn : c[h].state = "unused" => c[h].reader = "none"  BY <1>1, <2>2, <2>3
    <2> HIDE DEF c
    <2> QED BY <2>1, <2>2, <2>4, ConnStep
  <1>4. ASSUME NEW g \in Conn, ServerSeesEof(g) PROVE AdminInv'
    <2> DEFINE c == [conn EXCEPT ![g].state = "broken"]
    <2>1. /\ c \in [Conn -> ConnType] /\ conn' = c /\ call' = call /\ pending' = pending /\ writer' = writer
      BY <1>1, <1>4 DEF ServerSeesEof, ConnType
    <2>2. \A h \in Conn : c[h].req = conn[h].req /\ c[h].resp = conn[h].resp /\ c[h].reader = conn[h].reader
                          /\ (h # g => c[h] = conn[h])
      BY <1>1 DEF ConnType
    <2>3. c[g].state = "broken"  BY <1>1 DEF ConnType
    <2>4. \A h \in Conn : c[h].state = "unused" => c[h].reader = "none"  BY <1>1, <2>2, <2>3
    <2> HIDE DEF c
    <2> QED BY <2>1, <2>2, <2>4, ConnStep
  <1>5. ASSUME NEW g \in Conn, NetworkBreaks(g) PROVE AdminInv'
    <2> DEFINE c == [conn EXCEPT ![g] = Lost(conn[g])]
    <2>1. /\ c \in [Conn -> ConnType] /\ conn' = c /\ call' = call /\ pending' = pending /\ writer' = writer
      BY <1>1, <1>2, <1>5 DEF NetworkBreaks
    <2>2. \A h \in Conn : c[h] = Lost(conn[h]) \/ c[h] = conn[h]  BY <1>1
    <2> HIDE DEF c
    <2> QED BY <1>1, <1>2, <2>1, <2>2, ConnStep
  <1>6. CASE EngineDies
    <2> DEFINE c == [g \in Conn |-> Lost(conn[g])]
    <2>1. /\ c \in [Conn -> ConnType] /\ conn' = c /\ call' = call /\ pending' = pending /\ writer' = writer
      BY <1>1, <1>2, <1>6 DEF EngineDies
    <2>2. \A h \in Conn : c[h] = Lost(conn[h])  BY <1>1
    <2> HIDE DEF c
    <2> QED BY <1>1, <1>2, <2>1, <2>2, ConnStep
  <1>7. CASE EngineStarts \/ UNCHANGED linkVars
    <2>1. conn' = conn /\ call' = call /\ pending' = pending /\ writer' = writer
      BY <1>7 DEF EngineStarts, linkVars
    <2> QED BY <1>1, <2>1, ConnStep
  <1>8. ASSUME NEW g \in Conn, GoesDeaf(g) PROVE AdminInv'
    <2> DEFINE c == [conn EXCEPT ![g].req = <<>>, ![g].state = "deaf"]
    <2>1. <<>> \in Seq(Req)  OBVIOUS
    <2>2. /\ c \in [Conn -> ConnType] /\ conn' = c /\ call' = call /\ pending' = pending /\ writer' = writer
      BY <1>1, <1>8, <2>1 DEF GoesDeaf, ConnType
    <2>3. \A h \in Conn : c[h].resp = conn[h].resp /\ c[h].reader = conn[h].reader
                          /\ (h # g => c[h] = conn[h])
      BY <1>1 DEF ConnType
    <2>4. c[g].state = "deaf" /\ c[g].req = <<>>  BY <1>1 DEF ConnType
    <2>5. \A h \in Conn : c[h].state = "unused" => c[h].reader = "none"  BY <1>1, <2>3, <2>4
    <2> HIDE DEF c
    <2> QED BY <2>2, <2>3, <2>4, <2>5, ConnStep
  <1> QED BY <1>3, <1>4, <1>5, <1>6, <1>7, <1>8

(* A request is written into a connection, at the end or as the first. *)
LEMMA WriteStep ==
  ASSUME AdminInv, LinkStep, NEW t \in Tasks, Writing(t), NEW g \in Conn,
         NEW c \in [Conn -> ConnType], conn' = c,
         \A h \in Conn \ {g} : c[h] = conn[h],
         c[g].resp = conn[g].resp \/ c[g].resp = <<>>,
         c[g].req = Append(conn[g].req, call[t].req) \/ c[g].req = <<call[t].req>>,
         c[g].state # "unused",
         call' = [call EXCEPT ![t].step = "wait"], pending' = pending, writer' \in Conn
  PROVE  AdminInv'
  <1>1. /\ Shapes /\ JobsOK /\ FlightOK /\ UnsentOK /\ AwaitedOK /\ OrdersOK /\ ReachOK
        /\ call \in [Tasks -> Call \cup {None}]
    BY DEF AdminInv, Shapes
  <1>2. /\ call[t] # None /\ call[t].step = "write" /\ call[t] \in Call /\ job[t] # None /\ job[t] \in Job
        /\ JobOK(t) /\ call[t].req \in Req /\ call[t].got \in Resp \cup Failure \cup {None}
    BY CallIs DEF Writing
  <1>3. PICK q \in Req : q = call[t].req  BY <1>2
  <1>4. PICK d : d = [call[t] EXCEPT !.step = "wait"]  OBVIOUS
  <1>5. d \in Call /\ d.req = q /\ d.step = "wait" /\ d.got = call[t].got /\ d # None
    <2>1. d \in Call /\ d.req = q /\ d.step = "wait" /\ d.got = call[t].got
      BY <1>2, <1>3, <1>4 DEF Call
    <2> QED BY <2>1, NoneAssumption
  <1>6. call' = [call EXCEPT ![t] = d] /\ call'[t] = d /\ \A u \in Tasks \ {t} : call'[u] = call[u]
    BY <1>1, <1>4
  <1>7. SameCalls /\ NoAnswers
    <2>1. call' \in [Tasks -> Call \cup {None}]  BY <1>1, <1>5, <1>6
    <2> QED BY <1>2, <1>3, <1>5, <1>6, <2>1 DEF SameCalls, NoAnswers
  <1>8. JobsOK' /\ HaltOK' /\ IdsOK' /\ \A r : Reused(r)' <=> Reused(r)
    BY <1>7, LinkJobs, SameIds DEF LinkStep
  <1>9. Shapes' /\ PendingOK'
    <2>1. \A h \in Conn : conn'[h].state = "unused" => conn'[h].reader = "none"  BY <1>1 DEF Shapes
    <2>2. pending' \in [Rid -> Tasks \cup {None}] /\ PendingOK /\ wireId' = wireId
      BY DEF AdminInv, Shapes, LinkStep
    <2>3. \A u \in Tasks : call[u] # None =>
            call'[u] # None /\ call'[u].got = call[u].got /\ call'[u].req = call[u].req
      BY <1>2, <1>3, <1>5, <1>6
    <2>4. PendingOK'  BY <2>2, <2>3, PendingStay DEF PendingOK
    <2> QED BY <1>7, <2>1, <2>2, <2>4, ShapesLink
  <1>10. ~Sent(ran, conn, q)  BY <1>1, <1>2, <1>3 DEF UnsentOK
  <1>11. q \notin Elems(ran[q.rid]) /\ \A h \in Conn : q \notin Asked(h)  BY <1>10 DEF Sent, Asked
  <1>12. q.rid = job[t].rid /\ q.rid < nextRid /\ q.op = OpOf(job[t].kind)  BY <1>2, <1>3 DEF JobOK
  <1>13. conn[g].req \in Seq(Req) /\ Asked(g) \subseteq Req  BY <1>1, ConnFacts
  <1>14. KeyDistinct(c[g].req) /\ Elems(c[g].req) \subseteq Asked(g) \cup {q}
    <2>1. CASE c[g].req = Append(conn[g].req, q)
      <3>1. KeyDistinct(conn[g].req)  BY <1>1 DEF FlightOK
      <3>2. \A y \in Elems(conn[g].req) : Key(y) # Key(q)  BY <1>11, <1>13, KeyOfReq DEF Asked
      <3> QED BY <1>13, <2>1, <3>1, <3>2, AppendDistinct, ElemsAppend DEF Asked
    <2>2. CASE c[g].req = <<q>>  BY <2>2, OneDistinct
    <2> QED BY <1>3, <2>1, <2>2
  <1>15. KeyDistinct(c[g].resp) /\ Elems(c[g].resp) \subseteq Told(g)
    BY <1>1, EmptyDistinct DEF FlightOK, Told
  <1>16. \A h \in Conn : /\ Asked(h)' \subseteq Asked(h) \cup {q} /\ Told(h)' \subseteq Told(h)
                         /\ (h # g => Asked(h)' = Asked(h))
                         /\ KeyDistinct(c[h].req) /\ KeyDistinct(c[h].resp)
    BY <1>1, <1>14, <1>15 DEF Asked, Told, FlightOK
  <1>17. FlightOK'
    <2>1. ran' = ran /\ nextRid' = nextRid  BY DEF LinkStep
    <2>2. \A h, k \in Conn : h # k =>
            /\ Asked(h)' \cap Asked(k)' = {}
            /\ \A a \in Told(h)', b \in Told(k)' : Key(a) # Key(b)
      BY <1>1, <1>11, <1>16 DEF FlightOK
    <2>3. \A h \in Conn : \A x \in Asked(h)' : x \notin Elems(ran[x.rid]) /\ x.rid < nextRid
      BY <1>1, <1>11, <1>12, <1>16 DEF FlightOK
    <2>4. \A h \in Conn : \A a \in Told(h)' : Key(a) \in Elems(ran[a.rid])
      BY <1>1, <1>16 DEF FlightOK
    <2> QED BY <1>1, <1>16, <2>1, <2>2, <2>3, <2>4 DEF FlightOK
  <1>18. \A x : Sent(ran', conn', x) => Sent(ran, conn, x) \/ x = q
    BY <1>16 DEF Sent, Asked, LinkStep
  <1>19. UnsentOK'
    <2> SUFFICES ASSUME NEW u \in Tasks, job[u] # None
                 PROVE  /\ call'[u] # None /\ call'[u].step = "write" => ~Sent(ran', conn', call'[u].req)
                        /\ \A i \in DOMAIN job[u].todo : i > 1 \/ call'[u] = None =>
                             ~Sent(ran', conn', Request(job[u].rid, OpOf(job[u].kind), job[u].todo[i]))
      BY DEF UnsentOK, LinkStep
    <2>1. /\ call[u] # None /\ call[u].step = "write" => ~Sent(ran, conn, call[u].req)
          /\ \A i \in DOMAIN job[u].todo : i > 1 \/ call[u] = None =>
               ~Sent(ran, conn, Request(job[u].rid, OpOf(job[u].kind), job[u].todo[i]))
          /\ JobOK(u) /\ job[u] \in Job
      BY <1>1 DEF UnsentOK, JobsOK, Shapes
    <2>2. CASE u # t
      <3>1. call'[u] = call[u] /\ job[u].rid # q.rid  BY <1>1, <1>2, <1>6, <1>12, <2>2 DEF JobsOK
      <3>2. call[u] # None => call[u].req # q  BY <2>1, <3>1 DEF JobOK
      <3>3. \A i : Request(job[u].rid, OpOf(job[u].kind), job[u].todo[i]) # q
        BY <3>1 DEF Request
      <3> QED BY <1>18, <2>1, <3>1, <3>2, <3>3
    <2>3. CASE u = t
      <3>1. call'[u] # None /\ call'[u].step = "wait"  BY <1>5, <1>6, <2>3
      <3>2. ASSUME NEW i \in DOMAIN job[t].todo, i > 1
            PROVE  Request(job[t].rid, OpOf(job[t].kind), job[t].todo[i]) # q
        <4>1. job[t].todo \in Seq(Traders \cup Symbols)  BY <1>2 DEF Job
        <4>2. DOMAIN job[t].todo = 1 .. Len(job[t].todo) /\ Len(job[t].todo) \in Nat
              /\ (job[t].todo # <<>> => Head(job[t].todo) = job[t].todo[1])
          BY <4>1
        <4>3. job[t].todo # <<>>  BY <3>2, <4>1
        <4>4. job[t].kind \in Several  BY <1>2, <4>3 DEF JobOK
        <4>5. q.arg = job[t].todo[1]  BY <1>2, <1>3, <4>2, <4>4 DEF JobOK
        <4>6. 1 \in DOMAIN job[t].todo /\ i # 1  BY <3>2, <4>2
        <4>7. job[t].todo[i] # job[t].todo[1]  BY <1>2, <4>6 DEF JobOK
        <4> QED BY <4>5, <4>7 DEF Request
      <3> QED BY <1>18, <2>1, <2>3, <3>1, <3>2
    <2> QED BY <2>2, <2>3
  <1>20. OnItsWay' \subseteq OnItsWay \cup {q}  BY <1>16 DEF OnItsWay
  <1>21. AwaitedOK'
    <2>1. ASSUME NEW u \in Tasks, job[u] # None, ~Reused(job[u].rid), NEW m \in OnItsWay', m.rid = job[u].rid
          PROVE  Awaited(u, m)'
      <3>1. CASE u # t
        <4>1. m # q  BY <1>1, <1>2, <1>12, <2>1, <3>1 DEF JobsOK
        <4>2. Awaited(u, m)  BY <1>1, <1>20, <2>1, <4>1 DEF AwaitedOK
        <4> QED BY <1>6, <3>1, <4>2 DEF Awaited, LinkStep
      <3>2. CASE u = t /\ m # q
        <4>1. Awaited(u, m)  BY <1>1, <1>20, <2>1, <3>2 DEF AwaitedOK
        <4>2. job[t].kind = "view"  BY <1>2, <3>2, <4>1 DEF Awaited
        <4> QED BY <3>2, <4>1, <4>2 DEF Awaited, LinkStep
      <3>3. CASE u = t /\ m = q
        <4>1. CASE job[t].kind = "view"
          <5>1. q.op = "snapshot"  BY <1>12, <4>1 DEF OpOf
          <5> QED BY <3>3, <4>1, <5>1 DEF Awaited, LinkStep
        <4>2. CASE job[t].kind # "view"
          <5>1. d.got = None \/ d.got \in Failure  BY <1>1, <1>2, <1>5, <2>1, <3>3, <4>2 DEF AwaitedOK
          <5> QED BY <1>5, <1>6, <3>3, <4>2, <5>1 DEF Awaited, LinkStep
        <4> QED BY <4>1, <4>2
      <3> QED BY <3>1, <3>2, <3>3
    <2>2. ASSUME NEW u \in Tasks, job[u] # None, ~Reused(job[u].rid), call'[u] # None, call'[u].got \in Resp
          PROVE  OwnAnswer(u)'
      BY <1>1, <1>2, <1>3, <1>5, <1>6, <2>2 DEF AwaitedOK, OwnAnswer, LinkStep
    <2>3. ASSUME NEW u \in Tasks, job[u] # None, ~Reused(job[u].rid),
                 call'[u] # None, call'[u].step = "write", job[u].kind # "view"
          PROVE  call'[u].got = None \/ call'[u].got \in Failure
      BY <1>1, <1>5, <1>6, <2>3 DEF AwaitedOK
    <2> QED BY <1>8, <2>1, <2>2, <2>3 DEF AwaitedOK, LinkStep
  <1>22. OrdersOK'
    <2>1. /\ Gone' = Gone /\ row' = row /\ accepted' = accepted /\ ran' = ran /\ job' = job
          /\ owner' = owner /\ nextRid' = nextRid
      BY DEF LinkStep, Gone
    <2>2. q.op = "place" => row[q.rid] # None /\ q.arg = row[q.rid].user
      <3> SUFFICES ASSUME q.op = "place" PROVE row[q.rid] # None /\ q.arg = row[q.rid].user  OBVIOUS
      <3>1. job[t].kind = "place"  BY <1>2, <1>12 DEF OpOf, Job, Kind, Several
      <3> QED BY <1>2, <1>3, <1>12, <3>1 DEF JobOK
    <2>3. \A h \in Conn : \A x \in Asked(h)' : x.op = "place" => row[x.rid] # None /\ x.arg = row[x.rid].user
      BY <1>1, <1>16, <2>2 DEF OrdersOK
    <2>4. \A h \in Conn : \A a \in Told(h)' : a.ids \subseteq Gone  BY <1>1, <1>16 DEF OrdersOK
    <2>5. \A u \in Tasks : call'[u] # None /\ call'[u].got \in Resp => call'[u].got.ids \subseteq Gone
      BY <1>1, <1>2, <1>5, <1>6 DEF OrdersOK
    <2> QED BY <1>1, <2>1, <2>3, <2>4, <2>5 DEF OrdersOK
  <1>23. ReachOK'
    <2>1. ASSUME NEW u \in Tasks, job[u] # None, job[u].kind = "cancel_all", ~Reused(job[u].rid)
          PROVE  /\ \A h \in Conn : \A a \in Told(h)' : a.rid = job[u].rid =>
                      Reached(job[u].seen, live, owner, a.arg)
                 /\ call'[u] # None /\ call'[u].got \in Resp => Reached(job[u].seen, live, owner, call'[u].got.arg)
      BY <1>1, <1>2, <1>5, <1>6, <1>16, <2>1 DEF ReachOK
    <2> QED BY <1>1, <1>8, <2>1 DEF ReachOK, LinkStep
  <1> QED BY <1>8, <1>9, <1>17, <1>19, <1>21, <1>22, <1>23 DEF AdminInv

LEMMA WriteFrameStep ==
  ASSUME AdminInv, LinkStep, NEW t \in Tasks, WriteFrame(t)
  PROVE  AdminInv'
  <1>1. /\ Shapes /\ conn \in [Conn -> ConnType] /\ call \in [Tasks -> Call \cup {None}]
        /\ writer \in Conn /\ Writing(t) /\ writer' = writer /\ pending' = pending
        /\ call' = [call EXCEPT ![t].step = "wait"]
    BY DEF AdminInv, Shapes, WriteFrame, Written
  <1>2. call[t] # None /\ call[t] \in Call /\ call[t].req \in Req  BY <1>1, CallIs DEF Writing
  <1>3. CASE conn[writer].state # "up"
    <2> DEFINE d == [call[t] EXCEPT !.step = "wait"]
    <2>1. d \in Call /\ d.req = call[t].req /\ d.step = "wait" /\ d.got = call[t].got  BY <1>2 DEF Call
    <2>2. call' = [call EXCEPT ![t] = d]  BY <1>1
    <2> HIDE DEF d
    <2>3. SameCalls /\ NoAnswers  BY <1>2, <2>1, <2>2, OneCall
    <2>4. conn' = conn  BY <1>3 DEF WriteFrame
    <2>5. pending' \in [Rid -> Tasks \cup {None}] /\ PendingOK /\ wireId' = wireId
      BY <1>1 DEF AdminInv, Shapes, LinkStep
    <2>6. \A u \in Tasks : call[u] # None =>
            call'[u] # None /\ call'[u].got = call[u].got /\ call'[u].req = call[u].req
      BY <1>1, <1>2, <2>1, <2>2, NoneAssumption
    <2>7. PendingOK'  BY <1>1, <2>5, <2>6, PendingStay DEF PendingOK
    <2>8. Shapes'  BY <1>1, <2>3, <2>4, <2>5, ShapesLink DEF Shapes
    <2> QED BY <2>3, <2>4, <2>7, <2>8, SameQueues, LinkQuiet
  <1>4. CASE conn[writer].state = "up"
    <2> DEFINE c == [conn EXCEPT ![writer].req = Append(@, call[t].req)]
    <2>1. conn[writer] \in ConnType /\ conn[writer].req \in Seq(Req)
      BY <1>1, ConnFacts
    <2>2. Append(conn[writer].req, call[t].req) \in Seq(Req)  BY <1>2, <2>1
    <2>3. /\ c \in [Conn -> ConnType] /\ conn' = c /\ \A h \in Conn \ {writer} : c[h] = conn[h]
          /\ c[writer].req = Append(conn[writer].req, call[t].req)
          /\ c[writer].resp = conn[writer].resp /\ c[writer].state = "up"
      BY <1>1, <1>4, <2>1, <2>2 DEF WriteFrame, ConnType
    <2> HIDE DEF c
    <2> QED BY <1>1, <2>3, WriteStep
  <1> QED BY <1>3, <1>4

LEMMA ReconnectStep ==
  ASSUME AdminInv, LinkStep, NEW t \in Tasks, Reconnect(t)
  PROVE  AdminInv'
  <1>1. /\ conn \in [Conn -> ConnType] /\ Writing(t) /\ pending' = pending
        /\ call' = [call EXCEPT ![t].step = "wait"]
    BY DEF AdminInv, Shapes, Reconnect, Written
  <1>2. call[t].req \in Req  BY <1>1, CallIs DEF Writing
  <1> DEFINE x == [state |-> "up", req |-> <<call[t].req>>, resp |-> <<>>, reader |-> "reading"]
  <1>3. PICK g \in Conn : conn' = [conn EXCEPT ![g] = x] /\ writer' = g  BY DEF Reconnect
  <1>4. x \in ConnType /\ x.req = <<call[t].req>> /\ x.resp = <<>> /\ x.state = "up"
    <2>1. <<call[t].req>> \in Seq(Req) /\ <<>> \in Seq(Resp)  BY <1>2
    <2> QED BY <2>1 DEF ConnType
  <1> HIDE DEF x
  <1> DEFINE c == [conn EXCEPT ![g] = x]
  <1>5. c \in [Conn -> ConnType] /\ conn' = c /\ c[g] = x /\ \A h \in Conn \ {g} : c[h] = conn[h]
    BY <1>1, <1>3, <1>4
  <1> HIDE DEF c
  <1> QED BY <1>1, <1>3, <1>4, <1>5, WriteStep

(* The reader hands an answer to the call that waits for it.  It is the    *)
(* answer to that call's request, and there is no second one.              *)
LEMMA ReadStep ==
  ASSUME AdminInv, LinkStep, NEW g \in Conn, ReadResponse(g)
  PROVE  AdminInv'
  <1>a. /\ conn[g].resp # <<>> /\ writer' = writer
        /\ conn' = [conn EXCEPT ![g].resp = Tail(@)]
    BY Zenon DEF ReadResponse
  <1>b. PICK o : o = pending[wireId[Head(conn[g].resp).rid]]  OBVIOUS
  <1>c. /\ pending' = [pending EXCEPT ![wireId[Head(conn[g].resp).rid]] = None]
        /\ call' = IF o = None THEN call ELSE [call EXCEPT ![o].got = Head(conn[g].resp)]
    BY <1>b, Zenon DEF ReadResponse
  <1>1. /\ Shapes /\ JobsOK /\ FlightOK /\ AwaitedOK /\ OrdersOK /\ ReachOK
        /\ call \in [Tasks -> Call \cup {None}] /\ conn \in [Conn -> ConnType]
        /\ conn[g].resp \in Seq(Resp) /\ conn[g].resp # <<>> /\ KeyDistinct(conn[g].resp)
    BY <1>a, ConnFacts DEF AdminInv, Shapes, FlightOK
  <1>2. PICK a : a = Head(conn[g].resp)  OBVIOUS
  <1>3. a \in Resp /\ a \in Told(g)  BY <1>1, <1>2, ElemsOfSeq DEF Told
  <1>4. Key(a) \in OnItsWay /\ Key(a) \in Req /\ Key(a).rid = a.rid /\ Key(a).op = a.op /\ Key(a).arg = a.arg
    BY <1>3, KeyOfReq DEF OnItsWay
  <1> DEFINE c == [conn EXCEPT ![g].resp = Tail(@)]
  <1>5. Tail(conn[g].resp) \in Seq(Resp) /\ Elems(Tail(conn[g].resp)) \subseteq Told(g)
    BY <1>1, ElemsTail DEF Told
  <1>6. KeyDistinct(Tail(conn[g].resp)) /\ \A b \in Elems(Tail(conn[g].resp)) : Key(b) # Key(a)
    BY <1>1, <1>2, TailDistinct
  <1>7. /\ c \in [Conn -> ConnType] /\ conn' = c /\ c[g].resp = Tail(conn[g].resp)
        /\ \A h \in Conn : /\ c[h].req = conn[h].req /\ c[h].state = conn[h].state
                           /\ c[h].reader = conn[h].reader /\ (h # g => c[h] = conn[h])
    BY <1>a, <1>1, <1>5 DEF ConnType
  <1> HIDE DEF c
  <1>8. Fewer  BY <1>1, <1>5, <1>6, <1>7 DEF Fewer, Asked, Told, FlightOK
  <1>9. /\ a.rid \in Rid /\ wireId \in [Rid -> Rid] /\ PendingOK /\ IdsOK
        /\ pending \in [Rid -> Tasks \cup {None}]
    BY <1>3 DEF Resp, AdminInv, IdsOK, Shapes
  <1>10. PICK w \in Rid : w = wireId[a.rid]  BY <1>9
  <1>11. /\ pending' = [pending EXCEPT ![w] = None] /\ writer' = writer /\ o = pending[w]
         /\ call' = IF o = None THEN call ELSE [call EXCEPT ![o].got = a]
    BY <1>a, <1>b, <1>c, <1>2, <1>10, Zenon
  <1>12. ASSUME NEW t \in Tasks, call'[t] # call[t]
         PROVE  /\ call[t] # None /\ call'[t] # None /\ call'[t] \in Call /\ wireId[call[t].req.rid] = w
                /\ call'[t].req = call[t].req /\ call'[t].step = call[t].step /\ call'[t].got = a
                /\ job[t] # None /\ call[t].req.op = OpOf(job[t].kind) /\ call[t].req.rid = job[t].rid
                /\ ~Reused(job[t].rid) => job[t].rid = a.rid /\ Awaited(t, Key(a))
    <2>1. o = t /\ o # None /\ call' = [call EXCEPT ![o].got = a]  BY <1>1, <1>11, <1>12
    <2>a. pending[w] = t /\ pending[w] # None  BY <1>11, <2>1, Zenon
    <2>2. call[t] # None /\ wireId[call[t].req.rid] = w  BY <1>9, <2>a DEF PendingOK
    <2>3. call[t] \in Call /\ job[t] # None /\ job[t] \in Job /\ JobOK(t)  BY <2>2, CallIs
    <2>4. call'[t] = [call[t] EXCEPT !.got = a]  BY <1>1, <2>1
    <2>5. call'[t] \in Call /\ call'[t].req = call[t].req /\ call'[t].step = call[t].step /\ call'[t].got = a
      BY <1>3, <2>3, <2>4 DEF Call
    <2>6. call'[t] # None  BY <2>5, NoneAssumption
    <2>7. call[t].req.rid = job[t].rid /\ call[t].req.op = OpOf(job[t].kind)  BY <2>2, <2>3 DEF JobOK
    <2>8. ASSUME ~Reused(job[t].rid) PROVE job[t].rid = a.rid /\ Awaited(t, Key(a))
      <3>1. wireId[job[t].rid] = wireId[a.rid]  BY <1>10, <2>2, <2>7
      <3>2. job[t].rid = a.rid  BY <1>9, <2>8, <3>1 DEF Reused
      <3> QED BY <1>1, <1>4, <2>3, <2>8, <3>2 DEF AwaitedOK
    <2> QED BY <2>2, <2>3, <2>5, <2>6, <2>7, <2>8
  <1>13. call' \in [Tasks -> Call \cup {None}]
    <2>1. call' = [t \in Tasks |-> call'[t]]  BY <1>1, <1>11
    <2>2. \A t \in Tasks : call'[t] \in Call \cup {None}  BY <1>1, <1>12
    <2> QED BY <2>1, <2>2
  <1>14. SameCalls  BY <1>12, <1>13 DEF SameCalls
  <1>15. JobsOK' /\ HaltOK' /\ IdsOK' /\ \A r : Reused(r)' <=> Reused(r)
    BY <1>14, LinkJobs, SameIds DEF LinkStep
  <1>16. /\ FlightOK' /\ OnItsWay' \subseteq OnItsWay
         /\ \A q : Sent(ran', conn', q) => Sent(ran, conn, q)
    BY <1>8, FewerFlight
  <1>17. UnsentOK'  BY <1>14, <1>16, LinkUnsent
  <1>18. Shapes' /\ PendingOK'
    <2>1. PendingOK' /\ pending' \in [Rid -> Tasks \cup {None}]
      <3>1. wireId' = wireId  BY DEF LinkStep
      <3>2. \A u \in Tasks : call[u] # None /\ wireId[call[u].req.rid] # w => call'[u] = call[u]  BY <1>12
      <3> QED BY <1>11, <3>1, <3>2, EntryGone
    <2>2. \A h \in Conn : conn'[h].state = "unused" => conn'[h].reader = "none"  BY <1>1, <1>7 DEF Shapes
    <2>3. writer' \in Conn \cup {None}  BY <1>1, <1>11 DEF Shapes
    <2> QED BY <1>7, <1>14, <2>1, <2>2, <2>3, ShapesLink
  <1>19. Key(a) \notin OnItsWay'
    <2>1. Key(a) \in Elems(ran[a.rid])  BY <1>1, <1>3 DEF FlightOK
    <2>2. \A h \in Conn : Key(a) \notin Asked(h)  BY <1>1, <1>4, <2>1 DEF FlightOK
    <2>3. ASSUME NEW h \in Conn, NEW b \in Told(h)' PROVE Key(b) # Key(a)
      <3>1. CASE h = g  BY <1>6, <1>7, <2>3, <3>1 DEF Told
      <3>2. CASE h # g  BY <1>1, <1>3, <1>8, <2>3, <3>2 DEF FlightOK, Fewer
      <3> QED BY <3>1, <3>2
    <2> QED BY <1>8, <2>2, <2>3 DEF OnItsWay, Fewer
  <1>20. AwaitedOK'
    <2>1. ASSUME NEW t \in Tasks, job[t] # None, ~Reused(job[t].rid), NEW m \in OnItsWay', m.rid = job[t].rid
          PROVE  Awaited(t, m)'
      <3>1. Awaited(t, m)  BY <1>1, <1>16, <2>1 DEF AwaitedOK
      <3>2. CASE call'[t] = call[t]  BY <3>1, <3>2 DEF Awaited, LinkStep
      <3>3. CASE call'[t] # call[t] /\ job[t].kind # "view"
        <4>1. m = Key(a)  BY <1>12, <2>1, <3>1, <3>3 DEF Awaited
        <4> QED BY <1>19, <2>1, <4>1
      <3>4. CASE job[t].kind = "view"  BY <3>1, <3>4 DEF Awaited, LinkStep
      <3> QED BY <3>2, <3>3, <3>4
    <2>2. ASSUME NEW t \in Tasks, job[t] # None, ~Reused(job[t].rid), call'[t] # None, call'[t].got \in Resp
          PROVE  OwnAnswer(t)'
      <3>1. CASE call'[t] = call[t]  BY <1>1, <2>2, <3>1 DEF AwaitedOK, OwnAnswer, LinkStep
      <3>2. CASE call'[t] # call[t]
        <4>1. Key(a) \in Elems(ran[a.rid]) /\ ran' = ran  BY <1>1, <1>3 DEF FlightOK, LinkStep
        <4>2. /\ call'[t].got = a /\ call'[t].req = call[t].req /\ call[t].req.rid = a.rid
              /\ call[t].req.op = OpOf(job[t].kind) /\ Awaited(t, Key(a))
          BY <1>12, <2>2, <3>2
        <4>3. a.op = call[t].req.op /\ (call[t].req.op # "snapshot" => a.arg = call[t].req.arg)
          <5>1. CASE job[t].kind = "view"  BY <1>4, <4>2, <5>1 DEF Awaited, OpOf
          <5>2. CASE job[t].kind # "view"  BY <1>4, <4>2, <5>2 DEF Awaited
          <5> QED BY <5>1, <5>2
        <4> QED BY <4>1, <4>2, <4>3 DEF OwnAnswer
      <3> QED BY <3>1, <3>2
    <2>3. ASSUME NEW t \in Tasks, job[t] # None, ~Reused(job[t].rid),
                 call'[t] # None, call'[t].step = "write", job[t].kind # "view"
          PROVE  call'[t].got = None \/ call'[t].got \in Failure
      <3>1. CASE call'[t] = call[t]  BY <1>1, <2>3, <3>1 DEF AwaitedOK
      <3>2. CASE call'[t] # call[t]
        <4>1. call'[t].step = "wait"  BY <1>12, <2>3, <3>2 DEF Awaited
        <4> QED BY <2>3, <4>1
      <3> QED BY <3>1, <3>2
    <2> QED BY <1>15, <2>1, <2>2, <2>3 DEF AwaitedOK, LinkStep
  <1>21. OrdersOK'
    <2>1. /\ Gone' = Gone /\ row' = row /\ accepted' = accepted /\ ran' = ran /\ job' = job
          /\ owner' = owner /\ nextRid' = nextRid
      BY DEF LinkStep, Gone
    <2>2. a.ids \subseteq Gone  BY <1>1, <1>3 DEF OrdersOK
    <2>3. \A t \in Tasks : call'[t] # None /\ call'[t].got \in Resp => call'[t].got.ids \subseteq Gone
      BY <1>1, <1>12, <2>2 DEF OrdersOK
    <2> QED BY <1>1, <1>8, <2>1, <2>3 DEF OrdersOK, Fewer
  <1>22. ReachOK'
    <2>1. ASSUME NEW t \in Tasks, job[t] # None, job[t].kind = "cancel_all", ~Reused(job[t].rid)
          PROVE  /\ \A h \in Conn : \A b \in Told(h)' : b.rid = job[t].rid => Reached(job[t].seen, live, owner, b.arg)
                 /\ call'[t] # None /\ call'[t].got \in Resp => Reached(job[t].seen, live, owner, call'[t].got.arg)
      <3>1. \A h \in Conn : \A b \in Told(h) : b.rid = job[t].rid => Reached(job[t].seen, live, owner, b.arg)
        BY <1>1, <2>1 DEF ReachOK
      <3>2. call[t] # None /\ call[t].got \in Resp => Reached(job[t].seen, live, owner, call[t].got.arg)
        BY <1>1, <2>1 DEF ReachOK
      <3> QED BY <1>3, <1>8, <1>12, <2>1, <3>1, <3>2 DEF Fewer
    <2> QED BY <1>1, <1>15, <2>1 DEF ReachOK, LinkStep
  <1> QED BY <1>15, <1>16, <1>17, <1>18, <1>20, <1>21, <1>22 DEF AdminInv

(* Every step of the client side, the network and the engine's life. *)
LEMMA LinkSteps ==
  ASSUME AdminInv, LinkStep,
         \/ \E t \in Tasks : Sending(t) \/ Timeout(t)
         \/ \E g \in Conn : Reader(g) \/ ServerSeesEof(g) \/ GoesDeaf(g) \/ NetworkBreaks(g)
         \/ EngineDies \/ EngineStarts \/ UNCHANGED linkVars
  PROVE  AdminInv'
  <1>1. ASSUME NEW t \in Tasks, Sending(t) PROVE AdminInv'
    BY <1>1, WriteFrameStep, ReconnectStep, ConnectFailsStep DEF Sending
  <1>2. ASSUME NEW g \in Conn, Reader(g) PROVE AdminInv'
    BY <1>2, ReadStep, ReaderClearsStep, ConnSteps DEF Reader
  <1> QED BY <1>1, <1>2, TimeoutStep, ConnSteps

-----------------------------------------------------------------------------
(* Ids.  A request that was there before keeps its id, and once another    *)
(* has come with it that remains so.                                       *)

IdsMove ==
  \/ UNCHANGED <<nextRid, wireId>>
  \/ /\ nextRid <= MaxRequests /\ nextRid' = nextRid + 1
     /\ \E i \in 1 .. nextRid : wireId' = [wireId EXCEPT ![nextRid] = i]

LEMMA IdsKeep ==
  ASSUME AdminInv, IdsMove
  PROVE  /\ IdsOK' /\ nextRid' \in 1 .. MaxRequests + 1
         /\ nextRid \in Nat /\ nextRid' \in Nat /\ nextRid' >= nextRid
         /\ \A r \in Rid : r < nextRid => /\ r < nextRid' /\ wireId'[r] = wireId[r]
                                          /\ Reused(r) => Reused(r)'
         /\ \A r \in Rid : r >= nextRid' => r >= nextRid
  <1>1. IdsOK /\ nextRid \in 1 .. MaxRequests + 1 /\ nextRid \in Nat /\ MaxRequests \in Nat
    BY LinkAssumption DEF AdminInv, Shapes
  <1>2. CASE UNCHANGED <<nextRid, wireId>>  BY <1>1, <1>2 DEF IdsOK, Reused, Rid
  <1>3. CASE ~UNCHANGED <<nextRid, wireId>>
    <2>1. /\ nextRid <= MaxRequests /\ nextRid' = nextRid + 1 /\ nextRid \in Rid
          /\ nextRid' \in 1 .. MaxRequests + 1
      BY <1>1, <1>3 DEF IdsMove, Rid
    <2>2. PICK i \in 1 .. nextRid : wireId' = [wireId EXCEPT ![nextRid] = i]  BY <1>3 DEF IdsMove
    <2>3. /\ i \in Rid /\ i <= nextRid /\ wireId'[nextRid] = i
          /\ \A r \in Rid : r # nextRid => wireId'[r] = wireId[r]
          /\ wireId' \in [Rid -> Rid]
      BY <1>1, <2>1, <2>2 DEF IdsOK, Rid
    <2>4. IdsOK'
      <3>1. ASSUME NEW r \in Rid PROVE wireId'[r] <= r /\ (r >= nextRid' => wireId'[r] = r)
        <4>1. CASE r = nextRid
          <5>1. ~(r >= nextRid')  BY <1>1, <2>1, <4>1
          <5> QED BY <2>3, <4>1, <5>1
        <4>2. CASE r # nextRid
          <5>1. wireId'[r] = wireId[r] /\ wireId[r] <= r /\ (r >= nextRid => wireId[r] = r)
            BY <1>1, <2>3, <4>2 DEF IdsOK
          <5>2. r >= nextRid' => r >= nextRid  BY <1>1, <2>1 DEF Rid
          <5> QED BY <5>1, <5>2
        <4> QED BY <4>1, <4>2
      <3> QED BY <2>3, <3>1 DEF IdsOK
    <2>5. ASSUME NEW r \in Rid, r < nextRid, Reused(r) PROVE Reused(r)'
      <3>1. PICK s \in Rid \ {r} : wireId[s] = wireId[r]  BY <2>5 DEF Reused
      <3>2. s # nextRid
        <4>1. wireId[r] <= r /\ wireId[r] \in Rid /\ wireId[nextRid] = nextRid
          BY <1>1, <2>1 DEF IdsOK, Rid
        <4> QED BY <1>1, <2>5, <3>1, <4>1 DEF Rid
      <3>3. r # nextRid  BY <1>1, <2>5
      <3> QED BY <2>3, <3>1, <3>2, <3>3 DEF Reused
    <2>6. \A r \in Rid : (r < nextRid => r < nextRid' /\ r # nextRid) /\ (r >= nextRid' => r >= nextRid)
      BY <1>1, <2>1 DEF Rid
    <2> QED BY <1>1, <2>1, <2>3, <2>4, <2>5, <2>6
  <1> QED BY <1>2, <1>3

LEMMA HaltsAre ==
  \A h : h \in Halts <=> h \in Rid /\ \E x \in Elems(ran[h]) : x.op = "halt"
  BY DEF Halts, Elems

-----------------------------------------------------------------------------
(* The engine executes a request, from a connection or of the market       *)
(* maker, and answers it on connection g or not at all.                    *)

LEMMA EngineStep ==
  ASSUME AdminInv, NEW q \in Req, Execute(q), IdsMove, q.rid < nextRid',
         UNCHANGED <<writer, pending, call, status, row, job>>,
         q.op = "place" => /\ q.rid \notin accepted /\ q.arg \in Traders
                           /\ row[q.rid] # None => row[q.rid].user = q.arg,
         q \notin Elems(ran[q.rid]),
         conn' \in [Conn -> ConnType],
         \A h \in Conn : conn'[h].state = "unused" => conn'[h].reader = "none",
         NEW a \in Resp, Key(a) = q, a.ids = IF q.op = "cancel_all" THEN OfUser(q.arg) ELSE {},
         NEW g \in Conn,
         \A h \in Conn : /\ Asked(h)' \subseteq Asked(h) /\ q \notin Asked(h)'
                         /\ Told(h)' \subseteq Told(h) \cup {a} /\ (h # g => Told(h)' \subseteq Told(h))
                         /\ KeyDistinct(conn'[h].req) /\ KeyDistinct(conn'[h].resp),
         \/ \E h \in Conn : q \in Asked(h)
         \/ q.rid = nextRid /\ \A h \in Conn : Told(h)' \subseteq Told(h)
  PROVE  AdminInv'
  <1>1. /\ Shapes /\ JobsOK /\ FlightOK /\ UnsentOK /\ AwaitedOK /\ OrdersOK /\ ReachOK /\ HaltOK
        /\ ran \in [Rid -> Seq(Req)] /\ live \subseteq accepted /\ accepted \subseteq Rid
        /\ owner \in [Rid -> Arg]
    BY DEF AdminInv, Shapes
  <1>2. UNCHANGED <<writer, pending, call, status, row, job, missed, acked, lifted>>  BY DEF Execute
  <1>3. q.rid \in Rid /\ q.op \in Op /\ q.arg \in Arg /\ Request(q.rid, q.op, q.arg) = q
    BY DEF Req, Request
  <1>4. /\ IdsOK' /\ nextRid' \in 1 .. MaxRequests + 1
        /\ nextRid \in Nat /\ nextRid' \in Nat /\ nextRid' >= nextRid
        /\ \A r \in Rid : r < nextRid => /\ r < nextRid' /\ wireId'[r] = wireId[r]
                                         /\ Reused(r) => Reused(r)'
        /\ \A r \in Rid : r >= nextRid' => r >= nextRid
    BY IdsKeep
  <1>5. /\ halted' = CASE q.op = "halt" -> TRUE [] q.op = "resume" -> FALSE [] OTHER -> halted
        /\ live' = CASE q.op = "place" /\ ~halted -> live \cup {q.rid}
                     [] q.op = "cancel_all" -> live \ OfUser(q.arg)
                     [] OTHER -> live
        /\ owner' = IF q.op = "place" /\ ~halted THEN [owner EXCEPT ![q.rid] = q.arg] ELSE owner
        /\ accepted' = IF q.op = "place" /\ ~halted THEN accepted \cup {q.rid} ELSE accepted
        /\ ran' = [ran EXCEPT ![q.rid] = Append(@, q)]
        /\ eased' = IF q.op = "resume" THEN eased \cup Halts ELSE eased
        /\ defied' = IF q.op = "place" /\ ~halted /\ ClosedAtEngine THEN defied \cup {q.rid} ELSE defied
    BY Zenon DEF Execute
  <1>6. a.rid = q.rid /\ a.op = q.op /\ a.arg = q.arg  BY KeyOfReq
  <1>7. \A t \in Tasks : job[t] # None =>
          /\ job[t].rid \in Rid /\ job[t].rid < nextRid /\ JobOK(t)
          /\ Reused(job[t].rid) => Reused(job[t].rid)'
    <2>1. \A t \in Tasks : job[t] # None => job[t].rid \in Rid /\ job[t].rid < nextRid /\ JobOK(t)
      BY <1>1 DEF JobsOK, JobOK, Shapes, Job
    <2> QED BY <1>4, <2>1
  (* The history. *)
  <1>8. /\ ran[q.rid] \in Seq(Req) /\ ran' \in [Rid -> Seq(Req)] /\ ran'[q.rid] = Append(ran[q.rid], q)
        /\ \A r \in Rid : r # q.rid => ran'[r] = ran[r]
    <2>1. ran[q.rid] \in Seq(Req)  BY <1>1, <1>3
    <2>2. Append(ran[q.rid], q) \in Seq(Req)  BY <2>1
    <2>3. ran' = [ran EXCEPT ![q.rid] = Append(@, q)]  BY <1>5
    <2> QED BY <1>1, <1>3, <2>1, <2>2, <2>3
  <1>9. \A r \in Rid : \A x : x \in Elems(ran'[r]) <=> x \in Elems(ran[r]) \/ (r = q.rid /\ x = q)
    <2>1. Elems(Append(ran[q.rid], q)) = Elems(ran[q.rid]) \cup {q}  BY <1>8, ElemsAppend
    <2>2. Elems(ran'[q.rid]) = Elems(ran[q.rid]) \cup {q}  BY <1>8, <2>1
    <2>3. \A r \in Rid : r # q.rid => Elems(ran'[r]) = Elems(ran[r])  BY <1>8
    <2> QED BY <2>2, <2>3
  <1>10. ASSUME NEW r \in Rid, NEW i \in DOMAIN ran'[r], NEW j \in DOMAIN ran'[r], ran'[r][i] = ran'[r][j]
         PROVE  i = j
    <2>1. CASE r # q.rid  BY <1>1, <1>8, <1>10, <2>1 DEF FlightOK
    <2>2. CASE r = q.rid
      <3>1. /\ DOMAIN ran'[r] = DOMAIN ran[r] \cup {Len(ran[r]) + 1} /\ ran'[r][Len(ran[r]) + 1] = q
            /\ \A k \in DOMAIN ran[r] : ran'[r][k] = ran[r][k]
        BY <1>8, <2>2, ElemsAppend
      <3>2. \A k \in DOMAIN ran[r] : ran[r][k] # q  BY <2>2 DEF Elems
      <3>3. \A k, l \in DOMAIN ran[r] : ran[r][k] = ran[r][l] => k = l  BY <1>1 DEF FlightOK
      <3> QED BY <1>10, <3>1, <3>2, <3>3
    <2> QED BY <2>1, <2>2
  <1>11. \A h \in Conn : /\ \A b \in Told(h) : b \in Resp /\ b.rid \in Rid /\ Key(b) # q
                         /\ \A x \in Asked(h) : x \in Req /\ x.rid \in Rid
    <2>1. \A h \in Conn : \A b \in Told(h) : b \in Resp /\ b.rid \in Rid /\ Key(b) \in Elems(ran[b.rid])
      BY <1>1, ConnFacts DEF FlightOK, Resp
    <2>2. \A h \in Conn : \A x \in Asked(h) : x \in Req /\ x.rid \in Rid  BY <1>1, ConnFacts DEF Req
    <2> QED BY <2>1, <2>2, KeyOfReq
  <1>12. FlightOK'
    <2>1. \A h, k \in Conn : h # k =>
            /\ Asked(h)' \cap Asked(k)' = {}
            /\ \A x \in Told(h)', y \in Told(k)' : Key(x) # Key(y)
      BY <1>1, <1>11 DEF FlightOK
    <2>2. ASSUME NEW r \in Rid, NEW x \in Elems(ran'[r]) PROVE x.rid = r /\ r < nextRid'
      <3>1. CASE x = q /\ r = q.rid  BY <3>1
      <3>2. CASE x \in Elems(ran[r])
        <4>1. x.rid = r /\ r < nextRid  BY <1>1, <3>2 DEF FlightOK
        <4> QED BY <1>4, <4>1
      <3> QED BY <1>9, <2>2, <3>1, <3>2
    <2>3. \A h \in Conn : \A x \in Asked(h)' : x \notin Elems(ran'[x.rid]) /\ x.rid < nextRid'
      BY <1>1, <1>4, <1>9, <1>11 DEF FlightOK
    <2>4. \A h \in Conn : \A b \in Told(h)' : Key(b) \in Elems(ran'[b.rid])
      BY <1>1, <1>3, <1>6, <1>9, <1>11 DEF FlightOK
    <2> QED BY <1>10, <2>1, <2>2, <2>3, <2>4 DEF FlightOK
  <1>13. \A x : x.rid \in Rid /\ x.rid < nextRid /\ Sent(ran', conn', x) => Sent(ran, conn, x)
    <2> SUFFICES ASSUME NEW x, x.rid \in Rid, x.rid < nextRid, Sent(ran', conn', x)
                 PROVE  Sent(ran, conn, x)
      OBVIOUS
    <2>1. x \in Elems(ran[x.rid]) \/ x = q \/ \E h \in Conn : x \in Asked(h)
      BY <1>9 DEF Sent, Asked
    <2>2. x = q => \E h \in Conn : x \in Asked(h)  BY <1>4
    <2> QED BY <2>1, <2>2 DEF Sent, Asked
  <1>14. \A m \in OnItsWay' : m \in OnItsWay  BY <1>11 DEF OnItsWay
  <1>15. UnsentOK'
    <2> SUFFICES ASSUME NEW t \in Tasks, job[t] # None
                 PROVE  /\ call[t] # None /\ call[t].step = "write" => ~Sent(ran', conn', call[t].req)
                        /\ \A i \in DOMAIN job[t].todo : i > 1 \/ call[t] = None =>
                             ~Sent(ran', conn', Request(job[t].rid, OpOf(job[t].kind), job[t].todo[i]))
      BY <1>2 DEF UnsentOK
    <2>1. job[t].rid \in Rid /\ job[t].rid < nextRid /\ JobOK(t)  BY <1>7
    <2>2. call[t] # None => call[t].req.rid = job[t].rid  BY <2>1 DEF JobOK
    <2>3. \A i : Request(job[t].rid, OpOf(job[t].kind), job[t].todo[i]).rid = job[t].rid  BY DEF Request
    <2>4. /\ call[t] # None /\ call[t].step = "write" => ~Sent(ran, conn, call[t].req)
          /\ \A i \in DOMAIN job[t].todo : i > 1 \/ call[t] = None =>
               ~Sent(ran, conn, Request(job[t].rid, OpOf(job[t].kind), job[t].todo[i]))
      BY <1>1 DEF UnsentOK
    <2> QED BY <1>13, <2>1, <2>2, <2>3, <2>4
  <1>16. JobsOK'
    <2>1. ASSUME NEW t \in Tasks, job[t] # None PROVE JobOK(t)'
      <3>1. JobOK(t) /\ job[t].rid < nextRid'  BY <1>4, <1>7, <2>1
      <3> QED BY <1>2, <3>1 DEF JobOK
    <2> QED BY <1>1, <1>2, <1>4, <2>1 DEF JobsOK
  <1>17. PendingOK'
    <2>1. ASSUME NEW i \in Rid, pending[i] # None
          PROVE  /\ call[pending[i]] # None /\ call[pending[i]].got = None
                 /\ wireId'[call[pending[i]].req.rid] = i
      <3>1. /\ call[pending[i]] # None /\ call[pending[i]].got = None
            /\ wireId[call[pending[i]].req.rid] = i /\ pending[i] \in Tasks
        BY <2>1 DEF AdminInv, PendingOK, Shapes
      <3>2. job[pending[i]] # None /\ JobOK(pending[i])  BY <1>1, <3>1 DEF JobsOK
      <3>3. call[pending[i]].req.rid \in Rid /\ call[pending[i]].req.rid < nextRid
        BY <1>7, <3>1, <3>2 DEF JobOK
      <3> QED BY <1>4, <3>1, <3>3
    <2> QED BY <1>2, <2>1 DEF PendingOK
  <1>18. AwaitedOK'
    <2>1. ASSUME NEW t \in Tasks, job[t] # None, ~Reused(job[t].rid)'
          PROVE  /\ \A m \in OnItsWay' : m.rid = job[t].rid => Awaited(t, m)'
                 /\ call[t] # None /\ call[t].got \in Resp => OwnAnswer(t)'
                 /\ call[t] # None /\ call[t].step = "write" /\ job[t].kind # "view" =>
                      call[t].got = None \/ call[t].got \in Failure
      <3>1. ~Reused(job[t].rid)  BY <1>2, <1>7, <2>1
      <3>2. /\ \A m \in OnItsWay : m.rid = job[t].rid => Awaited(t, m)
            /\ call[t] # None /\ call[t].got \in Resp => OwnAnswer(t)
            /\ call[t] # None /\ call[t].step = "write" /\ job[t].kind # "view" =>
                 call[t].got = None \/ call[t].got \in Failure
        BY <1>1, <2>1, <3>1 DEF AwaitedOK
      <3>3. \A m : Awaited(t, m) => Awaited(t, m)'  BY <1>2 DEF Awaited
      <3>4. call[t] # None /\ call[t].got \in Resp => OwnAnswer(t)'
        <4> SUFFICES ASSUME call[t] # None, call[t].got \in Resp PROVE OwnAnswer(t)'  OBVIOUS
        <4>1. OwnAnswer(t) /\ call[t].got.rid \in Rid  BY <3>2 DEF Resp
        <4> QED BY <1>2, <1>9, <4>1 DEF OwnAnswer
      <3> QED BY <1>14, <3>2, <3>3, <3>4
    <2> QED BY <1>2, <2>1 DEF AwaitedOK
  (* The orders. *)
  <1>19. /\ Gone \subseteq Gone' /\ live' \subseteq accepted' /\ accepted \subseteq accepted' /\ accepted' \subseteq Rid
         /\ \A s \in SUBSET accepted : s \cap live' \subseteq s \cap live
    <2>1. CASE q.op = "place" /\ ~halted  BY <1>1, <1>3, <1>5, <2>1 DEF Gone
    <2>2. CASE q.op = "cancel_all"  BY <1>1, <1>5, <2>2 DEF Gone
    <2>3. CASE ~(q.op = "place" /\ ~halted) /\ q.op # "cancel_all"  BY <1>1, <1>5, <2>3 DEF Gone
    <2> QED BY <2>1, <2>2, <2>3
  <1>20. /\ owner' \in [Rid -> Arg] /\ \A r \in accepted : owner'[r] = owner[r]
         /\ q.op = "place" /\ ~halted => owner'[q.rid] = q.arg
    <2>1. CASE q.op = "place" /\ ~halted
      <3>1. owner' = [owner EXCEPT ![q.rid] = q.arg]  BY <1>5, <2>1
      <3> QED BY <1>1, <1>3, <2>1, <3>1
    <2>2. CASE ~(q.op = "place" /\ ~halted)
      <3>1. owner' = owner  BY <1>5, <2>2
      <3> QED BY <1>1, <2>2, <3>1
    <2> QED BY <2>1, <2>2
  <1>21. a.ids \subseteq Gone'
    <2>1. CASE q.op = "cancel_all"
      <3>1. live' = live \ OfUser(q.arg) /\ accepted' = accepted /\ OfUser(q.arg) \subseteq live
        BY <1>5, <2>1 DEF OfUser
      <3> QED BY <1>1, <2>1, <3>1 DEF Gone
    <2> QED BY <2>1
  <1>22. OrdersOK'
    <2>1. ASSUME NEW r \in accepted'
          PROVE  /\ owner'[r] \in Traders /\ r < nextRid'
                 /\ Request(r, "place", owner'[r]) \in Elems(ran'[r])
                 /\ row[r] # None => row[r].user = owner'[r]
      <3>1. CASE r \in accepted
        <4>1. /\ owner[r] \in Traders /\ r < nextRid /\ Request(r, "place", owner[r]) \in Elems(ran[r])
              /\ row[r] # None => row[r].user = owner[r]
          BY <1>1, <3>1 DEF OrdersOK
        <4> QED BY <1>1, <1>4, <1>9, <1>20, <3>1, <4>1
      <3>2. CASE r \notin accepted
        <4>1. r = q.rid /\ q.op = "place" /\ ~halted  BY <1>5, <2>1, <3>2
        <4> QED BY <1>3, <1>9, <1>20, <4>1
      <3> QED BY <3>1, <3>2
    <2>2. \A h \in Conn : \A x \in Asked(h)' : x.op = "place" => row[x.rid] # None /\ x.arg = row[x.rid].user
      BY <1>1 DEF OrdersOK
    <2>3. ASSUME NEW h \in Conn, NEW b \in Told(h)' PROVE b.ids \subseteq Gone'
      <3>1. CASE b = a  BY <1>21, <3>1
      <3>2. CASE b \in Told(h)
        <4>1. b.ids \subseteq Gone  BY <1>1, <3>2 DEF OrdersOK
        <4> QED BY <1>19, <4>1
      <3> QED BY <2>3, <3>1, <3>2
    <2> HIDE DEF Gone
    <2>4. /\ \A r \in Rid : row[r] # None /\ row[r].status = "canceled" => r \in Gone'
          /\ \A t \in Tasks : call[t] # None /\ call[t].got \in Resp => call[t].got.ids \subseteq Gone'
          /\ \A t \in Tasks : job[t] # None => job[t].ids \subseteq Gone'
      BY <1>1, <1>19 DEF OrdersOK
    <2> QED BY <1>2, <2>1, <2>2, <2>3, <2>4 DEF OrdersOK
  <1>23. ReachOK'
    <2>1. ASSUME NEW t \in Tasks, job[t] # None, job[t].kind = "cancel_all", ~Reused(job[t].rid)'
          PROVE  /\ job[t].seen \subseteq accepted'
                 /\ \A r \in job[t].seen \cap live' : owner'[r] \in Elems(job[t].todo)
                 /\ \A h \in Conn : \A b \in Told(h)' : b.rid = job[t].rid =>
                      Reached(job[t].seen, live', owner', b.arg)
                 /\ call[t] # None /\ call[t].got \in Resp =>
                      Reached(job[t].seen, live', owner', call[t].got.arg)
      <3>1. ~Reused(job[t].rid)  BY <1>2, <1>7, <2>1
      <3>2. /\ job[t].seen \subseteq accepted
            /\ \A r \in job[t].seen \cap live : owner[r] \in Elems(job[t].todo)
            /\ \A h \in Conn : \A b \in Told(h) : b.rid = job[t].rid => Reached(job[t].seen, live, owner, b.arg)
            /\ call[t] # None /\ call[t].got \in Resp => Reached(job[t].seen, live, owner, call[t].got.arg)
        BY <1>1, <2>1, <3>1 DEF ReachOK
      <3>3. /\ job[t].seen \cap live' \subseteq job[t].seen \cap live
            /\ \A r \in job[t].seen : owner'[r] = owner[r]
        BY <1>19, <1>20, <3>2
      <3>4. \A u : Reached(job[t].seen, live, owner, u) => Reached(job[t].seen, live', owner', u)
        BY <3>3 DEF Reached
      <3>5. ASSUME NEW h \in Conn, NEW b \in Told(h)', b \notin Told(h), b.rid = job[t].rid
            PROVE  Reached(job[t].seen, live', owner', b.arg)
        <4>1. b = a /\ q.rid = job[t].rid  BY <1>6, <3>5
        <4>2. q \in OnItsWay  BY <3>5 DEF OnItsWay
        <4>3. call[t] # None /\ call[t].req = q  BY <1>1, <2>1, <3>1, <4>1, <4>2 DEF AwaitedOK, Awaited
        <4>4. q.op = "cancel_all"  BY <1>7, <2>1, <4>3 DEF JobOK, OpOf, Several
        <4>5. live' = live \ OfUser(q.arg)  BY <1>5, <4>4
        <4> QED BY <1>6, <3>3, <4>1, <4>5 DEF Reached, OfUser
      <3> QED BY <1>19, <3>2, <3>3, <3>4, <3>5
    <2>2. \A m \in missed : m[1] \in Rid /\ m[1] < nextRid' /\ Reused(m[1])'
      BY <1>1, <1>4 DEF ReachOK
    <2> QED BY <1>2, <2>1, <2>2 DEF ReachOK
  (* The halts. *)
  <1>24. Halts' = Halts \cup (IF q.op = "halt" THEN {q.rid} ELSE {})
    <2>1. \A h : h \in Halts' <=> h \in Rid /\ \E x \in Elems(ran'[h]) : x.op = "halt"
      BY DEF Halts, Elems
    <2>2. \A h : h \in Halts <=> h \in Rid /\ \E x \in Elems(ran[h]) : x.op = "halt"  BY HaltsAre
    <2>3. \A h \in Rid : h \in Halts' <=> h \in Halts \/ (h = q.rid /\ q.op = "halt")
      BY <1>3, <1>9, <2>1, <2>2
    <2>4. Halts \subseteq Rid /\ Halts' \subseteq Rid  BY <2>1, <2>2
    <2>5. CASE q.op = "halt"  BY <1>3, <2>3, <2>4, <2>5
    <2>6. CASE q.op # "halt"  BY <1>3, <2>3, <2>4, <2>6
    <2> QED BY <2>5, <2>6
  <1>25. HaltOK'
    <2>1. /\ defied = {} /\ (Halts \subseteq eased \/ halted)
          /\ \A h \in acked : h \in Rid /\ h < nextRid /\ (~Reused(h) => h \in Halts)
          /\ acked \subseteq lifted \/ status = "halted"
      BY <1>1 DEF HaltOK
    <2>2. defied' = {}
      <3>1. ASSUME ClosedAtEngine PROVE halted
        <4>1. PICK h \in acked \ eased : ~Reused(h)  BY <3>1 DEF ClosedAtEngine
        <4>2. h \in Halts  BY <2>1, <4>1
        <4> QED BY <2>1, <4>1, <4>2
      <3> QED BY <1>5, <2>1, <3>1
    <2>3. Halts' \subseteq eased' \/ halted'
      <3>1. CASE q.op = "halt"  BY <1>5, <3>1
      <3>2. CASE q.op = "resume"  BY <1>5, <1>24, <3>2
      <3>3. CASE q.op \notin {"halt", "resume"}  BY <1>5, <1>24, <2>1, <3>3
      <3> QED BY <3>1, <3>2, <3>3
    <2>4. \A h \in acked : h \in Rid /\ h < nextRid' /\ (~Reused(h)' => h \in Halts')
      BY <1>4, <1>24, <2>1
    <2>5. ASSUME NEW t \in Running("halt")
          PROVE  /\ job[t].step # "engine" /\ ~Reused(job[t].rid)' => job[t].rid \in Halts'
                 /\ job[t].step = "audit" => job[t].rid \in lifted \/ status = "halted"
      <3>1. t \in Tasks /\ job[t] # None  BY DEF Running
      <3>2. Reused(job[t].rid) => Reused(job[t].rid)'  BY <1>7, <3>1
      <3> QED BY <1>1, <1>2, <1>24, <3>2 DEF HaltOK
    <2>6. Running("halt")' = Running("halt")  BY <1>2 DEF Running
    <2> QED BY <1>2, <2>1, <2>2, <2>3, <2>4, <2>5, <2>6 DEF HaltOK
  <1>26. Shapes'  BY <1>1, <1>2, <1>4, <1>8, <1>19, <1>20 DEF Shapes
  <1> QED BY <1>4, <1>12, <1>15, <1>16, <1>17, <1>18, <1>22, <1>23, <1>25, <1>26 DEF AdminInv

(* The requests not handed out yet are nowhere. *)
LEMMA Fresh ==
  ASSUME AdminInv, nextRid <= MaxRequests
  PROVE  /\ nextRid \in Rid /\ row[nextRid] = None /\ nextRid \notin accepted /\ wireId[nextRid] = nextRid
         /\ \A m \in OnItsWay : m.rid # nextRid
         /\ \A g \in Conn : \A a \in Told(g) : a.rid # nextRid
         /\ \A g \in Conn : \A q \in Asked(g) : q.rid # nextRid
         /\ \A q : q.rid = nextRid => ~Sent(ran, conn, q)
         /\ \A t \in Tasks : job[t] # None => job[t].rid \in Rid /\ job[t].rid # nextRid
  <1>1. Shapes /\ FlightOK /\ JobsOK /\ OrdersOK /\ IdsOK /\ nextRid \in Rid
    BY LinkAssumption DEF AdminInv, Shapes, Rid
  <1>2. nextRid \in Nat /\ ~(nextRid < nextRid) /\ nextRid >= nextRid  BY <1>1 DEF Rid
  <1>3. row[nextRid] = None /\ wireId[nextRid] = nextRid  BY <1>1, <1>2 DEF JobsOK, IdsOK
  <1>4. nextRid \notin accepted  BY <1>1, <1>2 DEF OrdersOK
  <1>5. \A g \in Conn : \A q \in Asked(g) : q.rid # nextRid  BY <1>1, <1>2 DEF FlightOK
  <1>6. \A q : q \in Elems(ran[nextRid]) => FALSE  BY <1>1, <1>2 DEF FlightOK
  <1>7. \A g \in Conn : \A a \in Told(g) : a.rid # nextRid  BY <1>1, <1>6 DEF FlightOK
  <1>8. \A g \in Conn : \A a \in Told(g) : Key(a).rid = a.rid  BY <1>1, ConnFacts, KeyOfReq
  <1>9. \A m \in OnItsWay : m.rid # nextRid  BY <1>5, <1>7, <1>8 DEF OnItsWay
  <1>10. \A q : q.rid = nextRid => ~Sent(ran, conn, q)  BY <1>5, <1>6 DEF Sent, Asked
  <1>11. \A t \in Tasks : job[t] # None => job[t].rid \in Rid /\ job[t].rid # nextRid
    BY <1>1, <1>2 DEF JobsOK, JobOK, Shapes, Job
  <1> QED BY <1>1, <1>3, <1>4, <1>5, <1>7, <1>9, <1>10, <1>11

(* The engine's answer to q. *)
Reply(q) == [rid |-> q.rid, op |-> q.op, arg |-> q.arg, ok |-> ~Refused(q),
             ids |-> IF q.op = "cancel_all" THEN OfUser(q.arg) ELSE {}]

LEMMA ReplyIs ==
  ASSUME AdminInv, NEW q \in Req
  PROVE  /\ Reply(q) \in Resp /\ Key(Reply(q)) = q
         /\ Reply(q).ids = IF q.op = "cancel_all" THEN OfUser(q.arg) ELSE {}
  <1>1. OfUser(q.arg) \subseteq Rid  BY DEF AdminInv, Shapes, OfUser
  <1>2. q.rid \in Rid /\ q.op \in Op /\ q.arg \in Arg /\ Request(q.rid, q.op, q.arg) = q
    BY DEF Req, Request
  <1>3. Refused(q) \in BOOLEAN  BY DEF Refused
  <1>4. (IF q.op = "cancel_all" THEN OfUser(q.arg) ELSE {}) \in SUBSET Rid  BY <1>1
  <1>5. Reply(q) \in Resp  BY <1>2, <1>3, <1>4 DEF Resp, Reply
  <1> QED BY <1>2, <1>5 DEF Reply, Key

(* The first request of a queue. *)
LEMMA FirstAsked ==
  ASSUME AdminInv, NEW g \in Conn, CanServe(g), NEW q, q = Head(conn[g].req)
  PROVE  /\ q \in Req /\ q \in Asked(g) /\ q \notin Elems(ran[q.rid]) /\ q.rid < nextRid
         /\ q.op = "place" => /\ q.rid \notin accepted /\ q.arg \in Traders
                              /\ row[q.rid] # None => row[q.rid].user = q.arg
         /\ \A h \in Conn : h # g => q \notin Asked(h)
         /\ conn[g] \in ConnType /\ conn[g].state = "up"
         /\ conn[g].req \in Seq(Req) /\ conn[g].req # <<>> /\ KeyDistinct(conn[g].req)
         /\ conn[g].resp \in Seq(Resp) /\ KeyDistinct(conn[g].resp)
         /\ \A h \in Conn : \A b \in Told(h) : b \in Resp /\ Key(b) # q
  <1>1. Shapes /\ FlightOK /\ OrdersOK  BY DEF AdminInv
  <1>2. /\ conn[g] \in ConnType /\ conn[g].state = "up"
        /\ conn[g].req \in Seq(Req) /\ conn[g].req # <<>> /\ KeyDistinct(conn[g].req)
        /\ conn[g].resp \in Seq(Resp) /\ KeyDistinct(conn[g].resp)
    BY <1>1, ConnFacts DEF CanServe, FlightOK
  <1>3. q \in Req /\ q \in Asked(g)  BY <1>2, ElemsOfSeq DEF Asked
  <1>4. q.rid \in Rid /\ Request(q.rid, q.op, q.arg) = q  BY <1>3 DEF Req, Request
  <1>5. q \notin Elems(ran[q.rid]) /\ q.rid < nextRid /\ \A h \in Conn : h # g => q \notin Asked(h)
    BY <1>1, <1>3 DEF FlightOK
  <1>6. ASSUME q.op = "place"
        PROVE  q.rid \notin accepted /\ q.arg \in Traders /\ row[q.rid].user = q.arg
    <2>1. row[q.rid] # None /\ q.arg = row[q.rid].user  BY <1>1, <1>3, <1>6 DEF OrdersOK
    <2>2. row[q.rid] \in Row  BY <1>1, <1>4, <2>1 DEF Shapes
    <2>3. q.arg \in Traders  BY <2>1, <2>2 DEF Row
    <2> QED BY <1>1, <1>4, <1>5, <1>6, <2>1, <2>3 DEF OrdersOK
  <1>7. \A h \in Conn : \A b \in Told(h) : b \in Resp /\ Key(b) # q
    <2>1. \A h \in Conn : \A b \in Told(h) : b \in Resp /\ Key(b) \in Elems(ran[b.rid])
      BY <1>1, ConnFacts DEF FlightOK
    <2> QED BY <1>5, <2>1, KeyOfReq
  <1> QED BY <1>2, <1>3, <1>5, <1>6, <1>7

LEMMA HandleStep ==
  ASSUME AdminInv, NEW g \in Conn, Handle(g)
  PROVE  AdminInv'
  <1>1. CanServe(g) /\ conn \in [Conn -> ConnType] /\ FlightOK  BY DEF Handle, AdminInv, Shapes
  <1>2. PICK q : q = Head(conn[g].req)  OBVIOUS
  <1>3. /\ q \in Req /\ q \in Asked(g) /\ q \notin Elems(ran[q.rid]) /\ q.rid < nextRid
        /\ q.op = "place" => /\ q.rid \notin accepted /\ q.arg \in Traders
                             /\ row[q.rid] # None => row[q.rid].user = q.arg
        /\ \A h \in Conn : h # g => q \notin Asked(h)
        /\ conn[g].state = "up"
        /\ conn[g].req \in Seq(Req) /\ conn[g].req # <<>> /\ KeyDistinct(conn[g].req)
        /\ conn[g].resp \in Seq(Resp) /\ KeyDistinct(conn[g].resp)
        /\ \A h \in Conn : \A b \in Told(h) : b \in Resp /\ Key(b) # q
    BY <1>1, <1>2, FirstAsked
  <1>4. PICK a \in Resp : /\ a = Reply(q) /\ Key(a) = q
                          /\ a.ids = IF q.op = "cancel_all" THEN OfUser(q.arg) ELSE {}
    BY <1>3, ReplyIs
  <1>5. /\ Execute(q) /\ Serve(g, a)
        /\ UNCHANGED <<status, row, job, nextRid, wireId>>
    BY <1>2, <1>4, Zenon DEF Handle, Reply, dbVars, jobVars
  <1> DEFINE c == [conn EXCEPT ![g].req = Tail(@), ![g].resp = Append(@, a)]
  <1>6. conn' = c /\ UNCHANGED <<writer, pending, call>>  BY <1>5 DEF Serve
  <1>7. Tail(conn[g].req) \in Seq(Req) /\ Elems(Tail(conn[g].req)) \subseteq Asked(g)
    BY <1>3, ElemsTail DEF Asked
  <1>8. KeyDistinct(Tail(conn[g].req)) /\ q \notin Elems(Tail(conn[g].req))
    BY <1>2, <1>3, TailDistinct
  <1>9. /\ Append(conn[g].resp, a) \in Seq(Resp) /\ Elems(Append(conn[g].resp, a)) = Told(g) \cup {a}
        /\ KeyDistinct(Append(conn[g].resp, a))
    <2>1. \A b \in Elems(conn[g].resp) : Key(b) # Key(a)  BY <1>3, <1>4 DEF Told
    <2> QED BY <1>3, <1>4, <2>1, ElemsAppend, AppendDistinct DEF Told
  <1>10. /\ c \in [Conn -> ConnType] /\ c[g].req = Tail(conn[g].req) /\ c[g].resp = Append(conn[g].resp, a)
         /\ c[g].state = conn[g].state /\ c[g].reader = conn[g].reader
         /\ \A h \in Conn \ {g} : c[h] = conn[h]
    BY <1>1, <1>7, <1>9 DEF ConnType
  <1> HIDE DEF c
  <1>11. \A h \in Conn : /\ Asked(h)' \subseteq Asked(h) /\ q \notin Asked(h)'
                         /\ Told(h)' \subseteq Told(h) \cup {a} /\ (h # g => Told(h)' \subseteq Told(h))
                         /\ KeyDistinct(conn'[h].req) /\ KeyDistinct(conn'[h].resp)
    <2>1. ASSUME NEW h \in Conn, h # g PROVE Asked(h)' = Asked(h) /\ Told(h)' = Told(h) /\ conn'[h] = conn[h]
      BY <1>6, <1>10, <2>1 DEF Asked, Told
    <2>2. Asked(g)' = Elems(Tail(conn[g].req)) /\ Told(g)' = Told(g) \cup {a}
      BY <1>6, <1>9, <1>10 DEF Asked, Told
    <2>3. \A h \in Conn : KeyDistinct(conn[h].req) /\ KeyDistinct(conn[h].resp)  BY <1>1 DEF FlightOK
    <2> QED BY <1>3, <1>6, <1>7, <1>8, <1>9, <1>10, <2>1, <2>2, <2>3
  <1>12. \A h \in Conn : conn'[h].state = "unused" => conn'[h].reader = "none"
    <2>1. \A h \in Conn : conn[h].state = "unused" => conn[h].reader = "none"  BY DEF AdminInv, Shapes
    <2> QED BY <1>6, <1>10, <2>1
  <1>13. IdsMove /\ q.rid < nextRid'  BY <1>3, <1>5 DEF IdsMove
  <1>14. conn' \in [Conn -> ConnType]  BY <1>6, <1>10
  <1>15. UNCHANGED <<writer, pending, call, status, row, job>>  BY <1>5, <1>6
  <1> QED BY <1>3, <1>4, <1>5, <1>11, <1>12, <1>13, <1>14, <1>15, EngineStep

LEMMA LinkHalt ==
  ASSUME AdminInv, UNCHANGED <<job, ran, status, wireId, nextRid, acked, lifted, defied>>,
         (halted' = halted /\ eased' = eased) \/ eased' = eased \cup Halts
  PROVE  HaltOK'
  <1>1. HaltOK  BY DEF AdminInv
  <1>2. Halts' = Halts /\ Running("halt")' = Running("halt") /\ \A r : Reused(r)' <=> Reused(r)
    BY DEF Halts, Running, Reused
  <1>3. Halts \subseteq eased' \/ halted'  BY <1>1 DEF HaltOK
  <1> QED BY <1>1, <1>2, <1>3 DEF HaltOK

LEMMA HandleFailsStep ==
  ASSUME AdminInv, NEW g \in Conn, HandleFails(g)
  PROVE  AdminInv'
  <1>1. /\ CanServe(g) /\ conn \in [Conn -> ConnType] /\ FlightOK /\ GoesDeaf(g)
        /\ UNCHANGED <<status, row, job, nextRid, wireId>>
        /\ Execute(Head(conn[g].req)) \/ UNCHANGED <<engineVars, ghostVars>>
    BY DEF HandleFails, GoesDeaf, AdminInv, Shapes, dbVars, jobVars
  <1>2. CASE UNCHANGED <<engineVars, ghostVars>>
    <2>1. HaltOK'  BY <1>1, <1>2, LinkHalt DEF engineVars, ghostVars
    <2>2. LinkStep  BY <1>1, <1>2, <2>1 DEF LinkStep, engineVars, ghostVars
    <2> QED BY <1>1, <2>2, ConnSteps
  <1>3. CASE Execute(Head(conn[g].req))
    <2>1. PICK q : q = Head(conn[g].req)  OBVIOUS
    <2>2. /\ q \in Req /\ q \in Asked(g) /\ q \notin Elems(ran[q.rid]) /\ q.rid < nextRid
          /\ q.op = "place" => /\ q.rid \notin accepted /\ q.arg \in Traders
                               /\ row[q.rid] # None => row[q.rid].user = q.arg
          /\ \A h \in Conn : h # g => q \notin Asked(h)
      BY <1>1, <2>1, FirstAsked
    <2>3. PICK a \in Resp : /\ Key(a) = q
                            /\ a.ids = IF q.op = "cancel_all" THEN OfUser(q.arg) ELSE {}
      BY <2>2, ReplyIs
    <2> DEFINE c == [conn EXCEPT ![g].req = <<>>, ![g].state = "deaf"]
    <2>4. conn' = c /\ UNCHANGED <<writer, pending, call>>  BY <1>1 DEF GoesDeaf
    <2>5. <<>> \in Seq(Req)  OBVIOUS
    <2>6. /\ c \in [Conn -> ConnType] /\ c[g].req = <<>> /\ c[g].state = "deaf"
          /\ \A h \in Conn : c[h].resp = conn[h].resp /\ c[h].reader = conn[h].reader
                             /\ (h # g => c[h] = conn[h])
      BY <1>1, <2>5 DEF ConnType
    <2> HIDE DEF c
    <2>7. ASSUME NEW h \in Conn
          PROVE  /\ Asked(h)' \subseteq Asked(h) /\ q \notin Asked(h)' /\ Told(h)' = Told(h)
                 /\ KeyDistinct(conn'[h].req) /\ KeyDistinct(conn'[h].resp)
      <3>1. KeyDistinct(conn[h].req) /\ KeyDistinct(conn[h].resp)  BY <1>1 DEF FlightOK
      <3>2. Told(h)' = Told(h)  BY <2>4, <2>6 DEF Told
      <3>3. CASE h = g  BY <2>4, <2>6, <3>1, <3>2, <3>3, EmptyDistinct DEF Asked
      <3>4. CASE h # g  BY <2>2, <2>4, <2>6, <3>1, <3>2, <3>4 DEF Asked
      <3> QED BY <3>3, <3>4
    <2>8. \A h \in Conn : conn'[h].state = "unused" => conn'[h].reader = "none"
      <3>1. \A h \in Conn : conn[h].state = "unused" => conn[h].reader = "none"  BY DEF AdminInv, Shapes
      <3> QED BY <2>4, <2>6, <3>1
    <2>9. IdsMove /\ q.rid < nextRid'  BY <1>1, <2>2 DEF IdsMove
    <2>10. conn' \in [Conn -> ConnType] /\ UNCHANGED <<writer, pending, call, status, row, job>>
      BY <1>1, <2>4, <2>6
    <2>11. Execute(q)  BY <1>3, <2>1
    <2> QED BY <2>2, <2>3, <2>7, <2>8, <2>9, <2>10, <2>11, EngineStep
  <1> QED BY <1>1, <1>2, <1>3

LEMMA DirectOrderStep ==
  ASSUME AdminInv, NEW u \in Traders, DirectOrder(u)
  PROVE  AdminInv'
  <1>1. /\ nextRid <= MaxRequests /\ nextRid' = nextRid + 1 /\ Execute(Request(nextRid, "place", u))
        /\ UNCHANGED <<conn, writer, pending, call, status, row, job, wireId>>
    BY DEF DirectOrder, linkVars, dbVars
  <1>2. /\ nextRid \in Rid /\ row[nextRid] = None /\ nextRid \notin accepted /\ wireId[nextRid] = nextRid
        /\ \A h \in Conn : \A x \in Asked(h) : x.rid # nextRid
        /\ \A x : x.rid = nextRid => ~Sent(ran, conn, x)
    BY <1>1, Fresh
  <1>3. /\ conn \in [Conn -> ConnType] /\ nextRid \in Nat /\ nextRid >= 1 /\ IdsOK /\ FlightOK
        /\ \A h \in Conn : conn[h].state = "unused" => conn[h].reader = "none"
    BY LinkAssumption DEF AdminInv, Shapes
  <1>4. PICK q : q = Request(nextRid, "place", u)  OBVIOUS
  <1>5. q \in Req /\ q.rid = nextRid /\ q.op = "place" /\ q.arg = u
    BY <1>2, <1>4 DEF Req, Request, Op, Arg
  <1>6. PICK a \in Resp : /\ Key(a) = q
                          /\ a.ids = IF q.op = "cancel_all" THEN OfUser(q.arg) ELSE {}
    BY <1>5, ReplyIs
  <1>7. PICK g : g \in Conn  BY LinkAssumption DEF Conn
  <1>8. IdsMove
    <2>1. wireId' = [wireId EXCEPT ![nextRid] = nextRid]  BY <1>1, <1>2, <1>3 DEF IdsOK
    <2>2. nextRid \in 1 .. nextRid  BY <1>3
    <2> QED BY <1>1, <2>1, <2>2 DEF IdsMove
  <1>9. q.rid < nextRid' /\ q \notin Elems(ran[q.rid]) /\ \A h \in Conn : q \notin Asked(h)
    BY <1>1, <1>2, <1>3, <1>5 DEF Sent
  <1>10. /\ \A h \in Conn : /\ Asked(h)' \subseteq Asked(h) /\ q \notin Asked(h)'
                            /\ Told(h)' \subseteq Told(h) \cup {a} /\ (h # g => Told(h)' \subseteq Told(h))
                            /\ KeyDistinct(conn'[h].req) /\ KeyDistinct(conn'[h].resp)
         /\ \A h \in Conn : Told(h)' \subseteq Told(h)
    BY <1>1, <1>3, <1>9 DEF Asked, Told, FlightOK
  <1>11. /\ conn' \in [Conn -> ConnType] /\ UNCHANGED <<writer, pending, call, status, row, job>>
         /\ \A h \in Conn : conn'[h].state = "unused" => conn'[h].reader = "none"
    BY <1>1, <1>3
  <1>12. Execute(q)  BY <1>1, <1>4
  <1>13. q.op = "place" => /\ q.rid \notin accepted /\ q.arg \in Traders
                           /\ row[q.rid] # None => row[q.rid].user = q.arg
    BY <1>2, <1>5
  <1> QED BY <1>5, <1>6, <1>7, <1>8, <1>9, <1>10, <1>11, <1>12, <1>13, EngineStep

-----------------------------------------------------------------------------
(* The handlers.  What the invariant says of one task.                     *)

TaskOK(t) ==
  /\ job[t] # None => JobOK(t)
  /\ call[t] # None => job[t] # None
  /\ job[t] # None =>
       /\ call[t] # None /\ call[t].step = "write" => ~Sent(ran, conn, call[t].req)
       /\ \A i \in DOMAIN job[t].todo :
            i > 1 \/ call[t] = None =>
              ~Sent(ran, conn, Request(job[t].rid, OpOf(job[t].kind), job[t].todo[i]))
       /\ job[t].ids \subseteq Gone
  /\ call[t] # None /\ call[t].got \in Resp => call[t].got.ids \subseteq Gone
  /\ job[t] # None /\ ~Reused(job[t].rid) =>
       /\ \A m \in OnItsWay : m.rid = job[t].rid => Awaited(t, m)
       /\ call[t] # None /\ call[t].got \in Resp => OwnAnswer(t)
       /\ call[t] # None /\ call[t].step = "write" /\ job[t].kind # "view" =>
            call[t].got = None \/ call[t].got \in Failure
       /\ job[t].kind = "cancel_all" =>
            /\ job[t].seen \subseteq accepted
            /\ \A r \in job[t].seen \cap live : owner[r] \in Elems(job[t].todo)
            /\ \A g \in Conn : \A a \in Told(g) : a.rid = job[t].rid =>
                 Reached(job[t].seen, live, owner, a.arg)
            /\ call[t] # None /\ call[t].got \in Resp => Reached(job[t].seen, live, owner, call[t].got.arg)

LEMMA TaskFacts ==
  ASSUME AdminInv, NEW t \in Tasks
  PROVE  TaskOK(t)
  BY DEF AdminInv, TaskOK, JobsOK, UnsentOK, AwaitedOK, OrdersOK, ReachOK

(* A handler leaves the engine, the queues and what was executed alone. *)
HandlerStep == UNCHANGED <<conn, writer, halted, live, owner, accepted, ran, eased>>

(* Rows stay, with their users, and show as canceled only what is gone. *)
RowsKeep ==
  /\ row' \in [Rid -> Row \cup {None}]
  /\ \A r \in Rid : row[r] # None => row'[r] # None /\ row'[r].user = row[r].user
  /\ \A r \in Rid : row'[r] # None /\ row'[r].status = "canceled" => r \in Gone
  /\ \A r \in accepted : row'[r] # None => row'[r].user = owner[r]

(* The calls of other tasks: a sender that is replaced in the map fails. *)
CallKeeps(u) ==
  /\ call'[u] = None <=> call[u] = None
  /\ call[u] # None => /\ call'[u].req = call[u].req /\ call'[u].step = call[u].step
                       /\ call'[u].got = call[u].got \/ call'[u].got \in Failure

OthersKeep(t) ==
  /\ call' \in [Tasks -> Call \cup {None}]
  /\ \A u \in Tasks \ {t} : CallKeeps(u)

LEMMA SameFlight ==
  ASSUME AdminInv, HandlerStep, IdsMove
  PROVE  /\ FlightOK' /\ OnItsWay' = OnItsWay /\ Gone' = Gone
         /\ \A g \in Conn : Asked(g)' = Asked(g) /\ Told(g)' = Told(g)
  <1>1. FlightOK /\ Shapes  BY DEF AdminInv
  <1>2. \A g \in Conn : Asked(g)' = Asked(g) /\ Told(g)' = Told(g)  BY DEF HandlerStep, Asked, Told
  <1>3. \A r \in Rid : r < nextRid => r < nextRid'  BY IdsKeep
  <1>4. \A g \in Conn : \A q \in Asked(g) : q.rid \in Rid
    <2>1. \A g \in Conn : Asked(g) \subseteq Req  BY <1>1, ConnFacts
    <2> QED BY <2>1 DEF Req
  <1>5. OnItsWay' = OnItsWay  BY <1>2 DEF OnItsWay
  <1>6. FlightOK'
    <2>1. \A r \in Rid : /\ \A i, j \in DOMAIN ran[r] : ran[r][i] = ran[r][j] => i = j
                         /\ \A q \in Elems(ran[r]) : q.rid = r /\ r < nextRid'
      BY <1>1, <1>3 DEF FlightOK
    <2>2. \A g \in Conn : \A q \in Asked(g) : q \notin Elems(ran[q.rid]) /\ q.rid < nextRid'
      BY <1>1, <1>3, <1>4 DEF FlightOK
    <2> QED BY <1>1, <1>2, <2>1, <2>2 DEF FlightOK, HandlerStep
  <1>7. Gone' = Gone  BY DEF HandlerStep, Gone
  <1> QED BY <1>2, <1>5, <1>6, <1>7

LEMMA OtherTask ==
  ASSUME AdminInv, HandlerStep, IdsMove, RowsKeep,
         NEW u \in Tasks, job'[u] = job[u], CallKeeps(u)
  PROVE  TaskOK(u)'
  <1>1. TaskOK(u) /\ Shapes  BY TaskFacts DEF AdminInv
  <1>2. /\ OnItsWay' = OnItsWay /\ Gone' = Gone
        /\ \A g \in Conn : Asked(g)' = Asked(g) /\ Told(g)' = Told(g)
    BY SameFlight
  <1>3. job[u] # None => job[u] \in Job /\ job[u].rid \in Rid /\ JobOK(u) /\ job[u].rid < nextRid
    BY <1>1 DEF Shapes, Job, TaskOK, JobOK
  <1>4. job[u] # None => JobOK(u)'
    <2> SUFFICES ASSUME job[u] # None PROVE JobOK(u)'  OBVIOUS
    <2>1. JobOK(u)  BY <1>3
    <2>2. job[u].rid < nextRid'  BY <1>3, IdsKeep
    <2>3. /\ call'[u] = None <=> call[u] = None
          /\ call[u] # None => call'[u].req = call[u].req
      BY DEF CallKeeps
    <2>4. job[u].kind = "place" =>
            row'[job[u].rid] # None /\ call'[u] # None /\ call'[u].req.arg = row'[job[u].rid].user
      BY <1>3, <2>1, <2>3 DEF JobOK, RowsKeep
    <2> QED BY <2>1, <2>2, <2>3, <2>4 DEF JobOK
  <1>5. \A m : Awaited(u, m) => Awaited(u, m)'  BY DEF Awaited, CallKeeps
  <1>6. call'[u] # None /\ call'[u].got \in Resp =>
          call[u] # None /\ call'[u].got = call[u].got /\ call'[u].req = call[u].req
    BY RespIsNoFailure DEF CallKeeps
  <1>7. job[u] # None /\ ~Reused(job[u].rid)' => ~Reused(job[u].rid)
    BY <1>3, IdsKeep
  <1>8. call'[u] # None => job[u] # None  BY <1>1 DEF TaskOK, CallKeeps
  <1>9. ASSUME job[u] # None
        PROVE  /\ call'[u] # None /\ call'[u].step = "write" => ~Sent(ran', conn', call'[u].req)
               /\ \A i \in DOMAIN job[u].todo :
                    i > 1 \/ call'[u] = None =>
                      ~Sent(ran', conn', Request(job[u].rid, OpOf(job[u].kind), job[u].todo[i]))
               /\ job[u].ids \subseteq Gone
    BY <1>1, <1>9 DEF TaskOK, HandlerStep, CallKeeps
  <1>10. call'[u] # None /\ call'[u].got \in Resp => call'[u].got.ids \subseteq Gone
    BY <1>1, <1>6 DEF TaskOK
  <1>11. ASSUME job[u] # None, ~Reused(job[u].rid)'
         PROVE  /\ \A m \in OnItsWay : m.rid = job[u].rid => Awaited(u, m)'
                /\ call'[u] # None /\ call'[u].got \in Resp => OwnAnswer(u)'
                /\ call'[u] # None /\ call'[u].step = "write" /\ job[u].kind # "view" =>
                     call'[u].got = None \/ call'[u].got \in Failure
                /\ job[u].kind = "cancel_all" =>
                     /\ job[u].seen \subseteq accepted
                     /\ \A r \in job[u].seen \cap live : owner[r] \in Elems(job[u].todo)
                     /\ \A g \in Conn : \A a \in Told(g) : a.rid = job[u].rid =>
                          Reached(job[u].seen, live, owner, a.arg)
                     /\ call'[u] # None /\ call'[u].got \in Resp =>
                          Reached(job[u].seen, live, owner, call'[u].got.arg)
    <2>1. ~Reused(job[u].rid)  BY <1>7, <1>11
    <2>2. /\ \A m \in OnItsWay : m.rid = job[u].rid => Awaited(u, m)
          /\ call[u] # None /\ call[u].got \in Resp => OwnAnswer(u)
          /\ call[u] # None /\ call[u].step = "write" /\ job[u].kind # "view" =>
               call[u].got = None \/ call[u].got \in Failure
          /\ job[u].kind = "cancel_all" =>
               /\ job[u].seen \subseteq accepted
               /\ \A r \in job[u].seen \cap live : owner[r] \in Elems(job[u].todo)
               /\ \A g \in Conn : \A a \in Told(g) : a.rid = job[u].rid =>
                    Reached(job[u].seen, live, owner, a.arg)
               /\ call[u] # None /\ call[u].got \in Resp => Reached(job[u].seen, live, owner, call[u].got.arg)
      BY <1>1, <1>11, <2>1 DEF TaskOK
    <2>3. call'[u] # None /\ call'[u].got \in Resp => OwnAnswer(u)'
      BY <1>6, <2>2 DEF OwnAnswer, HandlerStep
    <2>4. call'[u] # None /\ call'[u].step = "write" /\ job[u].kind # "view" =>
            call'[u].got = None \/ call'[u].got \in Failure
      BY <2>2 DEF CallKeeps
    <2> QED BY <1>5, <1>6, <2>2, <2>3, <2>4
  <1> QED BY <1>2, <1>4, <1>8, <1>9, <1>10, <1>11 DEF TaskOK, HandlerStep

(* The invariant from what holds of every task. *)
LEMMA Compose ==
  ASSUME AdminInv, HandlerStep, IdsMove, RowsKeep, HaltOK', PendingOK',
         pending' \in [Rid -> Tasks \cup {None}], status' \in {"trading", "halted"},
         job' \in [Tasks -> Job \cup {None}], call' \in [Tasks -> Call \cup {None}],
         \A u \in Tasks : TaskOK(u)',
         \A u, v \in Tasks : job'[u] # None /\ job'[v] # None /\ job'[u].rid = job'[v].rid => u = v,
         \A r \in Rid : r >= nextRid' => row'[r] = None,
         \A m \in missed' : m[1] \in Rid /\ m[1] < nextRid' /\ Reused(m[1])'
  PROVE  AdminInv'
  <1>1. Shapes /\ JobsOK /\ FlightOK /\ OrdersOK  BY DEF AdminInv
  <1>2. /\ FlightOK' /\ OnItsWay' = OnItsWay /\ Gone' = Gone
        /\ \A g \in Conn : Asked(g)' = Asked(g) /\ Told(g)' = Told(g)
    BY SameFlight
  <1>3. IdsOK' /\ nextRid' \in 1 .. MaxRequests + 1 /\ \A r \in Rid : r < nextRid => r < nextRid'
    BY IdsKeep
  <1>4. JobsOK' /\ UnsentOK' /\ AwaitedOK' /\ ReachOK'
    BY DEF JobsOK, UnsentOK, AwaitedOK, ReachOK, TaskOK
  <1>5. OrdersOK'
    <2>1. \A r \in accepted : /\ r \in Rid /\ owner[r] \in Traders /\ r < nextRid'
                              /\ Request(r, "place", owner[r]) \in Elems(ran[r])
      BY <1>1, <1>3 DEF OrdersOK, Shapes
    <2>2. \A g \in Conn : \A q \in Asked(g) : q.rid \in Rid
      <3>1. \A g \in Conn : Asked(g) \subseteq Req  BY <1>1, ConnFacts
      <3> QED BY <3>1 DEF Req
    <2>3. \A g \in Conn : \A q \in Asked(g) : q.op = "place" => row'[q.rid] # None /\ q.arg = row'[q.rid].user
      BY <1>1, <2>2 DEF OrdersOK, RowsKeep
    <2>4. \A g \in Conn : \A a \in Told(g) : a.ids \subseteq Gone  BY <1>1 DEF OrdersOK
    <2>5. \A u \in Tasks : /\ call'[u] # None /\ call'[u].got \in Resp => call'[u].got.ids \subseteq Gone'
                           /\ job'[u] # None => job'[u].ids \subseteq Gone'
      BY DEF TaskOK
    <2> QED BY <1>2, <2>1, <2>3, <2>4, <2>5 DEF OrdersOK, HandlerStep, RowsKeep
  <1>6. Shapes'  BY <1>1, <1>3 DEF Shapes, HandlerStep, RowsKeep
  <1> QED BY <1>2, <1>3, <1>4, <1>5, <1>6 DEF AdminInv

(* One handler moves: job t becomes j. *)
LEMMA JobCompose ==
  ASSUME AdminInv, HandlerStep, IdsMove, RowsKeep, HaltOK', PendingOK',
         pending' \in [Rid -> Tasks \cup {None}], status' \in {"trading", "halted"},
         NEW t \in Tasks, NEW j \in Job \cup {None}, job' = [job EXCEPT ![t] = j],
         OthersKeep(t), TaskOK(t)',
         j # None => \/ job[t] # None /\ j.rid = job[t].rid
                     \/ j.rid = nextRid,
         \A r \in Rid : r >= nextRid' => row'[r] = None,
         \A m \in missed' : m[1] \in Rid /\ m[1] < nextRid' /\ Reused(m[1])'
  PROVE  AdminInv'
  <1>1. JobsOK /\ Shapes /\ job \in [Tasks -> Job \cup {None}] /\ nextRid \in Nat
    BY LinkAssumption DEF AdminInv, Shapes
  <1>2. job'[t] = j /\ job' \in [Tasks -> Job \cup {None}] /\ \A u \in Tasks \ {t} : job'[u] = job[u]
    BY <1>1
  <1>3. call' \in [Tasks -> Call \cup {None}]  BY DEF OthersKeep
  <1>4. ASSUME NEW u \in Tasks PROVE TaskOK(u)'
    <2>1. CASE u = t  BY <2>1
    <2>2. CASE u # t
      <3>1. job'[u] = job[u] /\ CallKeeps(u)  BY <1>2, <2>2 DEF OthersKeep
      <3> QED BY <3>1, OtherTask
    <2> QED BY <2>1, <2>2
  <1>5. ASSUME NEW u \in Tasks, NEW v \in Tasks, job'[u] # None, job'[v] # None, job'[u].rid = job'[v].rid
        PROVE  u = v
    <2>1. CASE u # t /\ v # t  BY <1>1, <1>2, <1>5, <2>1 DEF JobsOK
    <2>2. ASSUME NEW w \in Tasks \ {t}, job[w] # None, j # None PROVE job[w].rid # j.rid
      <3>1. CASE job[t] # None /\ j.rid = job[t].rid  BY <1>1, <2>2, <3>1 DEF JobsOK
      <3>2. CASE j.rid = nextRid
        <4>1. JobOK(w)  BY <1>1, <2>2 DEF JobsOK
        <4> QED BY <1>1, <3>2, <4>1 DEF JobOK
      <3> QED BY <2>2, <3>1, <3>2
    <2> QED BY <1>2, <1>5, <2>1, <2>2
  <1> QED BY <1>2, <1>3, <1>4, <1>5, Compose

(* Senders in the map stay those of waiting calls. *)
LEMMA PendingMove ==
  ASSUME AdminInv, IdsMove,
         \A i \in Rid : pending'[i] # None =>
           /\ pending'[i] = pending[i] /\ call'[pending[i]] # None
           /\ call'[pending[i]].got = None /\ call'[pending[i]].req = call[pending[i]].req
  PROVE  PendingOK'
  <1>1. ASSUME NEW i \in Rid, pending'[i] # None PROVE wireId'[call'[pending'[i]].req.rid] = i
    <2>1. /\ call[pending[i]] # None /\ wireId[call[pending[i]].req.rid] = i /\ pending[i] \in Tasks
      BY <1>1 DEF AdminInv, PendingOK, Shapes
    <2>2. job[pending[i]] # None /\ job[pending[i]] \in Job /\ JobOK(pending[i])  BY <2>1, CallIs
    <2>3. call[pending[i]].req.rid \in Rid /\ call[pending[i]].req.rid < nextRid
      BY <2>1, <2>2 DEF JobOK, Job
    <2>4. wireId'[call[pending[i]].req.rid] = wireId[call[pending[i]].req.rid]  BY <2>3, IdsKeep
    <2> QED BY <1>1, <2>1, <2>4
  <1> QED BY <1>1 DEF PendingOK

(* A task without a call in the map, and whose call is over. *)
LEMMA QuietCall ==
  ASSUME AdminInv, IdsMove, NEW t \in Tasks, call[t] = None \/ call[t].got # None,
         call' = [call EXCEPT ![t] = None], pending' = pending
  PROVE  /\ OthersKeep(t) /\ PendingOK' /\ pending' \in [Rid -> Tasks \cup {None}] /\ call'[t] = None
  <1>1. /\ call \in [Tasks -> Call \cup {None}] /\ pending \in [Rid -> Tasks \cup {None}] /\ PendingOK
    BY DEF AdminInv, Shapes
  <1>2. call'[t] = None /\ call' \in [Tasks -> Call \cup {None}] /\ \A u \in Tasks \ {t} : call'[u] = call[u]
    BY <1>1
  <1>3. OthersKeep(t)  BY <1>2 DEF OthersKeep, CallKeeps
  <1>4. ASSUME NEW i \in Rid, pending'[i] # None
        PROVE  /\ pending'[i] = pending[i] /\ call'[pending[i]] # None
               /\ call'[pending[i]].got = None /\ call'[pending[i]].req = call[pending[i]].req
    <2>1. call[pending[i]] # None /\ call[pending[i]].got = None /\ pending[i] \in Tasks
      BY <1>1, <1>4 DEF PendingOK
    <2>2. pending[i] # t  BY <2>1
    <2> QED BY <1>2, <2>1, <2>2
  <1> QED BY <1>1, <1>2, <1>3, <1>4, PendingMove

(* A new call, which takes the place of another one under its id. *)
LEMMA SendCall ==
  ASSUME AdminInv, IdsMove, NEW t \in Tasks, call[t] = None, NEW q \in Req, NEW i \in Rid,
         Send(t, q, i), wireId'[q.rid] = i
  PROVE  /\ OthersKeep(t) /\ PendingOK' /\ pending' \in [Rid -> Tasks \cup {None}]
         /\ \E c \in Call : /\ call'[t] = c /\ c # None
                            /\ c.req = q /\ c.step = "write" /\ c.got = None
  <1>1. /\ call \in [Tasks -> Call \cup {None}] /\ pending \in [Rid -> Tasks \cup {None}] /\ PendingOK
    BY DEF AdminInv, Shapes
  <1> DEFINE D == Dropped({i})
             c == [req |-> q, step |-> "write", got |-> None]
  <1>2. /\ D \in [Tasks -> Call \cup {None}]
        /\ \A u \in Tasks :
             \/ D[u] = call[u]
             \/ /\ call[u] # None /\ wireId[call[u].req.rid] \in {i}
                /\ D[u] \in Call /\ D[u] # None
                /\ D[u].req = call[u].req /\ D[u].step = call[u].step /\ D[u].got = Io
    BY DroppedFacts
  <1>3. c \in Call /\ c.req = q /\ c.step = "write" /\ c.got = None  BY DEF Call
  <1>4. call' = [D EXCEPT ![t] = c] /\ pending' = [pending EXCEPT ![i] = t]  BY DEF Send
  <1> HIDE DEF c, D
  <1>5. /\ call'[t] = c /\ c # None /\ call' \in [Tasks -> Call \cup {None}] /\ Io \in Failure
        /\ \A u \in Tasks \ {t} : call'[u] = D[u]
    BY <1>2, <1>3, <1>4, NoneAssumption DEF Failure
  <1>6. OthersKeep(t)
    <2>1. ASSUME NEW u \in Tasks \ {t} PROVE CallKeeps(u)
      <3>1. CASE D[u] = call[u]  BY <1>5, <3>1 DEF CallKeeps
      <3>2. CASE D[u] # call[u]  BY <1>2, <1>5, <3>2 DEF CallKeeps
      <3> QED BY <3>1, <3>2
    <2> QED BY <1>5, <2>1 DEF OthersKeep
  <1>7. /\ pending' \in [Rid -> Tasks \cup {None}] /\ pending'[i] = t
        /\ \A k \in Rid : k # i => pending'[k] = pending[k]
    BY <1>1, <1>4
  <1>8. ASSUME NEW k \in Rid, pending'[k] # None
        PROVE  /\ call'[pending'[k]] # None /\ call'[pending'[k]].got = None
               /\ wireId'[call'[pending'[k]].req.rid] = k
    <2>1. CASE k = i  BY <1>3, <1>5, <1>7, <2>1
    <2>2. CASE k # i
      <3>1. pending'[k] = pending[k] /\ pending[k] # None  BY <1>7, <1>8, <2>2
      <3>2. /\ call[pending[k]] # None /\ call[pending[k]].got = None /\ pending[k] \in Tasks
            /\ wireId[call[pending[k]].req.rid] = k
        BY <1>1, <3>1 DEF PendingOK
      <3>3. pending[k] # t /\ D[pending[k]] = call[pending[k]]  BY <1>2, <2>2, <3>2
      <3>4. call'[pending[k]] = call[pending[k]]  BY <1>5, <3>2, <3>3
      <3>5. job[pending[k]] # None /\ job[pending[k]] \in Job /\ JobOK(pending[k])  BY <3>2, CallIs
      <3>6. call[pending[k]].req.rid \in Rid /\ call[pending[k]].req.rid < nextRid
        BY <3>2, <3>5 DEF JobOK, Job
      <3>7. wireId'[call[pending[k]].req.rid] = wireId[call[pending[k]].req.rid]  BY <3>6, IdsKeep
      <3> QED BY <3>1, <3>2, <3>4, <3>7
    <2> QED BY <2>1, <2>2
  <1>9. PendingOK'  BY <1>8 DEF PendingOK
  <1> QED BY <1>3, <1>5, <1>6, <1>7, <1>9

-----------------------------------------------------------------------------
(* A job that goes on, and one that ends.                                  *)

LEMMA HaltKeep ==
  ASSUME AdminInv, IdsMove, NEW t \in Tasks, NEW j \in Job \cup {None}, job' = [job EXCEPT ![t] = j],
         UNCHANGED <<ran, halted, eased, status, acked, lifted, defied>>,
         j # None /\ j.kind = "halt" =>
           \/ j.step = "engine"
           \/ /\ job[t] # None /\ j.rid = job[t].rid /\ j.step = "db"
              /\ ~Reused(j.rid) => j.rid \in Halts
  PROVE  HaltOK'
  <1>1. HaltOK /\ JobsOK /\ job \in [Tasks -> Job \cup {None}]  BY DEF AdminInv, Shapes
  <1>2. job'[t] = j /\ \A u \in Tasks \ {t} : job'[u] = job[u]  BY <1>1
  <1>3. Halts' = Halts  BY DEF Halts
  <1>4. \A u \in Tasks : job[u] # None => job[u].rid \in Rid /\ job[u].rid < nextRid
    BY <1>1 DEF JobsOK, JobOK, Job
  <1>5. \A h \in acked : h \in Rid /\ h < nextRid' /\ (~Reused(h)' => h \in Halts)
    <2>1. \A h \in acked : h \in Rid /\ h < nextRid /\ (~Reused(h) => h \in Halts)  BY <1>1 DEF HaltOK
    <2> QED BY <2>1, IdsKeep
  <1>6. ASSUME NEW u \in Running("halt")', NEW r, r = job'[u].rid
        PROVE  /\ job'[u].step # "engine" /\ ~Reused(r)' => r \in Halts
               /\ job'[u].step = "audit" => r \in lifted \/ status = "halted"
    <2>1. u \in Tasks /\ job'[u] # None /\ job'[u].kind = "halt"  BY DEF Running
    <2>2. CASE u = t
      <3>1. job'[u] = j /\ j # None /\ j.kind = "halt"  BY <1>2, <2>1, <2>2
      <3>2. CASE j.step = "engine"  BY <3>1, <3>2
      <3>3. CASE j.step # "engine"
        <4>1. /\ job[t] # None /\ r = job[t].rid /\ j.step = "db"
              /\ ~Reused(r) => r \in Halts
          BY <1>6, <3>1, <3>3
        <4>2. Reused(r) => Reused(r)'  BY <1>4, <4>1, IdsKeep
        <4> QED BY <3>1, <4>1, <4>2
      <3> QED BY <3>2, <3>3
    <2>3. CASE u # t
      <3>1. job'[u] = job[u] /\ u \in Running("halt") /\ r = job[u].rid  BY <1>2, <1>6, <2>1, <2>3 DEF Running
      <3>2. Reused(r) => Reused(r)'  BY <1>4, <2>1, <3>1, IdsKeep
      <3> QED BY <1>1, <3>1, <3>2 DEF HaltOK
    <2> QED BY <2>2, <2>3
  <1> QED BY <1>1, <1>3, <1>5, <1>6 DEF HaltOK

LEMMA MissedKeep ==
  ASSUME AdminInv, IdsMove
  PROVE  \A m \in missed : m[1] \in Rid /\ m[1] < nextRid' /\ Reused(m[1])'
  <1>1. \A m \in missed : m[1] \in Rid /\ m[1] < nextRid /\ Reused(m[1])  BY DEF AdminInv, ReachOK
  <1> QED BY <1>1, IdsKeep

LEMMA RowsSame ==
  ASSUME AdminInv, IdsMove, row' = row
  PROVE  RowsKeep /\ \A r \in Rid : r >= nextRid' => row'[r] = None
  <1>1. \A r \in Rid : r >= nextRid' => r >= nextRid  BY IdsKeep
  <1>2. RowsKeep  BY DEF AdminInv, Shapes, OrdersOK, RowsKeep
  <1> QED BY <1>1, <1>2 DEF AdminInv, JobsOK

FilesSame == UNCHANGED <<row, missed, status, acked, lifted, defied, nextRid, wireId>>

LEMMA MoveQuiet ==
  ASSUME AdminInv, HandlerStep, FilesSame, NEW t \in Tasks, job[t] # None,
         NEW j \in Job, j.rid = job[t].rid, job' = [job EXCEPT ![t] = j],
         j.kind = "halt" =>
           \/ j.step = "engine"
           \/ j.step = "db" /\ (~Reused(j.rid) => j.rid \in Halts),
         OthersKeep(t), PendingOK', pending' \in [Rid -> Tasks \cup {None}], TaskOK(t)'
  PROVE  AdminInv'
  <1>1. IdsMove  BY DEF FilesSame, IdsMove
  <1>2. HaltOK'  BY <1>1, HaltKeep DEF FilesSame, HandlerStep
  <1>3. RowsKeep /\ \A r \in Rid : r >= nextRid' => row'[r] = None  BY <1>1, RowsSame DEF FilesSame
  <1>4. /\ \A m \in missed' : m[1] \in Rid /\ m[1] < nextRid' /\ Reused(m[1])'
        /\ status' \in {"trading", "halted"}
    BY <1>1, MissedKeep DEF FilesSame, AdminInv, Shapes
  <1> QED BY <1>1, <1>2, <1>3, <1>4, JobCompose

LEMMA EndTask ==
  ASSUME AdminInv, HandlerStep, RowsKeep, HaltOK', UNCHANGED <<nextRid, wireId, status>>,
         NEW t \in Tasks, job[t] # None, call[t] = None \/ call[t].got # None,
         job' = [job EXCEPT ![t] = None], call' = [call EXCEPT ![t] = None], pending' = pending,
         \A r \in Rid : r >= nextRid => row'[r] = None,
         \A m \in missed' : m[1] \in Rid /\ m[1] < nextRid' /\ Reused(m[1])'
  PROVE  AdminInv'
  <1>1. IdsMove  BY DEF IdsMove
  <1>2. /\ OthersKeep(t) /\ PendingOK' /\ pending' \in [Rid -> Tasks \cup {None}] /\ call'[t] = None
    BY <1>1, QuietCall
  <1>3. job'[t] = None /\ status' \in {"trading", "halted"}  BY DEF AdminInv, Shapes
  <1>4. TaskOK(t)'  BY <1>2, <1>3 DEF TaskOK
  <1>5. \A r \in Rid : r >= nextRid' => row'[r] = None  OBVIOUS
  <1> QED BY <1>1, <1>2, <1>3, <1>4, <1>5, JobCompose

LEMMA EndQuiet ==
  ASSUME AdminInv, HandlerStep, FilesSame, NEW t \in Tasks, job[t] # None,
         call[t] = None \/ call[t].got # None,
         job' = [job EXCEPT ![t] = None], call' = [call EXCEPT ![t] = None], pending' = pending
  PROVE  AdminInv'
  <1>1. IdsMove  BY DEF FilesSame, IdsMove
  <1>2. HaltOK'  BY <1>1, HaltKeep DEF FilesSame, HandlerStep
  <1>3. RowsKeep /\ \A r \in Rid : r >= nextRid' => row'[r] = None  BY <1>1, RowsSame DEF FilesSame
  <1>4. \A m \in missed' : m[1] \in Rid /\ m[1] < nextRid' /\ Reused(m[1])'
    BY <1>1, MissedKeep DEF FilesSame
  <1>5. UNCHANGED <<nextRid, wireId, status>> /\ \A r \in Rid : r >= nextRid => row'[r] = None
    BY <1>3 DEF FilesSame
  <1> QED BY <1>2, <1>3, <1>4, <1>5, EndTask

(* Nothing is on its way for a job whose call was answered. *)
LEMMA NothingComes ==
  ASSUME AdminInv, NEW t \in Tasks, job[t] # None, job[t].kind # "view", ~Reused(job[t].rid),
         call[t] = None \/ call[t].got \in Resp
  PROVE  \A m \in OnItsWay : m.rid # job[t].rid
  <1> SUFFICES ASSUME NEW m \in OnItsWay, m.rid = job[t].rid PROVE FALSE  OBVIOUS
  <1>1. Awaited(t, m)  BY DEF AdminInv, AwaitedOK
  <1>2. call[t] # None /\ (call[t].got = None \/ call[t].got \in Failure)  BY <1>1 DEF Awaited
  <1> QED BY <1>2, RespIsNoFailure, NoneAssumption

(* A job between two calls, or past them. *)
LEMMA BetweenCalls ==
  ASSUME AdminInv, HandlerStep, UNCHANGED <<nextRid, wireId>>, RowsKeep, NEW t \in Tasks, job[t] # None,
         NEW j \in Job, job' = [job EXCEPT ![t] = j], call'[t] = None,
         j.rid = job[t].rid, j.kind = job[t].kind, j.seen = job[t].seen, j.ids \subseteq Gone,
         j.kind # "place", j.kind \notin Several => j.todo = <<>>,
         j.step # "engine" => j.todo = <<>> /\ j.kind \notin {"view", "user_cancel"},
         \A a, b \in DOMAIN j.todo : j.todo[a] = j.todo[b] => a = b,
         \A i \in DOMAIN j.todo : ~Sent(ran, conn, Request(j.rid, OpOf(j.kind), j.todo[i])),
         ~Reused(j.rid) =>
           /\ j.kind # "view" => \A m \in OnItsWay : m.rid # j.rid
           /\ j.kind = "cancel_all" => \A r \in j.seen \cap live : owner[r] \in Elems(j.todo)
  PROVE  TaskOK(t)'
  <1>1. job'[t] = j /\ j # None
    BY NoneAssumption DEF AdminInv, Shapes
  <1>2. TaskOK(t) /\ nextRid \in Nat /\ IdsMove  BY TaskFacts, LinkAssumption DEF AdminInv, Shapes, IdsMove
  <1>3. /\ OnItsWay' = OnItsWay /\ Gone' = Gone
        /\ \A g \in Conn : Asked(g)' = Asked(g) /\ Told(g)' = Told(g)
    BY <1>2, SameFlight
  <1>4. JobOK(t)'
    <2>1. j.rid < nextRid  BY <1>2 DEF TaskOK, JobOK
    <2> QED BY <1>1, <2>1 DEF JobOK
  <1>5. Reused(j.rid)' <=> Reused(j.rid)  BY DEF Reused
  <1>6. ASSUME ~Reused(j.rid), NEW m \in OnItsWay, m.rid = j.rid PROVE Awaited(t, m)'
    <2>1. j.kind = "view"  BY <1>6
    <2>2. Awaited(t, m)  BY <1>2, <1>6 DEF TaskOK
    <2> QED BY <1>1, <2>1, <2>2 DEF Awaited
  <1>7. ASSUME ~Reused(j.rid), j.kind = "cancel_all"
        PROVE  /\ j.seen \subseteq accepted
               /\ \A r \in j.seen \cap live : owner[r] \in Elems(j.todo)
               /\ \A g \in Conn : \A a \in Told(g) : a.rid = j.rid => Reached(j.seen, live, owner, a.arg)
    BY <1>2, <1>7 DEF TaskOK
  <1>8. \A i \in DOMAIN j.todo : ~Sent(ran', conn', Request(j.rid, OpOf(j.kind), j.todo[i]))
    BY DEF HandlerStep
  <1>9. live' = live /\ owner' = owner /\ accepted' = accepted  BY DEF HandlerStep
  <1> QED BY <1>1, <1>3, <1>4, <1>5, <1>6, <1>7, <1>8, <1>9 DEF TaskOK

-----------------------------------------------------------------------------
(* The steps of a request in progress.                                     *)

(* The job a task does, and what its call got. *)
LEMMA JobIs ==
  ASSUME AdminInv, NEW t \in Tasks, job[t] # None
  PROVE  /\ job[t] \in Job /\ JobOK(t) /\ job[t].rid \in Rid /\ job[t].rid < nextRid /\ job[t].ids \subseteq Gone
         /\ job[t].todo \in Seq(Traders \cup Symbols) /\ job[t].kind \in Kind
         /\ job \in [Tasks -> Job \cup {None}] /\ call \in [Tasks -> Call \cup {None}] /\ nextRid \in Nat
  <1>1. job[t] \in Job /\ JobOK(t) /\ job[t].ids \subseteq Gone
        /\ job \in [Tasks -> Job \cup {None}] /\ call \in [Tasks -> Call \cup {None}] /\ nextRid \in Nat
    BY LinkAssumption DEF AdminInv, Shapes, JobsOK, OrdersOK
  <1> QED BY <1>1 DEF Job, JobOK

LEMMA Succeeded ==
  ASSUME AdminInv, NEW t \in Tasks, Returned(t), ~Failed(t)
  PROVE  call[t] # None /\ call[t].got \in Resp
  <1>1. call[t] # None /\ call[t].got \in Resp \cup Failure  BY CallIs DEF Returned
  <1> QED BY <1>1 DEF Failed, Failure

LEMMA NextCallStep ==
  ASSUME AdminInv, NEW t \in Tasks, NextCall(t)
  PROVE  AdminInv'
  <1>1. /\ job[t] # None /\ job[t].kind \in Several /\ job[t].step = "engine"
        /\ call[t] = None /\ job[t].todo # <<>> /\ HandlerStep /\ FilesSame /\ job' = job
    BY DEF NextCall, Doing, Send, HandlerStep, FilesSame, engineVars, dbVars, jobVars, ghostVars
  <1>2. /\ job[t] \in Job /\ JobOK(t) /\ job[t].rid \in Rid /\ job[t].todo \in Seq(Traders \cup Symbols)
        /\ job \in [Tasks -> Job \cup {None}]
    BY <1>1, JobIs
  <1>3. OpOf(job[t].kind) = IF job[t].kind = "view" THEN "snapshot" ELSE "cancel_all"
    BY <1>1 DEF OpOf, Several
  <1>4. PICK q : q = Request(job[t].rid, OpOf(job[t].kind), Head(job[t].todo))  OBVIOUS
  <1>5. /\ 1 \in DOMAIN job[t].todo /\ Head(job[t].todo) = job[t].todo[1]
        /\ Head(job[t].todo) \in Traders \cup Symbols
        /\ \A i \in DOMAIN job[t].todo : i \in Nat
    <2>1. /\ DOMAIN job[t].todo = 1 .. Len(job[t].todo) /\ Len(job[t].todo) \in Nat
          /\ Len(job[t].todo) # 0 /\ Head(job[t].todo) = job[t].todo[1]
      BY <1>1, <1>2, EmptySeq
    <2> QED BY <1>2, <2>1
  <1>6. q \in Req /\ q.rid = job[t].rid /\ q.op = OpOf(job[t].kind) /\ q.arg = Head(job[t].todo)
    BY <1>2, <1>3, <1>4, <1>5 DEF Req, Request, Op, Arg
  <1>7. PICK i \in Rid : i = wireId[job[t].rid]  BY <1>2 DEF AdminInv, IdsOK
  <1>8. IdsMove /\ Send(t, q, i) /\ wireId'[q.rid] = i
    BY <1>1, <1>3, <1>4, <1>6, <1>7 DEF NextCall, FilesSame, IdsMove
  <1>9. /\ OthersKeep(t) /\ PendingOK' /\ pending' \in [Rid -> Tasks \cup {None}]
        /\ \E c \in Call : /\ call'[t] = c /\ c # None
                           /\ c.req = q /\ c.step = "write" /\ c.got = None
    BY <1>1, <1>6, <1>8, SendCall
  <1>10. PICK c \in Call : call'[t] = c /\ c # None /\ c.req = q /\ c.step = "write" /\ c.got = None
    BY <1>9
  <1>11. job'[t] = job[t] /\ job' = [job EXCEPT ![t] = job[t]]  BY <1>1, <1>2
  <1>12. TaskOK(t)  BY TaskFacts
  <1>13. ~Sent(ran, conn, q)  BY <1>1, <1>4, <1>5, <1>12 DEF TaskOK
  <1>14. TaskOK(t)'
    <2>1. /\ OnItsWay' = OnItsWay /\ Gone' = Gone
          /\ \A g \in Conn : Asked(g)' = Asked(g) /\ Told(g)' = Told(g)
      BY <1>1, <1>8, SameFlight
    <2>2. JobOK(t)'
      BY <1>1, <1>2, <1>6, <1>10, <1>11 DEF JobOK, FilesSame, Several
    <2>3. ASSUME ~Reused(job[t].rid), NEW m \in OnItsWay, m.rid = job[t].rid PROVE Awaited(t, m)'
      <3>1. Awaited(t, m)  BY <1>1, <1>12, <2>3 DEF TaskOK
      <3> QED BY <1>1, <1>11, <3>1 DEF Awaited
    <2>4. c.got \notin Resp  BY <1>10, NoneAssumption
    <2>5. \A k \in DOMAIN job[t].todo : k > 1 =>
            ~Sent(ran, conn, Request(job[t].rid, OpOf(job[t].kind), job[t].todo[k]))
      BY <1>1, <1>12 DEF TaskOK
    <2>6. Reused(job[t].rid)' <=> Reused(job[t].rid)  BY <1>1 DEF Reused, FilesSame
    <2>7. /\ call'[t] # None /\ call'[t].step = "write" => ~Sent(ran', conn', call'[t].req)
          /\ \A k \in DOMAIN job[t].todo : k > 1 \/ call'[t] = None =>
               ~Sent(ran', conn', Request(job[t].rid, OpOf(job[t].kind), job[t].todo[k]))
      BY <1>1, <1>10, <1>13, <2>5 DEF HandlerStep
    <2> QED BY <1>1, <1>10, <1>11, <1>12, <2>1, <2>2, <2>3, <2>4, <2>6, <2>7
            DEF TaskOK, HandlerStep
  <1>15. job[t].kind # "halt"  BY <1>1 DEF Several
  <1> QED BY <1>1, <1>2, <1>9, <1>11, <1>14, <1>15, MoveQuiet

LEMMA CallReturnsStep ==
  ASSUME AdminInv, NEW t \in Tasks, CallReturns(t)
  PROVE  AdminInv'
  <1>1. /\ job[t] # None /\ job[t].kind \in Several /\ job[t].step = "engine" /\ Returned(t)
        /\ call[t] # None /\ call[t].got # None /\ HandlerStep /\ FilesSame
        /\ call' = [call EXCEPT ![t] = None] /\ pending' = pending
    BY DEF CallReturns, Doing, NoCall, Returned, HandlerStep, FilesSame, engineVars, dbVars, ghostVars
  <1>2. /\ job[t] \in Job /\ JobOK(t) /\ job[t].rid \in Rid /\ job[t].todo \in Seq(Traders \cup Symbols)
        /\ job \in [Tasks -> Job \cup {None}] /\ job[t].ids \subseteq Gone
    BY <1>1, JobIs
  <1>3. CASE job[t].kind # "view" /\ Failed(t)
    <2>1. job' = [job EXCEPT ![t] = None]  BY <1>3 DEF CallReturns, Answer
    <2> QED BY <1>1, <2>1, EndQuiet
  <1>4. CASE job[t].kind = "view" \/ ~Failed(t)
    <2>1. PICK ids : /\ ids \subseteq Gone /\ ids \subseteq Rid
                     /\ job' = [job EXCEPT ![t] = [job[t] EXCEPT !.todo = Tail(@), !.ids = ids]]
      <3>1. CASE job[t].kind = "view"
        <4>1. job' = [job EXCEPT ![t].todo = Tail(@)]  BY <3>1 DEF CallReturns
        <4>2. job[t].ids \subseteq Gone /\ job[t].ids \subseteq Rid  BY <1>2 DEF Job
        <4>3. [job[t] EXCEPT !.todo = Tail(@)] = [job[t] EXCEPT !.todo = Tail(@), !.ids = job[t].ids]
          BY <1>2 DEF Job
        <4>4. job' = [job EXCEPT ![t] = [job[t] EXCEPT !.todo = Tail(@)]]  BY <1>2, <4>1
        <4>5. job' = [job EXCEPT ![t] = [job[t] EXCEPT !.todo = Tail(@), !.ids = job[t].ids]]  BY <4>3, <4>4
        <4> QED BY <4>2, <4>5, Zenon
      <3>2. CASE job[t].kind # "view"
        <4>1. job' = [job EXCEPT ![t].todo = Tail(@), ![t].ids = @ \cup call[t].got.ids]
          BY <1>4, <3>2 DEF CallReturns
        <4>2. call[t].got \in Resp  BY <1>1, <1>4, <3>2, Succeeded
        <4>3. call[t].got.ids \subseteq Gone /\ call[t].got.ids \subseteq Rid
          BY <1>1, <4>2 DEF AdminInv, OrdersOK, Resp
        <4>4. job[t].ids \subseteq Gone /\ job[t].ids \subseteq Rid  BY <1>2 DEF Job
        <4>5. PICK ids : ids = job[t].ids \cup call[t].got.ids  OBVIOUS
        <4>6. ids \subseteq Gone /\ ids \subseteq Rid  BY <4>3, <4>4, <4>5
        <4>7. job' = [job EXCEPT ![t] = [job[t] EXCEPT !.todo = Tail(@), !.ids = ids]]  BY <1>2, <4>1, <4>5
        <4> QED BY <4>6, <4>7, Zenon
      <3> QED BY <3>1, <3>2, Zenon
    <2>2. job[t].todo # <<>> /\ call[t].req.arg = Head(job[t].todo) /\ call[t].req.op = OpOf(job[t].kind)
      BY <1>1, <1>2 DEF JobOK
    <2>3. /\ Tail(job[t].todo) \in Seq(Traders \cup Symbols)
          /\ Elems(job[t].todo) \subseteq Elems(Tail(job[t].todo)) \cup {Head(job[t].todo)}
          /\ \A i \in DOMAIN Tail(job[t].todo) :
               i + 1 \in DOMAIN job[t].todo /\ Tail(job[t].todo)[i] = job[t].todo[i + 1] /\ i \in Nat /\ i > 0
      BY <1>2, <2>2, ElemsTail
    <2>4. PICK j \in Job : /\ j.rid = job[t].rid /\ j.kind = job[t].kind /\ j.seen = job[t].seen /\ j.ids = ids
                           /\ j.todo = Tail(job[t].todo) /\ j.step = "engine" /\ job' = [job EXCEPT ![t] = j]
      <3> DEFINE k == [job[t] EXCEPT !.todo = Tail(@), !.ids = ids]
      <3>1. /\ k \in Job /\ k.rid = job[t].rid /\ k.kind = job[t].kind /\ k.seen = job[t].seen /\ k.ids = ids
            /\ k.todo = Tail(job[t].todo) /\ k.step = "engine"
        BY <1>1, <1>2, <2>1, <2>3 DEF Job
      <3> QED BY <2>1, <3>1
    <2>5. TaskOK(t)  BY TaskFacts
    <2>6. ASSUME NEW a \in DOMAIN j.todo, NEW b \in DOMAIN j.todo, j.todo[a] = j.todo[b] PROVE a = b
      <3>1. a + 1 \in DOMAIN job[t].todo /\ b + 1 \in DOMAIN job[t].todo
            /\ job[t].todo[a + 1] = job[t].todo[b + 1] /\ a \in Nat /\ b \in Nat
        BY <2>3, <2>4, <2>6
      <3>2. a + 1 = b + 1  BY <1>2, <3>1 DEF JobOK
      <3> QED BY <3>1, <3>2
    <2>7. ASSUME NEW i \in DOMAIN j.todo PROVE ~Sent(ran, conn, Request(j.rid, OpOf(j.kind), j.todo[i]))
      <3>1. i + 1 \in DOMAIN job[t].todo /\ i + 1 > 1 /\ j.todo[i] = job[t].todo[i + 1]  BY <2>3, <2>4
      <3> QED BY <1>1, <2>4, <2>5, <3>1 DEF TaskOK
    <2>8. ~Reused(j.rid) /\ j.kind # "view" => \A m \in OnItsWay : m.rid # j.rid
      <3>1. j.kind # "view" => call[t].got \in Resp  BY <1>1, <1>4, <2>4, Succeeded
      <3> QED BY <1>1, <2>4, <3>1, NothingComes
    <2>9. IdsMove /\ UNCHANGED <<nextRid, wireId>>  BY <1>1 DEF FilesSame, IdsMove
    <2>10. RowsKeep  BY <1>1, <2>9, RowsSame DEF FilesSame
    <2>11. ASSUME ~Reused(j.rid), j.kind = "cancel_all", NEW r \in j.seen \cap live
           PROVE  owner[r] \in Elems(j.todo)
      <3>1. call[t].got \in Resp  BY <1>1, <1>4, <2>4, <2>11, Succeeded
      <3>2. call[t].req.op = "cancel_all"  BY <2>2, <2>4, <2>11 DEF OpOf, Several
      <3>3. OwnAnswer(t)  BY <1>1, <2>4, <2>5, <2>11, <3>1 DEF TaskOK
      <3>4. call[t].got.arg = Head(job[t].todo)  BY <2>2, <3>2, <3>3 DEF OwnAnswer
      <3>5. Reached(job[t].seen, live, owner, Head(job[t].todo))
        BY <1>1, <2>4, <2>5, <2>11, <3>1, <3>4 DEF TaskOK
      <3>6. owner[r] # Head(job[t].todo)  BY <2>4, <2>11, <3>5 DEF Reached
      <3>7. owner[r] \in Elems(job[t].todo)  BY <1>1, <2>4, <2>5, <2>11 DEF TaskOK
      <3> QED BY <2>3, <2>4, <3>6, <3>7
    <2>12. j.kind \in Several /\ j.kind \notin {"place", "halt"}  BY <1>1, <2>4 DEF Several
    <2>13. /\ OthersKeep(t) /\ PendingOK' /\ pending' \in [Rid -> Tasks \cup {None}] /\ call'[t] = None
      BY <1>1, <2>9, QuietCall
    <2>14. TaskOK(t)'
      BY <1>1, <2>1, <2>4, <2>6, <2>7, <2>8, <2>9, <2>10, <2>11, <2>12, <2>13, BetweenCalls
    <2> QED BY <1>1, <2>4, <2>12, <2>13, <2>14, MoveQuiet
  <1> QED BY <1>3, <1>4

(* A job past its calls takes its next step. *)
LEMMA PastCalls ==
  ASSUME AdminInv, HandlerStep, UNCHANGED <<nextRid, wireId>>, RowsKeep, NEW t \in Tasks, job[t] # None,
         call[t] = None \/ call[t].got \in Resp, job[t].todo = <<>>, call'[t] = None,
         job[t].kind \in {"halt", "resume", "cancel_all", "freeze"},
         NEW step \in {"db", "audit"}, job' = [job EXCEPT ![t].step = step]
  PROVE  \E j \in Job : /\ job' = [job EXCEPT ![t] = j] /\ TaskOK(t)'
                        /\ j.rid = job[t].rid /\ j.kind = job[t].kind /\ j.step = step
  <1>1. /\ job[t] \in Job /\ JobOK(t) /\ job \in [Tasks -> Job \cup {None}] /\ job[t].ids \subseteq Gone
    BY JobIs
  <1>2. PICK j \in Job : /\ j.rid = job[t].rid /\ j.kind = job[t].kind /\ j.seen = job[t].seen
                         /\ j.ids = job[t].ids /\ j.todo = <<>> /\ j.step = step
                         /\ job' = [job EXCEPT ![t] = j]
    <2> DEFINE k == [job[t] EXCEPT !.step = step]
    <2>1. /\ k \in Job /\ k.rid = job[t].rid /\ k.kind = job[t].kind /\ k.seen = job[t].seen
          /\ k.ids = job[t].ids /\ k.todo = <<>> /\ k.step = step
      BY <1>1 DEF Job
    <2>2. job' = [job EXCEPT ![t] = k]  BY <1>1
    <2> QED BY <2>1, <2>2
  <1>3. ~Reused(j.rid) => \A m \in OnItsWay : m.rid # j.rid  BY <1>2, NothingComes
  <1>4. DOMAIN j.todo = {}  BY <1>2
  <1>5. ASSUME ~Reused(j.rid), j.kind = "cancel_all", NEW r \in j.seen \cap live PROVE FALSE
    <2>1. TaskOK(t)  BY TaskFacts
    <2>2. Elems(job[t].todo) = {}  BY EmptyDistinct
    <2> QED BY <1>2, <1>5, <2>1, <2>2 DEF TaskOK
  <1>6. j.kind \notin {"view", "user_cancel", "place"}  BY <1>2
  <1>7. TaskOK(t)'  BY <1>1, <1>2, <1>3, <1>4, <1>5, <1>6, BetweenCalls
  <1> QED BY <1>2, <1>7

LEMMA CallsDoneStep ==
  ASSUME AdminInv, NEW t \in Tasks, CallsDone(t)
  PROVE  AdminInv'
  <1>1. /\ job[t] # None /\ job[t].kind \in Several /\ call[t] = None /\ job[t].todo = <<>>
        /\ HandlerStep /\ FilesSame /\ call' = call /\ pending' = pending
    BY DEF CallsDone, Doing, HandlerStep, FilesSame, linkVars, engineVars, dbVars, ghostVars
  <1>2. call' = [call EXCEPT ![t] = None]  BY <1>1, JobIs
  <1>3. CASE job[t].kind \in {"view", "user_cancel"}
    <2>1. job' = [job EXCEPT ![t] = None]  BY <1>3 DEF CallsDone, Answer
    <2> QED BY <1>1, <1>2, <2>1, EndQuiet
  <1>4. CASE job[t].kind \notin {"view", "user_cancel"}
    <2>1. job' = [job EXCEPT ![t].step = "db"]  BY <1>4 DEF CallsDone
    <2>2. IdsMove /\ UNCHANGED <<nextRid, wireId>>  BY <1>1 DEF FilesSame, IdsMove
    <2>3. RowsKeep  BY <1>1, <2>2, RowsSame DEF FilesSame
    <2>4. job[t].kind \in {"cancel_all", "freeze"}  BY <1>1, <1>4 DEF Several
    <2>5. /\ OthersKeep(t) /\ PendingOK' /\ pending' \in [Rid -> Tasks \cup {None}] /\ call'[t] = None
      BY <1>1, <1>2, <2>2, QuietCall
    <2>6. PICK j \in Job : /\ job' = [job EXCEPT ![t] = j] /\ TaskOK(t)'
                           /\ j.rid = job[t].rid /\ j.kind = job[t].kind /\ j.step = "db"
      BY <1>1, <2>1, <2>2, <2>3, <2>4, <2>5, PastCalls
    <2>7. j.kind # "halt"  BY <2>4, <2>6
    <2> QED BY <1>1, <2>5, <2>6, <2>7, MoveQuiet
  <1> QED BY <1>3, <1>4

(* A halt goes on to the database when the engine has executed it. *)
LEMMA ControlReturnsStep ==
  ASSUME AdminInv, NEW t \in Tasks, ControlReturns(t)
  PROVE  AdminInv'
  <1>1. /\ job[t] # None /\ job[t].kind \in {"halt", "resume"} /\ Returned(t) /\ call[t].got # None
        /\ HandlerStep /\ FilesSame /\ call' = [call EXCEPT ![t] = None] /\ pending' = pending
    BY DEF ControlReturns, Doing, NoCall, Returned, HandlerStep, FilesSame, engineVars, dbVars, ghostVars
  <1>2. CASE Failed(t)
    <2>1. job' = [job EXCEPT ![t] = None]  BY <1>2 DEF ControlReturns, Answer
    <2> QED BY <1>1, <2>1, EndQuiet
  <1>3. CASE ~Failed(t)
    <2>1. job' = [job EXCEPT ![t].step = "db"]  BY <1>3 DEF ControlReturns
    <2>2. IdsMove /\ UNCHANGED <<nextRid, wireId>>  BY <1>1 DEF FilesSame, IdsMove
    <2>3. RowsKeep  BY <1>1, <2>2, RowsSame DEF FilesSame
    <2>4. job[t].todo = <<>> /\ JobOK(t) /\ job[t].rid \in Rid
      <3>1. JobOK(t) /\ job[t].kind \notin Several /\ job[t].rid \in Rid  BY <1>1, JobIs DEF Several
      <3> QED BY <3>1 DEF JobOK
    <2>5. call[t].got \in Resp /\ call[t] # None  BY <1>1, <1>3, Succeeded
    <2>6. /\ OthersKeep(t) /\ PendingOK' /\ pending' \in [Rid -> Tasks \cup {None}] /\ call'[t] = None
      BY <1>1, <2>2, QuietCall
    <2>7. PICK j \in Job : /\ job' = [job EXCEPT ![t] = j] /\ TaskOK(t)'
                           /\ j.rid = job[t].rid /\ j.kind = job[t].kind /\ j.step = "db"
      BY <1>1, <2>1, <2>2, <2>3, <2>4, <2>5, <2>6, PastCalls
    <2>8. ASSUME j.kind = "halt", ~Reused(j.rid) PROVE j.rid \in Halts
      <3>1. OwnAnswer(t)  BY <1>1, <2>5, <2>7, <2>8 DEF AdminInv, AwaitedOK
      <3>2. call[t].req.op = "halt" /\ call[t].req.rid = j.rid
        BY <2>4, <2>5, <2>7, <2>8 DEF JobOK, OpOf, Several
      <3>3. call[t].got.op = "halt" /\ call[t].got.rid = j.rid /\ Key(call[t].got) \in Elems(ran[j.rid])
        BY <3>1, <3>2 DEF OwnAnswer
      <3>4. Key(call[t].got).op = "halt"  BY <3>3 DEF Key, Request
      <3> QED BY <2>4, <2>7, <3>3, <3>4, HaltsAre
    <2> QED BY <1>1, <2>6, <2>7, <2>8, MoveQuiet
  <1> QED BY <1>2, <1>3

LEMMA DbFailsStep ==
  ASSUME AdminInv, NEW t \in Tasks, DbFails(t)
  PROVE  AdminInv'
  <1>1. /\ job[t] # None /\ job[t].step # "engine"
        /\ HandlerStep /\ FilesSame /\ call' = call /\ pending' = pending /\ job' = [job EXCEPT ![t] = None]
    BY DEF DbFails, Doing, Answer, HandlerStep, FilesSame, linkVars, engineVars, dbVars, ghostVars
  <1>2. call[t] = None /\ call \in [Tasks -> Call \cup {None}]  BY <1>1, JobIs DEF JobOK
  <1>3. call' = [call EXCEPT ![t] = None]  BY <1>1, <1>2
  <1> QED BY <1>1, <1>2, <1>3, EndQuiet

(* Only orders the engine has canceled are marked. *)
LEMMA MarkOrdersCanceledStep ==
  ASSUME AdminInv, NEW t \in Tasks, MarkOrdersCanceled(t)
  PROVE  AdminInv'
  <1>1. /\ job[t] # None /\ job[t].kind \in {"cancel_all", "freeze"} /\ job[t].step = "db"
        /\ HandlerStep /\ UNCHANGED <<status, missed, acked, lifted, defied, nextRid, wireId>>
        /\ call' = call /\ pending' = pending /\ job' = [job EXCEPT ![t].step = "audit"]
    BY DEF MarkOrdersCanceled, Doing, HandlerStep, linkVars, engineVars, ghostVars
  <1>2. /\ JobOK(t) /\ call \in [Tasks -> Call \cup {None}] /\ job[t].ids \subseteq Gone
    BY <1>1, JobIs
  <1>3. call[t] = None /\ job[t].todo = <<>>  BY <1>1, <1>2 DEF JobOK
  <1>4. call' = [call EXCEPT ![t] = None] /\ IdsMove  BY <1>1, <1>2, <1>3 DEF IdsMove
  <1>5. /\ Shapes /\ row \in [Rid -> Row \cup {None}]
        /\ \A r \in Rid : row[r] # None /\ row[r].status = "canceled" => r \in Gone
        /\ \A r \in accepted : row[r] # None => row[r].user = owner[r]
        /\ \A r \in Rid : r >= nextRid => row[r] = None
    BY DEF AdminInv, Shapes, OrdersOK, JobsOK
  <1>6. ASSUME NEW r \in Rid
        PROVE  \/ row'[r] = row[r]
               \/ /\ r \in Gone /\ row[r] # None /\ row'[r] # None /\ row'[r] \in Row
                  /\ row'[r].user = row[r].user /\ row'[r].status = "canceled"
    <2>1. row'[r] = IF r \in job[t].ids /\ row[r] # None /\ row[r].status \in OpenStatus
                    THEN [row[r] EXCEPT !.status = "canceled"] ELSE row[r]
      BY DEF MarkOrdersCanceled
    <2>2. ASSUME r \in job[t].ids, row[r] # None, row[r].status \in OpenStatus
          PROVE  /\ r \in Gone /\ row'[r] # None /\ row'[r] \in Row
                 /\ row'[r].user = row[r].user /\ row'[r].status = "canceled"
      <3>1. r \in Gone /\ row[r] \in Row  BY <1>2, <1>5, <2>2
      <3>2. row'[r] \in Row /\ row'[r].user = row[r].user /\ row'[r].status = "canceled"
        BY <2>1, <2>2, <3>1 DEF Row
      <3> QED BY <3>1, <3>2, NoneAssumption
    <2> QED BY <2>1, <2>2
  <1>7. RowsKeep
    <2>1. row' \in [Rid -> Row \cup {None}]
      <3>1. row' = [r \in Rid |-> row'[r]]  BY DEF MarkOrdersCanceled
      <3>2. \A r \in Rid : row'[r] \in Row \cup {None}  BY <1>5, <1>6
      <3> QED BY <3>1, <3>2
    <2>2. accepted \subseteq Rid  BY <1>5 DEF Shapes
    <2> QED BY <1>5, <1>6, <2>1, <2>2 DEF RowsKeep
  <1>8. /\ OthersKeep(t) /\ PendingOK' /\ pending' \in [Rid -> Tasks \cup {None}] /\ call'[t] = None
    BY <1>1, <1>3, <1>4, QuietCall
  <1>9. PICK j \in Job : /\ job' = [job EXCEPT ![t] = j] /\ TaskOK(t)'
                         /\ j.rid = job[t].rid /\ j.kind = job[t].kind /\ j.step = "audit"
    BY <1>1, <1>3, <1>7, <1>8, PastCalls
  <1>10. j.kind # "halt" /\ UNCHANGED <<ran, halted, eased>>  BY <1>1, <1>9 DEF HandlerStep
  <1>11. HaltOK'  BY <1>1, <1>4, <1>9, <1>10, HaltKeep
  <1>12. \A r \in Rid : r >= nextRid' => row'[r] = None  BY <1>1, <1>5, <1>6
  <1>13. /\ status' \in {"trading", "halted"}
         /\ \A m \in missed' : m[1] \in Rid /\ m[1] < nextRid' /\ Reused(m[1])'
    BY <1>1, <1>4, <1>5, MissedKeep DEF Shapes
  <1> QED BY <1>1, <1>4, <1>7, <1>8, <1>9, <1>11, <1>12, <1>13, JobCompose

(* The row of the market.  A resume writes over the halts that have        *)
(* written it: those acknowledged and those about to be.                   *)
LEMMA UpdateMarketStatusStep ==
  ASSUME AdminInv, NEW t \in Tasks, UpdateMarketStatus(t)
  PROVE  AdminInv'
  <1>1. /\ job[t] # None /\ job[t].kind \in {"halt", "resume"} /\ job[t].step = "db"
        /\ HandlerStep /\ UNCHANGED <<row, missed, acked, defied, nextRid, wireId>>
        /\ call' = call /\ pending' = pending /\ job' = [job EXCEPT ![t].step = "audit"]
        /\ status' = IF job[t].kind = "halt" THEN "halted" ELSE "trading"
        /\ lifted' = IF job[t].kind = "halt" THEN lifted
                     ELSE lifted \cup acked \cup
                          {job[u].rid : u \in {v \in Running("halt") : job[v].step = "audit"}}
    BY DEF UpdateMarketStatus, Doing, HandlerStep, linkVars, engineVars, NewStatus
  <1>2. /\ JobOK(t) /\ call \in [Tasks -> Call \cup {None}] /\ job \in [Tasks -> Job \cup {None}]
    BY <1>1, JobIs
  <1>3. call[t] = None /\ job[t].todo = <<>>  BY <1>1, <1>2 DEF JobOK
  <1>4. call' = [call EXCEPT ![t] = None] /\ IdsMove  BY <1>1, <1>2, <1>3 DEF IdsMove
  <1>5. RowsKeep /\ \A r \in Rid : r >= nextRid' => row'[r] = None  BY <1>1, <1>4, RowsSame
  <1>6. /\ OthersKeep(t) /\ PendingOK' /\ pending' \in [Rid -> Tasks \cup {None}] /\ call'[t] = None
    BY <1>1, <1>3, <1>4, QuietCall
  <1>7. PICK j \in Job : /\ job' = [job EXCEPT ![t] = j] /\ TaskOK(t)'
                         /\ j.rid = job[t].rid /\ j.kind = job[t].kind /\ j.step = "audit"
    BY <1>1, <1>3, <1>5, <1>6, PastCalls
  <1>8. HaltOK'
    <2>1. HaltOK  BY DEF AdminInv
    <2>2. job'[t] = j /\ j # None /\ \A u \in Tasks \ {t} : job'[u] = job[u]
      BY <1>2, <1>7, NoneAssumption
    <2>3. /\ Halts' = Halts /\ (\A r : Reused(r)' <=> Reused(r)) /\ UNCHANGED <<halted, eased>>
      BY <1>1 DEF HandlerStep, Halts, Reused
    <2>4. ASSUME NEW u \in Running("halt")', NEW r, r = job'[u].rid
          PROVE  /\ u \in Running("halt") /\ r = job[u].rid
                 /\ job'[u].step # "engine" => job[u].step # "engine"
                 /\ job'[u].step = "audit" => job[u].step = "audit" \/ status' = "halted"
      BY <1>1, <1>7, <2>2, <2>4 DEF Running
    <2>5. acked \subseteq lifted' \/ status' = "halted"  BY <1>1, <2>1 DEF HaltOK
    <2>6. ASSUME NEW u \in Running("halt")', NEW r, r = job'[u].rid
          PROVE  /\ job'[u].step # "engine" /\ ~Reused(r) => r \in Halts
                 /\ job'[u].step = "audit" => r \in lifted' \/ status' = "halted"
      <3>1. /\ u \in Running("halt") /\ r = job[u].rid
            /\ job'[u].step # "engine" => job[u].step # "engine"
            /\ job'[u].step = "audit" => job[u].step = "audit" \/ status' = "halted"
        BY <2>4, <2>6
      <3>2. job[u].step = "audit" => r \in lifted' \/ status' = "halted"
        <4>1. CASE job[t].kind = "halt"  BY <1>1, <4>1
        <4>2. CASE job[t].kind # "halt"
          <5>1. lifted' = lifted \cup acked \cup
                          {job[v].rid : v \in {w \in Running("halt") : job[w].step = "audit"}}
            BY <1>1, <4>2
          <5> QED BY <3>1, <5>1
        <4> QED BY <4>1, <4>2
      <3> QED BY <2>1, <3>1, <3>2 DEF HaltOK
    <2>7. \A h \in acked' : h \in Rid /\ h < nextRid' /\ (~Reused(h)' => h \in Halts')
      BY <1>1, <2>1, <2>3 DEF HaltOK
    <2>8. \A u \in Running("halt")' :
            /\ job'[u].step # "engine" /\ ~Reused(job[u].rid)' => job'[u].rid \in Halts'
            /\ job'[u].step = "audit" => job'[u].rid \in lifted' \/ status' = "halted"
      BY <2>3, <2>6
    <2> QED BY <1>1, <2>1, <2>3, <2>5, <2>7, <2>8 DEF HaltOK
  <1>9. /\ status' \in {"trading", "halted"}
        /\ \A m \in missed' : m[1] \in Rid /\ m[1] < nextRid' /\ Reused(m[1])'
    BY <1>1, <1>4, MissedKeep
  <1> QED BY <1>1, <1>4, <1>5, <1>6, <1>7, <1>8, <1>9, JobCompose

LEMMA AuditStep ==
  ASSUME AdminInv, NEW t \in Tasks, Audit(t)
  PROVE  AdminInv'
  <1>1. /\ job[t] # None /\ job[t].step = "audit"
        /\ HandlerStep /\ UNCHANGED <<row, status, lifted, defied, nextRid, wireId>>
        /\ call' = call /\ pending' = pending /\ job' = [job EXCEPT ![t] = None]
        /\ acked' = IF job[t].kind = "halt" THEN acked \cup {job[t].rid} ELSE acked
        /\ missed' = IF job[t].kind = "cancel_all"
                     THEN missed \cup ({job[t].rid} \X (job[t].seen \cap live)) ELSE missed
    BY DEF Audit, Doing, Answer, HandlerStep, linkVars, engineVars
  <1>2. /\ JobOK(t) /\ call \in [Tasks -> Call \cup {None}] /\ job \in [Tasks -> Job \cup {None}]
        /\ job[t].rid \in Rid /\ job[t].rid < nextRid
    BY <1>1, JobIs
  <1>3. call[t] = None /\ job[t].todo = <<>>  BY <1>1, <1>2 DEF JobOK
  <1>4. call' = [call EXCEPT ![t] = None] /\ IdsMove  BY <1>1, <1>2, <1>3 DEF IdsMove
  <1>5. RowsKeep /\ \A r \in Rid : r >= nextRid => row'[r] = None  BY <1>1, <1>4, RowsSame
  <1>6. /\ Halts' = Halts /\ (\A r : Reused(r)' <=> Reused(r)) /\ UNCHANGED <<halted, eased>>
    BY <1>1 DEF HandlerStep, Halts, Reused
  <1>7. HaltOK'
    <2>1. HaltOK  BY DEF AdminInv
    <2>2. job'[t] = None /\ \A u \in Tasks \ {t} : job'[u] = job[u]  BY <1>1, <1>2
    <2>3. \A u \in Running("halt")' : u \in Running("halt") /\ job'[u] = job[u]  BY <2>2 DEF Running
    <2>4. job[t].kind = "halt" => /\ ~Reused(job[t].rid) => job[t].rid \in Halts
                                  /\ job[t].rid \in lifted \/ status = "halted"
      BY <1>1, <2>1 DEF HaltOK, Running
    <2>5. \A h \in acked' : h \in Rid /\ h < nextRid /\ (~Reused(h) => h \in Halts)
      BY <1>1, <1>2, <2>1, <2>4 DEF HaltOK
    <2>6. acked' \subseteq lifted \/ status = "halted"  BY <1>1, <2>1, <2>4 DEF HaltOK
    <2>7. \A u \in Running("halt")' :
            /\ job'[u].step # "engine" /\ ~Reused(job[u].rid)' => job'[u].rid \in Halts'
            /\ job'[u].step = "audit" => job'[u].rid \in lifted' \/ status' = "halted"
      <3> SUFFICES ASSUME NEW u \in Running("halt")', NEW r, r = job'[u].rid
                   PROVE  /\ job'[u].step # "engine" /\ ~Reused(r)' => r \in Halts'
                          /\ job'[u].step = "audit" => r \in lifted' \/ status' = "halted"
        OBVIOUS
      <3>1. u \in Running("halt") /\ job'[u] = job[u] /\ r = job[u].rid  BY <2>3
      <3> QED BY <1>1, <1>6, <2>1, <3>1 DEF HaltOK
    <2> QED BY <1>1, <1>6, <2>1, <2>5, <2>6, <2>7 DEF HaltOK
  <1>8. \A m \in missed' : m[1] \in Rid /\ m[1] < nextRid /\ Reused(m[1])
    <2>1. \A m \in missed : m[1] \in Rid /\ m[1] < nextRid /\ Reused(m[1])  BY DEF AdminInv, ReachOK
    <2>2. CASE job[t].kind # "cancel_all"  BY <1>1, <2>1, <2>2
    <2>3. CASE job[t].kind = "cancel_all"
      <3>1. Elems(job[t].todo) = {} /\ TaskOK(t)  BY <1>3, EmptyDistinct, TaskFacts
      <3>2. ~Reused(job[t].rid) => job[t].seen \cap live = {}  BY <1>1, <2>3, <3>1 DEF TaskOK
      <3>3. ASSUME NEW m \in {job[t].rid} \X (job[t].seen \cap live)
            PROVE  m[1] \in Rid /\ m[1] < nextRid /\ Reused(m[1])
        <4>1. m[1] = job[t].rid /\ job[t].seen \cap live # {}  BY <3>3
        <4> QED BY <1>2, <3>2, <4>1
      <3>4. missed' = missed \cup ({job[t].rid} \X (job[t].seen \cap live))  BY <1>1, <2>3
      <3> QED BY <2>1, <3>3, <3>4
    <2> QED BY <2>2, <2>3
  <1>9. \A m \in missed' : m[1] \in Rid /\ m[1] < nextRid' /\ Reused(m[1])'  BY <1>1, <1>6, <1>8
  <1> QED BY <1>1, <1>3, <1>4, <1>5, <1>7, <1>9, EndTask

LEMMA PlaceReturnsStep ==
  ASSUME AdminInv, NEW t \in Tasks, PlaceReturns(t)
  PROVE  AdminInv'
  <1>1. /\ job[t] # None /\ job[t].kind = "place" /\ call[t].got # None
        /\ HandlerStep /\ UNCHANGED <<status, missed, acked, lifted, defied, nextRid, wireId>>
        /\ call' = [call EXCEPT ![t] = None] /\ pending' = pending /\ job' = [job EXCEPT ![t] = None]
    BY DEF PlaceReturns, Doing, Returned, Answer, NoCall, HandlerStep, engineVars, ghostVars
  <1>2. PICK r \in Rid : r = job[t].rid  BY <1>1, JobIs
  <1>3. row' = row \/ row' = [row EXCEPT ![r].status = "new"]  BY <1>2 DEF PlaceReturns
  <1>4. row[r] # None /\ row \in [Rid -> Row \cup {None}]
    BY <1>1, <1>2, JobIs DEF JobOK, AdminInv, Shapes
  <1>5. IdsMove /\ UNCHANGED <<ran, halted, eased>>  BY <1>1 DEF IdsMove, HandlerStep
  <1>6. HaltOK'  BY <1>1, <1>5, HaltKeep
  <1>7. RowsKeep /\ \A x \in Rid : x >= nextRid => row'[x] = None
    <2>1. CASE row' = row  BY <1>1, <1>5, <2>1, RowsSame
    <2>2. CASE row' = [row EXCEPT ![r].status = "new"]
      <3>1. row[r] \in Row  BY <1>4
      <3>2. row'[r] = [row[r] EXCEPT !.status = "new"] /\ \A x \in Rid \ {r} : row'[x] = row[x]
        BY <1>4, <2>2
      <3>3. row'[r] \in Row /\ row'[r].user = row[r].user /\ row'[r].status = "new"  BY <3>1, <3>2 DEF Row
      <3>4. row'[r] # None  BY <3>3, NoneAssumption
      <3>5. row' \in [Rid -> Row \cup {None}]  BY <1>4, <2>2, <3>3
      <3>6. /\ \A x \in Rid : row[x] # None /\ row[x].status = "canceled" => x \in Gone
            /\ \A x \in accepted : x \in Rid /\ (row[x] # None => row[x].user = owner[x])
            /\ \A x \in Rid : x >= nextRid => row[x] = None
        BY DEF AdminInv, OrdersOK, JobsOK, Shapes
      <3>7. RowsKeep  BY <1>4, <3>2, <3>3, <3>4, <3>5, <3>6 DEF RowsKeep
      <3> QED BY <1>4, <3>2, <3>6, <3>7
    <2> QED BY <1>3, <2>1, <2>2
  <1>8. \A m \in missed' : m[1] \in Rid /\ m[1] < nextRid' /\ Reused(m[1])'  BY <1>1, <1>5, MissedKeep
  <1> QED BY <1>1, <1>6, <1>7, <1>8, EndTask

-----------------------------------------------------------------------------
(* A new request: nothing of it is anywhere, whatever id it comes with.    *)

LEMMA BeginTask ==
  ASSUME AdminInv, HandlerStep, NEW t \in Tasks, job[t] = None,
         nextRid <= MaxRequests, nextRid' = nextRid + 1, IdsMove,
         NEW j \in Job, job' = [job EXCEPT ![t] = j], j.rid = nextRid, j.step = "engine", j.ids = {},
         NEW c \in Call \cup {None}, call'[t] = c,
         OthersKeep(t), PendingOK', pending' \in [Rid -> Tasks \cup {None}],
         c = None => j.kind \in Several,
         c # None => /\ c.req.rid = nextRid /\ c.req.op = OpOf(j.kind) /\ c.step = "write" /\ c.got = None
                     /\ j.kind \notin Several /\ j.todo = <<>>,
         j.kind = "place" => row'[nextRid] # None /\ c.req.arg = row'[nextRid].user,
         \A a, b \in DOMAIN j.todo : j.todo[a] = j.todo[b] => a = b,
         row' \in [Rid -> Row \cup {None}], \A r \in Rid \ {nextRid} : row'[r] = row[r],
         row'[nextRid] = None \/ row'[nextRid].status = "pending",
         j.kind = "cancel_all" => j.seen \subseteq live /\ \A r \in j.seen : owner[r] \in Elems(j.todo),
         UNCHANGED <<status, missed>>, HaltOK'
  PROVE  AdminInv'
  <1>1. /\ Shapes /\ job \in [Tasks -> Job \cup {None}] /\ nextRid \in Nat /\ nextRid' \in Nat
        /\ live \subseteq accepted /\ accepted \subseteq Rid
    BY LinkAssumption DEF AdminInv, Shapes
  <1>2. /\ nextRid \in Rid /\ row[nextRid] = None /\ nextRid \notin accepted
        /\ \A m \in OnItsWay : m.rid # nextRid
        /\ \A g \in Conn : \A a \in Told(g) : a.rid # nextRid
        /\ \A q : q.rid = nextRid => ~Sent(ran, conn, q)
    BY Fresh
  <1>3. job'[t] = j /\ j # None  BY <1>1, NoneAssumption
  <1>4. /\ OnItsWay' = OnItsWay /\ Gone' = Gone
        /\ \A g \in Conn : Asked(g)' = Asked(g) /\ Told(g)' = Told(g)
    BY SameFlight
  <1>5. RowsKeep
    <2>1. /\ \A r \in Rid : row[r] # None /\ row[r].status = "canceled" => r \in Gone
          /\ \A r \in accepted : row[r] # None => row[r].user = owner[r]
      BY DEF AdminInv, OrdersOK
    <2> QED BY <1>1, <1>2, <2>1 DEF RowsKeep
  <1>6. TaskOK(t)'
    <2>1. JobOK(t)'
      <3>1. nextRid < nextRid'  BY <1>1
      <3> QED BY <1>3, <3>1 DEF JobOK, Several
    <2>2. \A m \in OnItsWay' : m.rid # nextRid  BY <1>2, <1>4
    <2>3. \A q : q.rid = nextRid => ~Sent(ran', conn', q)  BY <1>2 DEF HandlerStep
    <2>4. \A i : Request(nextRid, OpOf(j.kind), j.todo[i]).rid = nextRid  BY DEF Request
    <2>5. c # None => c.got = None /\ c.got \notin Resp  BY NoneAssumption
    <2>6. j.kind = "cancel_all" =>
            j.seen \subseteq accepted /\ \A r \in j.seen \cap live : owner[r] \in Elems(j.todo)
      BY <1>1
    <2>7. \A g \in Conn : \A a \in Told(g)' : a.rid # nextRid  BY <1>2, <1>4
    <2> QED BY <1>3, <2>1, <2>2, <2>3, <2>4, <2>5, <2>6, <2>7 DEF TaskOK, HandlerStep
  <1>7. \A r \in Rid : r >= nextRid' => row'[r] = None
    <2>1. \A r \in Rid : r >= nextRid + 1 => r # nextRid /\ r >= nextRid  BY <1>1 DEF Rid
    <2> QED BY <2>1 DEF AdminInv, JobsOK
  <1>8. /\ status' \in {"trading", "halted"}
        /\ \A m \in missed' : m[1] \in Rid /\ m[1] < nextRid' /\ Reused(m[1])'
    BY <1>1, MissedKeep DEF Shapes
  <1> QED BY <1>5, <1>6, <1>7, <1>8, JobCompose

(* The job NewJob makes. *)
JobOf(kind, todo) ==
  [kind |-> kind, rid |-> nextRid, step |-> "engine", todo |-> todo, ids |-> {},
   seen |-> IF kind = "cancel_all" THEN {r \in live : row[r] # None} ELSE {}]

JobBegins(t, kind, todo) ==
  \E j \in Job : /\ job' = [job EXCEPT ![t] = j] /\ j.kind = kind /\ j.rid = nextRid
                 /\ j.step = "engine" /\ j.todo = todo /\ j.ids = {}
                 /\ kind = "cancel_all" => j.seen = {r \in live : row[r] # None}

LEMMA NewJobIs ==
  ASSUME AdminInv, NEW t \in Tasks, NEW kind \in Kind, NEW todo \in Seq(Traders \cup Symbols),
         Begin(t, kind), NEW i \in RequestIds, NewJob(t, kind, todo, i)
  PROVE  /\ job[t] = None /\ call[t] = None /\ nextRid <= MaxRequests /\ nextRid' = nextRid + 1
         /\ IdsMove /\ i \in Rid /\ nextRid \in Rid /\ row[nextRid] = None /\ wireId'[nextRid] = i
         /\ JobBegins(t, kind, todo)
  <1>1. job[t] = None /\ nextRid <= MaxRequests  BY DEF Begin
  <1>2. call[t] = None /\ live \subseteq Rid /\ nextRid \in Nat /\ IdsOK
    BY <1>1, LinkAssumption DEF AdminInv, Shapes, JobsOK
  <1>3. nextRid \in Rid /\ row[nextRid] = None /\ MaxRequests \in Nat  BY <1>1, Fresh, LinkAssumption
  <1>4. i \in 1 .. nextRid  BY <1>3 DEF RequestIds, Rid
  <1>5. /\ job' = [job EXCEPT ![t] = JobOf(kind, todo)] /\ nextRid' = nextRid + 1
        /\ wireId' = [wireId EXCEPT ![nextRid] = i]
    BY DEF NewJob, JobOf
  <1>6. IdsMove  BY <1>1, <1>4, <1>5 DEF IdsMove
  <1>7. i \in Rid  BY <1>1, <1>3, <1>4 DEF Rid
  <1>8. wireId'[nextRid] = i  BY <1>2, <1>3, <1>5 DEF IdsOK
  <1>9. PICK j : j = JobOf(kind, todo)  OBVIOUS
  <1>10. PICK seen \in SUBSET Rid :
           /\ seen = IF kind = "cancel_all" THEN {r \in live : row[r] # None} ELSE {}
    BY <1>2
  <1>11. j = [kind |-> kind, rid |-> nextRid, step |-> "engine", todo |-> todo, ids |-> {}, seen |-> seen]
    BY <1>9, <1>10 DEF JobOf
  <1>12. /\ j \in Job /\ j.kind = kind /\ j.rid = nextRid
         /\ j.step = "engine" /\ j.todo = todo /\ j.ids = {} /\ j.seen = seen
    BY <1>3, <1>11 DEF Job
  <1>13. kind = "cancel_all" => j.seen = {r \in live : row[r] # None}  BY <1>10, <1>12
  <1>14. job' = [job EXCEPT ![t] = j]  BY <1>5, <1>9
  <1>15. JobBegins(t, kind, todo)  BY <1>12, <1>13, <1>14 DEF JobBegins
  <1> QED BY <1>1, <1>2, <1>3, <1>5, <1>6, <1>7, <1>8, <1>15

(* Requests that start with a call. *)
LEMMA SendNew ==
  ASSUME AdminInv, NEW t \in Tasks, NEW kind \in {"halt", "resume", "place"},
         NEW x \in Traders \cup {None}, NEW i \in Rid, call[t] = None, IdsMove,
         nextRid \in Rid, wireId'[nextRid] = i, Send(t, Request(nextRid, kind, x), i)
  PROVE  /\ kind \notin Several /\ OthersKeep(t) /\ PendingOK' /\ pending' \in [Rid -> Tasks \cup {None}]
         /\ \E c \in Call : /\ call'[t] = c /\ c # None
                            /\ c.req.rid = nextRid /\ c.req.op = OpOf(kind) /\ c.req.arg = x
                            /\ c.step = "write" /\ c.got = None
  <1>1. PICK q : q = Request(nextRid, kind, x)  OBVIOUS
  <1>2. q \in Req /\ q.rid = nextRid /\ q.op = kind /\ q.arg = x  BY <1>1 DEF Req, Request, Op, Arg
  <1>3. OpOf(kind) = kind /\ kind \notin Several  BY DEF OpOf, Several
  <1>4. Send(t, q, i) /\ wireId'[q.rid] = i  BY <1>1, <1>2
  <1>5. /\ OthersKeep(t) /\ PendingOK' /\ pending' \in [Rid -> Tasks \cup {None}]
        /\ \E c \in Call : call'[t] = c /\ c # None /\ c.req = q /\ c.step = "write" /\ c.got = None
    BY <1>2, <1>4, SendCall
  <1> QED BY <1>2, <1>3, <1>5

(* Requests that start without a call of their own. *)
LEMMA BeginQuiet ==
  ASSUME AdminInv, NEW t \in Tasks, NEW kind \in Several, NEW todo \in Seq(Traders \cup Symbols),
         Begin(t, kind), NEW i \in RequestIds, NewJob(t, kind, todo, i),
         HandlerStep, call' = call, pending' = pending,
         UNCHANGED <<row, missed, status, acked, lifted, defied>>,
         \A a, b \in DOMAIN todo : todo[a] = todo[b] => a = b,
         kind = "cancel_all" => \A r \in live : row[r] # None => owner[r] \in Elems(todo)
  PROVE  AdminInv'
  <1>1. kind \in Kind /\ kind \notin {"halt", "place"}  BY DEF Kind, Several
  <1>2. /\ job[t] = None /\ call[t] = None /\ nextRid <= MaxRequests /\ nextRid' = nextRid + 1
        /\ IdsMove /\ nextRid \in Rid /\ row[nextRid] = None
        /\ JobBegins(t, kind, todo)
    BY <1>1, NewJobIs
  <1>3. PICK j \in Job : /\ job' = [job EXCEPT ![t] = j] /\ j.kind = kind /\ j.rid = nextRid
                         /\ j.step = "engine" /\ j.todo = todo /\ j.ids = {}
                         /\ kind = "cancel_all" => j.seen = {r \in live : row[r] # None}
    BY <1>2 DEF JobBegins
  <1>4. UNCHANGED <<ran, halted, eased>>  BY DEF HandlerStep
  <1>5. HaltOK'  BY <1>2, <1>3, <1>4, HaltKeep
  <1>6. row' \in [Rid -> Row \cup {None}] /\ row'[nextRid] = None /\ \A r \in Rid : row'[r] = row[r]
    BY <1>2 DEF AdminInv, Shapes
  <1>7. call' = [call EXCEPT ![t] = None]  BY <1>2 DEF AdminInv, Shapes
  <1>8. /\ OthersKeep(t) /\ PendingOK' /\ pending' \in [Rid -> Tasks \cup {None}] /\ call'[t] = None
    BY <1>2, <1>7, QuietCall
  <1>9. /\ j.kind \in Several /\ j.kind # "place"
        /\ \A a, b \in DOMAIN j.todo : j.todo[a] = j.todo[b] => a = b
        /\ j.kind = "cancel_all" => j.seen \subseteq live /\ \A r \in j.seen : owner[r] \in Elems(j.todo)
    BY <1>1, <1>3
  <1>10. PICK c \in Call \cup {None} : c = None  OBVIOUS
  <1> QED BY <1>2, <1>3, <1>5, <1>6, <1>8, <1>9, <1>10, BeginTask

LEMMA SeqOver ==
  ASSUME NEW S, NEW T, S \subseteq T, NEW q \in Seq(S)
  PROVE  q \in Seq(T)
  <1>1. q \in [1 .. Len(q) -> S] /\ Len(q) \in Nat  OBVIOUS
  <1>2. q \in [1 .. Len(q) -> T]  BY <1>1
  <1> QED BY <1>1, <1>2

(* Every order in the engine that has a row belongs to a user who is       *)
(* listed: its row is pending or new.                                      *)
LEMMA CancelAllInMarketStep ==
  ASSUME AdminInv, NEW t \in Tasks, CancelAllInMarket(t)
  PROVE  AdminInv'
  <1> DEFINE S == {u \in Traders : \E r \in Rid : row[r] # None /\ row[r].user = u
                                                  /\ row[r].status \in OpenStatus}
             todo == SetToSeq(S)
  <1>1. IsFiniteSet(S)  BY AdminAssumption, FS_Subset
  <1>2. /\ todo \in Seq(S) /\ Elems(todo) = S /\ \A a, b \in DOMAIN todo : todo[a] = todo[b] => a = b
    BY <1>1, SetToSeqLists
  <1>3. ASSUME NEW r \in live, row[r] # None PROVE owner[r] \in S
    <2>1. /\ r \in accepted /\ r \in Rid /\ row[r] \in Row /\ row[r].status # "canceled"
          /\ row[r].user = owner[r]
      BY <1>3 DEF AdminInv, Shapes, OrdersOK, Gone
    <2>2. row[r].status \in {"pending", "new"} /\ row[r].user \in Traders  BY <2>1 DEF Row
    <2> QED BY <1>3, <2>1, <2>2 DEF OpenStatus
  <1>4. PICK i \in RequestIds : NewJob(t, "cancel_all", todo, i)
    BY DEF CancelAllInMarket, UsersWithOpenOrders
  <1>5. /\ Begin(t, "cancel_all") /\ HandlerStep /\ call' = call /\ pending' = pending
        /\ UNCHANGED <<row, missed, status, acked, lifted, defied>> /\ "cancel_all" \in Several
    BY DEF CancelAllInMarket, HandlerStep, linkVars, engineVars, dbVars, ghostVars, Several
  <1>6. S \subseteq Traders \cup Symbols  OBVIOUS
  <1> HIDE DEF S
  <1>7. todo \in Seq(Traders \cup Symbols)  BY <1>2, <1>6, SeqOver
  <1> HIDE DEF todo
  <1> QED BY <1>2, <1>3, <1>4, <1>5, <1>7, BeginQuiet

LEMMA OneUserStep ==
  ASSUME AdminInv, NEW t \in Tasks, NEW u \in Traders, FreezeUser(t, u) \/ CancelAllOrders(t, u)
  PROVE  AdminInv'
  <1>1. <<u>> \in Seq(Traders \cup Symbols) /\ \A a, b \in DOMAIN <<u>> : <<u>>[a] = <<u>>[b] => a = b
    OBVIOUS
  <1>2. PICK kind \in {"freeze", "user_cancel"} :
          Begin(t, kind) /\ \E i \in RequestIds : NewJob(t, kind, <<u>>, i)
    BY DEF FreezeUser, CancelAllOrders
  <1>3. PICK i \in RequestIds : NewJob(t, kind, <<u>>, i)  BY <1>2
  <1>4. /\ HandlerStep /\ call' = call /\ pending' = pending
        /\ UNCHANGED <<row, missed, status, acked, lifted, defied>>
    BY DEF FreezeUser, CancelAllOrders, HandlerStep, linkVars, engineVars, dbVars, ghostVars
  <1>5. kind \in Several /\ kind # "cancel_all"  BY DEF Several
  <1>6. PICK todo : todo = <<u>>  OBVIOUS
  <1>7. /\ todo \in Seq(Traders \cup Symbols) /\ NewJob(t, kind, todo, i)
        /\ \A a, b \in DOMAIN todo : todo[a] = todo[b] => a = b
    BY <1>1, <1>3, <1>6
  <1> QED BY <1>2, <1>4, <1>5, <1>7, BeginQuiet

LEMMA EngineStateStep ==
  ASSUME AdminInv, NEW t \in Tasks, EngineState(t)
  PROVE  AdminInv'
  <1> DEFINE todo == SetToSeq(Symbols)
  <1>1. todo \in Seq(Symbols) /\ \A a, b \in DOMAIN todo : todo[a] = todo[b] => a = b
    BY AdminAssumption, SetToSeqLists
  <1>2. PICK i \in RequestIds : NewJob(t, "view", todo, i)  BY DEF EngineState
  <1>3. /\ Begin(t, "view") /\ HandlerStep /\ call' = call /\ pending' = pending
        /\ UNCHANGED <<row, missed, status, acked, lifted, defied>> /\ "view" \in Several
    BY DEF EngineState, HandlerStep, linkVars, engineVars, dbVars, ghostVars, Several
  <1>4. todo \in Seq(Traders \cup Symbols)  BY <1>1, SeqOver
  <1> HIDE DEF todo
  <1> QED BY <1>1, <1>2, <1>3, <1>4, BeginQuiet

(* An order that passes the first gate finds the market open: every halt   *)
(* that was acknowledged has been written over.                            *)
LEMMA PlaceOrderStep ==
  ASSUME AdminInv, NEW t \in Tasks, NEW u \in Traders, PlaceOrder(t, u)
  PROVE  AdminInv'
  <1>1. /\ Begin(t, "place") /\ status = "trading"
        /\ row' = [row EXCEPT ![nextRid] = [user |-> u, status |-> "pending"]]
        /\ defied' = IF acked \subseteq lifted THEN defied ELSE defied \cup {nextRid}
        /\ UNCHANGED <<status, acked, lifted, missed>>
    BY DEF PlaceOrder, MarketTrades
  <1>2. PICK i \in RequestIds : NewJob(t, "place", <<>>, i) /\ Send(t, Request(nextRid, "place", u), i)
    BY DEF PlaceOrder
  <1>3. HandlerStep  BY <1>2 DEF PlaceOrder, HandlerStep, Send, engineVars
  <1>4. PICK kind, none : kind \in Kind /\ none \in Seq(Traders \cup Symbols) /\ kind = "place" /\ none = <<>>
    <2>1. "place" \in Kind /\ <<>> \in Seq(Traders \cup Symbols)  BY DEF Kind
    <2> QED BY <2>1, Zenon
  <1>5. /\ job[t] = None /\ call[t] = None /\ nextRid <= MaxRequests /\ nextRid' = nextRid + 1
        /\ IdsMove /\ i \in Rid /\ nextRid \in Rid /\ row[nextRid] = None /\ wireId'[nextRid] = i
        /\ JobBegins(t, kind, none)
    <2>1. Begin(t, kind) /\ NewJob(t, kind, none, i)  BY <1>1, <1>2, <1>4
    <2> QED BY <1>2, <1>4, <2>1, NewJobIs
  <1>6. PICK j \in Job : /\ job' = [job EXCEPT ![t] = j] /\ j.kind = "place" /\ j.rid = nextRid
                         /\ j.step = "engine" /\ j.todo = <<>> /\ j.ids = {}
    BY <1>4, <1>5 DEF JobBegins
  <1>7. defied' = defied  BY <1>1 DEF AdminInv, HaltOK
  <1>8. UNCHANGED <<ran, halted, eased>> /\ j.kind # "halt"  BY <1>3, <1>6 DEF HandlerStep
  <1>9. HaltOK'  BY <1>1, <1>5, <1>6, <1>7, <1>8, HaltKeep
  <1> DEFINE x == [user |-> u, status |-> "pending"]
  <1>10. x \in Row /\ x.user = u /\ x.status = "pending"  BY DEF Row
  <1>11. row \in [Rid -> Row \cup {None}]  BY DEF AdminInv, Shapes
  <1>12. row' = [row EXCEPT ![nextRid] = x]  BY <1>1
  <1> HIDE DEF x
  <1>13. /\ row' \in [Rid -> Row \cup {None}] /\ row'[nextRid] = x /\ x # None
         /\ \A r \in Rid \ {nextRid} : row'[r] = row[r]
    BY <1>5, <1>10, <1>11, <1>12, NoneAssumption
  <1>14. /\ OthersKeep(t) /\ PendingOK' /\ pending' \in [Rid -> Tasks \cup {None}]
         /\ \E c \in Call : /\ call'[t] = c /\ c # None
                            /\ c.req.rid = nextRid /\ c.req.op = OpOf("place") /\ c.req.arg = u
                            /\ c.step = "write" /\ c.got = None
    BY <1>2, <1>5, SendNew
  <1>15. PICK c \in Call : /\ call'[t] = c /\ c # None
                           /\ c.req.rid = nextRid /\ c.req.op = OpOf("place") /\ c.req.arg = u
                           /\ c.step = "write" /\ c.got = None
    BY <1>14
  <1>16. row'[nextRid].status = "pending" /\ row'[nextRid].user = u /\ row'[nextRid] # None  BY <1>10, <1>13
  <1>17. /\ j.kind \notin Several /\ j.kind # "cancel_all" /\ c.req.op = OpOf(j.kind)
         /\ \A a, b \in DOMAIN j.todo : j.todo[a] = j.todo[b] => a = b
    BY <1>6, <1>15 DEF Several
  <1>18. UNCHANGED <<status, missed>>  BY <1>1
  <1> QED BY <1>3, <1>5, <1>6, <1>9, <1>13, <1>14, <1>15, <1>16, <1>17, <1>18, BeginTask

LEMMA ControlStep ==
  ASSUME AdminInv, NEW t \in Tasks, NEW kind \in {"halt", "resume"}, Control(t, kind)
  PROVE  AdminInv'
  <1>1. Begin(t, kind) /\ UNCHANGED <<row, status, acked, lifted, defied, missed>>
    BY DEF Control, dbVars, ghostVars
  <1>2. PICK i \in RequestIds : NewJob(t, kind, <<>>, i) /\ Send(t, Request(nextRid, kind, None), i)
    BY DEF Control
  <1>3. HandlerStep  BY <1>2 DEF Control, HandlerStep, Send, engineVars, ghostVars
  <1>4. PICK none : none \in Seq(Traders \cup Symbols) /\ none = <<>>
    <2>1. <<>> \in Seq(Traders \cup Symbols)  OBVIOUS
    <2> QED BY <2>1, Zenon
  <1>5. /\ job[t] = None /\ call[t] = None /\ nextRid <= MaxRequests /\ nextRid' = nextRid + 1
        /\ IdsMove /\ i \in Rid /\ nextRid \in Rid /\ row[nextRid] = None /\ wireId'[nextRid] = i
        /\ JobBegins(t, kind, none)
    <2>1. NewJob(t, kind, none, i) /\ kind \in Kind  BY <1>2, <1>4 DEF Kind
    <2> QED BY <1>1, <1>2, <1>4, <2>1, NewJobIs
  <1>6. PICK j \in Job : /\ job' = [job EXCEPT ![t] = j] /\ j.kind = kind /\ j.rid = nextRid
                         /\ j.step = "engine" /\ j.todo = <<>> /\ j.ids = {}
    BY <1>4, <1>5 DEF JobBegins
  <1>7. UNCHANGED <<ran, halted, eased>>  BY <1>3 DEF HandlerStep
  <1>8. HaltOK'  BY <1>1, <1>5, <1>6, <1>7, HaltKeep
  <1>9. row' \in [Rid -> Row \cup {None}] /\ row'[nextRid] = None /\ \A r \in Rid : row'[r] = row[r]
    BY <1>1, <1>5 DEF AdminInv, Shapes
  <1>10. /\ OthersKeep(t) /\ PendingOK' /\ pending' \in [Rid -> Tasks \cup {None}]
         /\ \E c \in Call : /\ call'[t] = c /\ c # None
                            /\ c.req.rid = nextRid /\ c.req.op = OpOf(kind) /\ c.req.arg = None
                            /\ c.step = "write" /\ c.got = None
    <2>1. None \in Traders \cup {None} /\ kind \in {"halt", "resume", "place"}  OBVIOUS
    <2> QED BY <1>2, <1>5, <2>1, SendNew
  <1>11. PICK c \in Call : /\ call'[t] = c /\ c # None
                           /\ c.req.rid = nextRid /\ c.req.op = OpOf(kind)
                           /\ c.step = "write" /\ c.got = None
    BY <1>10
  <1>12. /\ j.kind \notin Several /\ j.kind # "cancel_all" /\ j.kind # "place"
         /\ \A a, b \in DOMAIN j.todo : j.todo[a] = j.todo[b] => a = b
    BY <1>6 DEF Several
  <1>13. UNCHANGED <<status, missed>>  BY <1>1
  <1> QED BY <1>3, <1>5, <1>6, <1>8, <1>9, <1>10, <1>11, <1>12, <1>13, BeginTask

-----------------------------------------------------------------------------
(* Settlement inserts the row of an order that came without one.           *)

LEMMA SettleRowStep ==
  ASSUME AdminInv, NEW r \in Rid, SettleRow(r)
  PROVE  AdminInv'
  <1>1. /\ r \in accepted /\ row[r] = None
        /\ row' = [row EXCEPT ![r] = [user |-> owner[r], status |-> "new"]]
        /\ UNCHANGED <<linkVars, engineVars, jobVars, ghostVars, status>>
    BY DEF SettleRow
  <1>2. /\ HandlerStep /\ IdsMove /\ UNCHANGED <<job, call, pending, nextRid, wireId, missed>>
        /\ UNCHANGED <<ran, acked, lifted, defied, halted, eased>>
    BY <1>1 DEF HandlerStep, IdsMove, linkVars, engineVars, jobVars, ghostVars
  <1>3. /\ Shapes /\ JobsOK /\ PendingOK /\ row \in [Rid -> Row \cup {None}]
        /\ owner[r] \in Traders /\ r < nextRid /\ nextRid \in Nat
        /\ \A x \in Rid : row[x] # None /\ row[x].status = "canceled" => x \in Gone
        /\ \A x \in accepted : x \in Rid /\ (row[x] # None => row[x].user = owner[x])
    BY <1>1, LinkAssumption DEF AdminInv, Shapes, OrdersOK
  <1> DEFINE x == [user |-> owner[r], status |-> "new"]
  <1>4. x \in Row /\ x.user = owner[r] /\ x.status = "new"  BY <1>3 DEF Row
  <1>5. row' = [row EXCEPT ![r] = x]  BY <1>1
  <1> HIDE DEF x
  <1>6. row' \in [Rid -> Row \cup {None}] /\ row'[r] = x /\ \A y \in Rid \ {r} : row'[y] = row[y]
    BY <1>3, <1>4, <1>5
  <1>7. RowsKeep  BY <1>1, <1>3, <1>4, <1>6 DEF RowsKeep
  <1>8. HaltOK'  BY <1>1, <1>2, LinkHalt
  <1>9. PendingOK'  BY <1>2, <1>3 DEF PendingOK
  <1>10. \A u \in Tasks : TaskOK(u)'
    <2>1. \A u \in Tasks : job'[u] = job[u] /\ CallKeeps(u)  BY <1>2 DEF CallKeeps
    <2> QED BY <1>2, <1>7, <2>1, OtherTask
  <1>11. \A y \in Rid : y >= nextRid' => row'[y] = None
    <2>1. ~(r >= nextRid)  BY <1>3 DEF Rid
    <2> QED BY <1>2, <1>3, <1>6, <2>1 DEF JobsOK
  <1>12. /\ \A u, v \in Tasks : job'[u] # None /\ job'[v] # None /\ job'[u].rid = job'[v].rid => u = v
         /\ \A m \in missed' : m[1] \in Rid /\ m[1] < nextRid' /\ Reused(m[1])'
    BY <1>2, <1>3, MissedKeep DEF JobsOK
  <1>13. /\ pending' \in [Rid -> Tasks \cup {None}] /\ status' \in {"trading", "halted"}
         /\ job' \in [Tasks -> Job \cup {None}] /\ call' \in [Tasks -> Call \cup {None}]
    BY <1>1, <1>2, <1>3 DEF Shapes
  <1> QED BY <1>2, <1>7, <1>8, <1>9, <1>10, <1>11, <1>12, <1>13, Compose

-----------------------------------------------------------------------------
(* Every step.                                                             *)

LEMMA AdminInvInit == AdminInit => AdminInv
  <1> SUFFICES ASSUME AdminInit PROVE AdminInv  OBVIOUS
  <1> DEFINE x == [state |-> "unused", req |-> <<>>, resp |-> <<>>, reader |-> "none"]
  <1>1. /\ conn = [g \in Conn |-> x] /\ writer = None /\ pending = [i \in Rid |-> None]
        /\ call = [t \in Tasks |-> None] /\ job = [t \in Tasks |-> None] /\ row = [r \in Rid |-> None]
        /\ ran = [r \in Rid |-> <<>>] /\ nextRid = 1 /\ live = {} /\ accepted = {} /\ missed = {}
        /\ owner = [r \in Rid |-> None] /\ wireId = [r \in Rid |-> r]
        /\ status = "trading" /\ acked = {} /\ eased = {} /\ lifted = {} /\ defied = {}
    BY DEF AdminInit, LinkInit
  <1>2. <<>> \in Seq(Req) /\ <<>> \in Seq(Resp)  OBVIOUS
  <1>3. x \in ConnType /\ x.req = <<>> /\ x.resp = <<>> /\ x.reader = "none"  BY <1>2 DEF ConnType
  <1> HIDE DEF x
  <1>4. /\ \A g \in Conn : conn[g] = x /\ Asked(g) = {} /\ Told(g) = {}
        /\ \A r \in Rid : ran[r] = <<>> /\ row[r] = None /\ pending[r] = None /\ wireId[r] = r
        /\ \A t \in Tasks : call[t] = None /\ job[t] = None
    BY <1>1, <1>3, EmptyDistinct DEF Asked, Told
  <1>5. Shapes
    <2>1. conn \in [Conn -> ConnType] /\ ran \in [Rid -> Seq(Req)]  BY <1>1, <1>2, <1>3
    <2>2. nextRid \in 1 .. MaxRequests + 1  BY <1>1, LinkAssumption
    <2>3. owner \in [Rid -> Arg]  BY <1>1 DEF Arg
    <2>4. pending \in [Rid -> Tasks \cup {None}]  BY <1>1
    <2> QED BY <1>1, <1>3, <1>4, <2>1, <2>2, <2>3, <2>4 DEF Shapes
  <1>6. JobsOK /\ UnsentOK /\ PendingOK  BY <1>4 DEF JobsOK, UnsentOK, PendingOK
  <1>7. IdsOK  BY <1>1, <1>4 DEF IdsOK, Rid
  <1>8. /\ \A r \in Rid : Elems(ran[r]) = {} /\ DOMAIN ran[r] = {}
        /\ Halts = {}
    <2>1. \A r \in Rid : Elems(ran[r]) = {} /\ DOMAIN ran[r] = {}  BY <1>4, EmptyDistinct
    <2> QED BY <2>1, HaltsAre
  <1>9. FlightOK  BY <1>3, <1>4, <1>8, EmptyDistinct DEF FlightOK
  <1>10. AwaitedOK  BY <1>4 DEF AwaitedOK
  <1>11. OrdersOK /\ ReachOK  BY <1>1, <1>4 DEF OrdersOK, ReachOK
  <1>12. HaltOK  BY <1>1, <1>4, <1>8 DEF HaltOK, Running
  <1> QED BY <1>5, <1>6, <1>7, <1>9, <1>10, <1>11, <1>12 DEF AdminInv

(* The steps of the link leave handlers, engine and database alone. *)
LEMMA LinkAlone ==
  ASSUME AdminInv, UNCHANGED <<engineVars, dbVars, jobVars, ghostVars>>
  PROVE  LinkStep
  <1>1. /\ UNCHANGED <<job, row, ran, nextRid, live, owner, accepted, missed, status, wireId>>
        /\ UNCHANGED <<halted, eased, acked, lifted, defied>>
    BY DEF engineVars, dbVars, jobVars, ghostVars
  <1>2. HaltOK'  BY <1>1, LinkHalt
  <1> QED BY <1>1, <1>2 DEF LinkStep

LEMMA ProceedStep ==
  ASSUME AdminInv, NEW t \in Tasks, Proceed(t)
  PROVE  AdminInv'
  <1>1. CASE Link(Sending(t))
    <2>1. Sending(t) /\ LinkStep  BY <1>1, LinkAlone DEF Link
    <2> QED BY <2>1, LinkSteps
  <1> QED BY <1>1, NextCallStep, CallReturnsStep, CallsDoneStep, MarkOrdersCanceledStep,
             ControlReturnsStep, UpdateMarketStatusStep, DbFailsStep, AuditStep, PlaceReturnsStep
          DEF Proceed

LEMMA ArriveStep ==
  ASSUME AdminInv, NEW t \in Tasks, Arrive(t)
  PROVE  AdminInv'
  BY ControlStep, CancelAllInMarketStep, EngineStateStep, OneUserStep, PlaceOrderStep DEF Arrive

LEMMA AdminInvStep == AdminInv /\ [AdminNext]_adminVars => AdminInv'
  <1> SUFFICES ASSUME AdminInv, [AdminNext]_adminVars PROVE AdminInv'  OBVIOUS
  <1>1. ASSUME NEW t \in Tasks, Late(t) PROVE AdminInv'
    <2>1. Timeout(t) /\ LinkStep  BY <1>1, LinkAlone DEF Late, Link
    <2> QED BY <2>1, LinkSteps
  <1>2. ASSUME NEW g \in Conn, Link(Reader(g)) \/ Link(ServerSeesEof(g)) PROVE AdminInv'
    <2>1. (Reader(g) \/ ServerSeesEof(g)) /\ LinkStep  BY <1>2, LinkAlone DEF Link
    <2> QED BY <2>1, LinkSteps
  <1>3. CASE Link(EngineStarts)
    <2>1. EngineStarts /\ LinkStep  BY <1>3, LinkAlone DEF Link
    <2> QED BY <2>1, LinkSteps
  <1>4. ASSUME NEW g \in Conn, Break(g) PROVE AdminInv'
    <2>1. NetworkBreaks(g) /\ LinkStep  BY <1>4, LinkAlone DEF Break
    <2> QED BY <2>1, LinkSteps
  <1>5. CASE Death
    <2>1. /\ EngineDies /\ eased' = eased \cup Halts
          /\ UNCHANGED <<job, row, ran, nextRid, live, owner, accepted, missed, status, wireId>>
          /\ UNCHANGED <<acked, lifted, defied>>
      BY <1>5 DEF Death, dbVars, jobVars
    <2>2. HaltOK'  BY <2>1, LinkHalt
    <2>3. LinkStep  BY <2>1, <2>2 DEF LinkStep
    <2> QED BY <2>1, <2>3, LinkSteps
  <1>6. CASE UNCHANGED adminVars
    <2>1. UNCHANGED linkVars /\ LinkStep  BY <1>6, LinkAlone DEF adminVars
    <2> QED BY <2>1, LinkSteps
  <1>7. CASE Work
    BY <1>1, <1>2, <1>3, <1>7, ProceedStep, HandleStep DEF Work
  <1> QED BY <1>4, <1>5, <1>6, <1>7, ArriveStep, DirectOrderStep, SettleRowStep, HandleFailsStep
          DEF AdminNext

LEMMA AdminAlways == AdminSpec => []AdminInv
  <1>1. AdminInit => AdminInv  BY AdminInvInit
  <1>2. AdminInv /\ [AdminNext]_adminVars => AdminInv'  BY AdminInvStep
  <1> QED BY <1>1, <1>2, PTL DEF AdminSpec

-----------------------------------------------------------------------------
(* A halt that was acknowledged closes both gates, whatever halts and      *)
(* resumes overlap with it between engine and database.  The engine        *)
(* accepts no order, the market maker's included, until it executes a      *)
(* resume or dies: the handler went on only after the engine had executed  *)
(* the halt (under an id of its own).  place_order lets no order through   *)
(* until a resume writes the row: the handler answers only after it wrote  *)
(* the row itself.                                                         *)
THEOREM HaltsHold == AdminSpec => []HaltHolds
  <1>1. AdminInv => HaltHolds  BY DEF AdminInv, HaltOK, HaltHolds
  <1> QED BY <1>1, AdminAlways, PTL

(* EngineClient::send returns the engine's answer to the request it wrote  *)
(* when no other request came with the same X-Request-Id, and the engine   *)
(* executes nothing twice, over any number of reconnects, late answers and *)
(* timeouts.                                                               *)
THEOREM AnswersMatch == AdminSpec => []AnswersOwnRequest
  <1>1. ASSUME AdminInv PROVE AnswersOwnRequest
    <2>1. AdminTypeOK  BY <1>1 DEF AdminInv, Shapes, JobsOK, AdminTypeOK
    <2>2. ASSUME NEW t \in Tasks, Returned(t), ~Failed(t), ~Reused(call[t].req.rid)
          PROVE  /\ call[t].got.rid = call[t].req.rid /\ call[t].got.op = call[t].req.op
                 /\ call[t].req.op # "snapshot" => call[t].got.arg = call[t].req.arg
      <3>1. call[t] # None /\ call[t].got \in Resp  BY <1>1, <2>2, Succeeded
      <3>2. job[t] # None /\ call[t].req.rid = job[t].rid  BY <1>1, <3>1, CallIs DEF JobOK
      <3>3. OwnAnswer(t)  BY <1>1, <2>2, <3>1, <3>2 DEF AdminInv, AwaitedOK
      <3> QED BY <3>3 DEF OwnAnswer
    <2>3. \A r \in Rid : \A i, j \in DOMAIN ran[r] : i # j => ran[r][i] # ran[r][j]
      BY <1>1 DEF AdminInv, FlightOK
    <2> QED BY <2>1, <2>2, <2>3 DEF AnswersOwnRequest
  <1>2. AdminInv => AnswersOwnRequest  BY <1>1
  <1> QED BY <1>2, AdminAlways, PTL

(* cancel_all_in_market, when it answers 200 and its X-Request-Id was its  *)
(* own, has removed every order that was in the engine and had a row when  *)
(* it began, the orders whose placement the API gave up on included.       *)
THEOREM CancelAllIsComplete == AdminSpec => []CancelAllReaches
  <1>1. AdminInv => CancelAllReaches  BY DEF AdminInv, ReachOK, CancelAllReaches
  <1> QED BY <1>1, AdminAlways, PTL

-----------------------------------------------------------------------------
(* The ledger. *)

(* A ledger entry, and a faucet transaction that has not ended. *)
Entry   == [id: Nat, row: Rows, amount: Int, after: Int]
Deposit == [row: Rows, amount: Nat, id: Nat]

(* Entries that are a running account of the balances b: the last entry of *)
(* a row shows the row's balance, every other one the balance that the     *)
(* next one started from.                                                  *)
Account(entries, b) ==
  /\ IsFiniteSet(entries) /\ entries \subseteq Entry
  /\ \A d, e \in entries : d.id = e.id => d = e
  /\ \A e \in entries : (\A d \in entries : d.row = e.row => d.id <= e.id) => e.after = b[e.row]
  /\ \A d, e \in entries :
       /\ d.row = e.row /\ e.id < d.id
       /\ \A x \in entries : x.row = e.row => x.id <= e.id \/ d.id <= x.id
       => d.after - d.amount = e.after

(* A transaction has its id before it commits.  Until then its row stays   *)
(* locked, so no entry of the row overtakes it.                            *)
DepositsOK ==
  /\ deposits \subseteq Deposit
  /\ \A d \in deposits :
       /\ d.id < nextId
       /\ \A e \in ledger : e.id # d.id /\ (e.row = d.row => e.id < d.id)
  /\ \A d, e \in deposits : d.row = e.row \/ d.id = e.id => d = e

LedgerOK ==
  /\ balances \in [Rows -> Nat] /\ nextId \in Nat
  /\ \A e \in ledger : e.id < nextId
  /\ Account(ledger, balances)

(* What the client has is in order, and what was there when it began is    *)
(* behind it or still to come.                                             *)
Behind(e) == pager.cursor = Null \/ e.id < pager.cursor
PagerOK ==
  \/ pager = [at |-> "idle"]
  \/ /\ pager \in [at: {"paging", "done"}, cursor: Nat \cup {Null}, got: Seq(Entry), present: SUBSET Mine]
     /\ \A i, j \in 1..Len(pager.got) : i < j => pager.got[i].id > pager.got[j].id
     /\ pager.cursor = IF pager.got = <<>> THEN Null ELSE pager.got[Len(pager.got)].id
     /\ \A e \in pager.present : (\E i \in 1..Len(pager.got) : pager.got[i] = e) \/ (pager.at = "paging" /\ Behind(e))

PortfolioInv == LedgerOK /\ DepositsOK /\ PagerOK
-----------------------------------------------------------------------------
(* An entry behind all others of its row continues the account. *)
LEMMA AccountGrows ==
  ASSUME NEW L, NEW b \in [Rows -> Int], Account(L, b), NEW n \in Entry,
         \A e \in L : e.id # n.id /\ (e.row = n.row => e.id < n.id),
         n.after = b[n.row] + n.amount
  PROVE  Account(L \cup {n}, [b EXCEPT ![n.row] = n.after])
  <1> DEFINE M == L \cup {n}
             c == [b EXCEPT ![n.row] = n.after]
  <1>1. IsFiniteSet(M) /\ M \subseteq Entry  BY FS_AddElement DEF Account
  <1>2. \A d, e \in M : d.id = e.id => d = e  BY DEF Account
  <1>t. \A e \in M : e.id \in Nat /\ e.row \in Rows /\ e.amount \in Int /\ e.after \in Int
    BY <1>1 DEF Entry
  <1>3. ASSUME NEW e \in M, \A d \in M : d.row = e.row => d.id <= e.id PROVE e.after = c[e.row]
    <2>1. CASE e = n  BY <1>t, <2>1
    <2>2. CASE e # n
      <3>1. e \in L  BY <2>2
      <3>2. e.row # n.row  BY <1>3, <1>t, <3>1
      <3>3. \A d \in L : d.row = e.row => d.id <= e.id  BY <1>3
      <3> QED BY <1>t, <3>1, <3>2, <3>3 DEF Account
    <2> QED BY <2>1, <2>2
  <1>4. ASSUME NEW d \in M, NEW e \in M, d.row = e.row, e.id < d.id,
               \A x \in M : x.row = e.row => x.id <= e.id \/ d.id <= x.id
        PROVE  d.after - d.amount = e.after
    <2>1. e # n /\ e \in L  BY <1>4, <1>t
    <2>2. CASE d = n
      <3>1. \A x \in L : x.row = e.row => x.id <= e.id  BY <1>4, <1>t, <2>2
      <3>2. e.after = b[e.row]  BY <2>1, <3>1 DEF Account
      <3>3. b[n.row] \in Int /\ n.amount \in Int  BY DEF Entry
      <3> QED BY <1>4, <2>2, <3>2, <3>3
    <2>3. CASE d # n
      <3>1. d \in L /\ \A x \in L : x.row = e.row => x.id <= e.id \/ d.id <= x.id  BY <1>4, <2>3
      <3> QED BY <1>4, <2>1, <3>1 DEF Account
    <2> QED BY <2>2, <2>3
  <1> HIDE DEF M, c
  <1>5. Account(M, c)  BY <1>1, <1>2, <1>3, <1>4 DEF Account
  <1> QED BY <1>5 DEF M, c
(* The invariant says of the ledger what HistoryRuns says of it. *)
LEMMA RunningAccount ==
  ASSUME Account(ledger, balances)
  PROVE  \A slot \in Rows : LET of == {e \in ledger : e.row = slot} IN \A e \in of :
           LET newer == {d \in of : d.id > e.id} IN
           IF newer = {} THEN e.after = balances[slot]
           ELSE LET d == CHOOSE d \in newer : \A x \in newer : d.id <= x.id
                IN  d.after - d.amount = e.after
  <1> SUFFICES ASSUME NEW slot \in Rows, NEW e \in ledger, e.row = slot
               PROVE  LET newer == {d \in {x \in ledger : x.row = slot} : d.id > e.id} IN
                      IF newer = {} THEN e.after = balances[slot]
                      ELSE LET d == CHOOSE d \in newer : \A x \in newer : d.id <= x.id
                           IN  d.after - d.amount = e.after
    OBVIOUS
  <1>1. PICK newer : newer = {d \in {x \in ledger : x.row = slot} : d.id > e.id}  OBVIOUS
  <1>2. \A x \in ledger : x.id \in Nat  BY DEF Account, Entry
  <1>3. CASE newer = {}
    <2>1. \A d \in ledger : d.row = e.row => d.id <= e.id  BY <1>1, <1>2, <1>3
    <2>2. e.after = balances[slot]  BY <2>1 DEF Account
    <2> QED BY <1>1, <1>3, <2>2
  <1>4. CASE newer # {}
    <2>1. PICK T : T = {x.id : x \in newer}  OBVIOUS
    <2>2. T \subseteq Nat /\ T # {}  BY <1>1, <1>2, <1>4, <2>1
    <2>3. PICK n \in T : \A m \in T : n <= m  BY <2>2, LeastNat
    <2>4. \E d \in newer : \A x \in newer : d.id <= x.id  BY <2>1, <2>3
    <2>5. PICK d : d = CHOOSE y \in newer : \A x \in newer : y.id <= x.id  OBVIOUS
    <2>6. d \in newer /\ \A x \in newer : d.id <= x.id  BY <2>4, <2>5
    <2>7. d \in ledger /\ d.row = e.row /\ e.id < d.id  BY <1>1, <1>2, <2>6
    <2>8. \A x \in ledger : x.row = e.row => x.id <= e.id \/ d.id <= x.id  BY <1>1, <1>2, <2>6
    <2>9. d.after - d.amount = e.after  BY <2>7, <2>8 DEF Account
    <2> QED BY <1>1, <1>4, <2>5, <2>9
  <1> QED BY <1>3, <1>4

-----------------------------------------------------------------------------
(* A page: the number of newer entries tells entries apart and takes every *)
(* value below their number, so that the page is well defined.             *)
LEMMA PageIsSorted ==
  ASSUME NEW S, IsFiniteSet(S), \A e \in S : e.id \in Nat,
         \A d, e \in S : d.id = e.id => d = e, NEW n \in Nat \ {0}
  PROVE  LET page == NewestFirst(S, n) IN
         /\ page \in Seq(S) /\ (page = <<>> <=> S = {})
         /\ \A i, j \in 1..Len(page) : i < j => page[i].id > page[j].id
         /\ \A e \in S : \/ \E i \in 1..Len(page) : page[i] = e
                         \/ page # <<>> /\ e.id < page[Len(page)].id
  <1> DEFINE Newer(e) == {d \in S : d.id > e.id}
             Rank(e) == Cardinality(Newer(e))
  <1>1. PICK c : c = Cardinality(S)  OBVIOUS
  <1>2. c \in Nat  BY <1>1, FS_CardinalityType
  <1>3. ASSUME NEW e \in S PROVE Rank(e) \in 0..(c - 1)
    <2>1. Newer(e) \subseteq S /\ Newer(e) # S
      <3>1. e \notin Newer(e)  OBVIOUS
      <3> QED BY <3>1
    <2>2. IsFiniteSet(Newer(e))  BY <2>1, FS_Subset
    <2>3. Rank(e) \in Nat  BY <2>2, FS_CardinalityType
    <2>4. Rank(e) <= c /\ Rank(e) # c  BY <1>1, <2>1, FS_Subset
    <2> QED BY <1>2, <2>3, <2>4
  <1>4. ASSUME NEW d \in S, NEW e \in S, d.id > e.id PROVE Rank(d) < Rank(e)
    <2>1. Newer(d) \subseteq Newer(e)  BY <1>4
    <2>2. d \in Newer(e) /\ d \notin Newer(d)  BY <1>4
    <2>3. Newer(d) # Newer(e)  BY <2>2
    <2>4. IsFiniteSet(Newer(e))  BY FS_Subset
    <2>5. Rank(d) <= Rank(e) /\ Rank(d) # Rank(e)  BY <2>1, <2>3, <2>4, FS_Subset
    <2>6. Rank(d) \in Nat /\ Rank(e) \in Nat  BY <1>3
    <2> QED BY <2>5, <2>6
  <1> HIDE DEF Newer, Rank
  <1>5. \A d, e \in S : (Rank(d) = Rank(e) => d = e) /\ (Rank(d) < Rank(e) => d.id > e.id)
    <2> SUFFICES ASSUME NEW d \in S, NEW e \in S
                 PROVE  (Rank(d) = Rank(e) => d = e) /\ (Rank(d) < Rank(e) => d.id > e.id)
      OBVIOUS
    <2>1. Rank(d) \in Nat /\ Rank(e) \in Nat  BY <1>2, <1>3
    <2>2. d.id > e.id \/ d.id = e.id \/ e.id > d.id  OBVIOUS
    <2>3. d.id > e.id => Rank(d) < Rank(e)  BY <1>4
    <2>4. e.id > d.id => Rank(e) < Rank(d)  BY <1>4
    <2>5. d.id = e.id => d = e  OBVIOUS
    <2> QED BY <2>1, <2>2, <2>3, <2>4, <2>5
  <1>6. ASSUME NEW k \in 0..(c - 1) PROVE \E e \in S : Rank(e) = k
    <2> DEFINE f == [e \in S |-> Rank(e)]
    <2>1. f \in [S -> 0..(c - 1)]  BY <1>3
    <2>2. \A d, e \in S : f[d] = f[e] => d = e  BY <1>5
    <2>3. f \in Injection(S, 0..(c - 1))  BY <2>1, <2>2 DEF Injection, IsInjective
    <2>4. IsFiniteSet(0..(c - 1)) /\ Cardinality(0..(c - 1)) = c  BY <1>2, FS_Interval
    <2>5. f \in Surjection(S, 0..(c - 1))  BY <1>1, <2>3, <2>4, FS_Injection
    <2>6. PICK e \in S : f[e] = k  BY <2>5 DEF Surjection
    <2> QED BY <2>6
  <1>7. PICK m : m = Min({n, c})  OBVIOUS
  <1>8. m \in Nat /\ m <= c /\ m <= n /\ (m = 0 <=> c = 0)
    <2>1. \E x \in {n, c} : \A y \in {n, c} : x <= y  BY <1>2
    <2>2. m \in {n, c} /\ \A y \in {n, c} : m <= y  BY <1>7, <2>1 DEF Min
    <2> QED BY <1>2, <2>2
  <1>9. PICK page : page = NewestFirst(S, n)  OBVIOUS
  <1>10. page = [i \in 1..m |-> CHOOSE e \in S : Rank(e) = i - 1]
    BY <1>1, <1>7, <1>9 DEF NewestFirst, Rank, Newer
  <1>11. ASSUME NEW i \in 1..m PROVE page[i] \in S /\ Rank(page[i]) = i - 1
    <2>1. i - 1 \in 0..(c - 1)  BY <1>2, <1>8
    <2>2. \E e \in S : Rank(e) = i - 1  BY <1>6, <2>1
    <2> QED BY <1>10, <2>2
  <1>12. page \in Seq(S) /\ Len(page) = m
    <2>1. page \in [1..m -> S]  BY <1>10, <1>11
    <2> QED BY <1>8, <2>1
  <1>13. page = <<>> <=> S = {}
    <2>1. page = <<>> <=> m = 0  BY <1>8, <1>12
    <2>2. c = 0 <=> S = {}  BY <1>1, FS_EmptySet
    <2> QED BY <1>8, <2>1, <2>2
  <1>14. \A i, j \in 1..m : i < j => page[i].id > page[j].id
    <2> SUFFICES ASSUME NEW i \in 1..m, NEW j \in 1..m, i < j PROVE page[i].id > page[j].id
      OBVIOUS
    <2>1. Rank(page[i]) < Rank(page[j])  BY <1>8, <1>11
    <2>2. page[i] \in S /\ page[j] \in S  BY <1>11
    <2> QED BY <1>5, <2>1, <2>2
  <1>15. ASSUME NEW e \in S PROVE (\E i \in 1..m : page[i] = e) \/ (page # <<>> /\ e.id < page[m].id)
    <2>1. Rank(e) \in 0..(c - 1)  BY <1>3
    <2>2. CASE Rank(e) < m
      <3>1. Rank(e) + 1 \in 1..m /\ (Rank(e) + 1) - 1 = Rank(e)  BY <1>2, <1>8, <2>1, <2>2
      <3>a. page[Rank(e) + 1] \in S /\ Rank(page[Rank(e) + 1]) = Rank(e)  BY <1>11, <3>1
      <3>2. page[Rank(e) + 1] = e  BY <1>5, <3>a
      <3> QED BY <3>1, <3>2
    <2>3. CASE ~(Rank(e) < m)
      <3>1. m \in 1..m /\ page # <<>>  BY <1>2, <1>8, <1>12, <2>1
      <3>2. Rank(page[m]) < Rank(e)  BY <1>2, <1>8, <1>11, <2>1, <2>3, <3>1
      <3>a. page[m] \in S  BY <1>11, <3>1
      <3>3. page[m].id > e.id  BY <1>5, <3>2, <3>a
      <3>4. page[m].id \in Nat /\ e.id \in Nat  BY <1>11, <3>1
      <3> QED BY <3>1, <3>3, <3>4
    <2> QED BY <2>2, <2>3
  <1> QED BY <1>9, <1>12, <1>13, <1>14, <1>15
-----------------------------------------------------------------------------
(* The six entries of a fill. *)
LEMMA MovesType ==
  ASSUME NEW t \in Trades, NEW i \in 1..6
  PROVE  Moves(t)[i].row \in Rows /\ Moves(t)[i].amount \in Int
  <1>1. /\ t.taker \in Users /\ t.maker \in Users
        /\ t.price \in Nat /\ t.quantity \in Nat /\ t.side \in {"buy", "sell"}
    BY PortfolioAssumption DEF Trades, Users
  <1>2. PICK buyer, seller : /\ buyer = (IF t.side = "buy" THEN t.taker ELSE t.maker)
                             /\ seller = (IF t.side = "buy" THEN t.maker ELSE t.taker)
    OBVIOUS
  <1>3. buyer \in Users /\ seller \in Users  BY <1>1, <1>2
  <1>4. PICK q, notional : q = t.quantity /\ notional = t.price * t.quantity  OBVIOUS
  <1>5. q \in Nat /\ notional \in Nat  BY <1>1, <1>4
  <1>6. PICK f, g : f = FeeAmount(q, TakerFeeBps) /\ g = FeeAmount(notional, MakerFeeBps)  OBVIOUS
  <1>7. f \in Int /\ g \in Int
    <2>1. TakerFeeBps \in Nat /\ MakerFeeBps \in Nat  BY PortfolioAssumption
    <2>2. q * TakerFeeBps \in Nat /\ notional * MakerFeeBps \in Nat  BY <1>5, <2>1
    <2> QED BY <1>6, <2>2 DEF FeeAmount
  <1>8. Moves(t) = <<[row |-> <<"BTC", buyer>>,   amount |-> q],
                     [row |-> <<"BTC", buyer>>,   amount |-> -f],
                     [row |-> <<"USDT", buyer>>,  amount |-> -notional],
                     [row |-> <<"USDT", seller>>, amount |-> notional],
                     [row |-> <<"USDT", seller>>, amount |-> -g],
                     [row |-> <<"BTC", seller>>,  amount |-> -q]>>
    BY <1>2, <1>4, <1>6 DEF Moves
  <1>9. \A a \in Assets, u \in Users : <<a, u>> \in Rows  BY DEF Rows
  <1>10. {<<"BTC", buyer>>, <<"USDT", buyer>>, <<"BTC", seller>>, <<"USDT", seller>>} \subseteq Rows
    BY <1>3, <1>9 DEF Assets
  <1>11. i = 1 \/ i = 2 \/ i = 3 \/ i = 4 \/ i = 5 \/ i = 6  OBVIOUS
  <1> QED BY <1>5, <1>7, <1>8, <1>10, <1>11

(* What the fill's entry i does to a row. *)
MoveOf(t, slot, i) == IF Moves(t)[i].row = slot THEN Moves(t)[i].amount ELSE 0

LEMMA BalanceSteps ==
  ASSUME NEW t \in Trades, balances \in [Rows -> Nat], NEW slot \in Rows
  PROVE  /\ BalanceAfter(t, slot, 0) = balances[slot]
         /\ \A n \in 0..6 : BalanceAfter(t, slot, n) \in Int
         /\ \A n \in 0..5 : BalanceAfter(t, slot, n + 1) = BalanceAfter(t, slot, n) + MoveOf(t, slot, n + 1)
  <1>1. PICK f : f = [i \in 1..6 |-> MoveOf(t, slot, i)]  OBVIOUS
  <1>2. \A n : BalanceAfter(t, slot, n) = balances[slot] + SumFunctionOnSet(f, 1..n)
    BY <1>1 DEF BalanceAfter, MoveOf
  <1>3. \A i \in 1..6 : f[i] \in Int  BY <1>1, MovesType DEF MoveOf
  <1>4. balances[slot] \in Nat  OBVIOUS
  <1>5. BalanceAfter(t, slot, 0) = balances[slot]
    <2>1. 1..0 = {}  OBVIOUS
    <2>2. SumFunctionOnSet(f, 1..0) = 0  BY <2>1, SumEmpty
    <2> QED BY <1>2, <1>4, <2>2
  <1>6. ASSUME NEW n \in 0..6 PROVE SumFunctionOnSet(f, 1..n) \in Int
    <2>1. 1 \in Int /\ n \in Int  OBVIOUS
    <2>2. IsFiniteSet(1..n)  BY <2>1, FS_Interval
    <2>3. \A i \in 1..n : f[i] \in Int  BY <1>3
    <2> QED BY <2>2, <2>3, SumTake
  <1>7. ASSUME NEW n \in 0..5
        PROVE  BalanceAfter(t, slot, n + 1) = BalanceAfter(t, slot, n) + MoveOf(t, slot, n + 1)
    <2>a. 1 \in Int /\ n \in Int /\ n \in 0..6  OBVIOUS
    <2>b. IsFiniteSet(1..n)  BY <2>a, FS_Interval
    <2>1. 1..(n + 1) = (1..n) \cup {n + 1} /\ n + 1 \notin 1..n  OBVIOUS
    <2>2. \A i \in (1..n) \cup {n + 1} : f[i] \in Int  BY <1>3
    <2>3. SumFunctionOnSet(f, (1..n) \cup {n + 1}) = SumFunctionOnSet(f, 1..n) + f[n + 1]
      BY <2>1, <2>2, <2>b, SumAdd
    <2>c. SumFunctionOnSet(f, 1..n) \in Int  BY <1>6, <2>a
    <2>4. f[n + 1] = MoveOf(t, slot, n + 1) /\ f[n + 1] \in Int  BY <1>1, <1>3
    <2>5. PICK a, s : a = f[n + 1] /\ s = SumFunctionOnSet(f, 1..n)  OBVIOUS
    <2>6. BalanceAfter(t, slot, n + 1) = balances[slot] + (s + a)  BY <1>2, <2>1, <2>3, <2>5
    <2>7. BalanceAfter(t, slot, n) = balances[slot] + s  BY <1>2, <2>5
    <2> QED BY <1>4, <2>c, <2>4, <2>5, <2>6, <2>7
  <1>8. \A n \in 0..6 : BalanceAfter(t, slot, n) \in Int
    <2> SUFFICES ASSUME NEW n \in 0..6 PROVE BalanceAfter(t, slot, n) \in Int  OBVIOUS
    <2>1. PICK s : s = SumFunctionOnSet(f, 1..n)  OBVIOUS
    <2>2. s \in Int  BY <1>6, <2>1
    <2> QED BY <1>2, <1>4, <2>1, <2>2
  <1> QED BY <1>5, <1>7, <1>8

(* No row is below zero behind a fill that passed settle_fill's checks. *)
LEMMA BalanceStaysNat ==
  ASSUME NEW t \in Trades, balances \in [Rows -> Nat], NEW slot \in Rows,
         \A i \in 1..6 : BalanceAfter(t, Moves(t)[i].row, i) >= 0
  PROVE  BalanceAfter(t, slot, 6) \in Nat
  <1> DEFINE P == {n \in Nat : n <= 6 => BalanceAfter(t, slot, n) >= 0}
  <1>1. 0 \in P  BY BalanceSteps
  <1>2. ASSUME NEW n \in Nat, n \in P PROVE n + 1 \in P
    <2>1. CASE n + 1 <= 6
      <3>1. n \in 0..5 /\ n + 1 \in 1..6 /\ n + 1 \in Nat  BY <2>1
      <3>2. BalanceAfter(t, slot, n) >= 0 /\ BalanceAfter(t, slot, n) \in Int  BY <1>2, <3>1, BalanceSteps
      <3>3. BalanceAfter(t, slot, n + 1) = BalanceAfter(t, slot, n) + MoveOf(t, slot, n + 1)
        BY <3>1, BalanceSteps
      <3>4. CASE Moves(t)[n + 1].row = slot  BY <3>1, <3>4
      <3>5. CASE Moves(t)[n + 1].row # slot
        <4>1. MoveOf(t, slot, n + 1) = 0  BY <3>5 DEF MoveOf
        <4> QED BY <3>1, <3>2, <3>3, <4>1
      <3> QED BY <3>4, <3>5
    <2>2. CASE ~(n + 1 <= 6)  BY <2>2
    <2> QED BY <2>1, <2>2
  <1> HIDE DEF P
  <1>3. 6 \in P  BY <1>1, <1>2, NatInduct
  <1>4. BalanceAfter(t, slot, 6) \in Int  BY BalanceSteps
  <1> QED BY <1>3, <1>4 DEF P

(* The entries of a fill, one after the other, continue the account. *)
FillEntry(t, i) ==
  [id |-> nextId + i - 1, row |-> Moves(t)[i].row,
   amount |-> Moves(t)[i].amount, after |-> BalanceAfter(t, Moves(t)[i].row, i)]

LEMMA FillContinues ==
  ASSUME LedgerOK, NEW t \in Trades
  PROVE  Account(ledger \cup {FillEntry(t, i) : i \in 1..6}, [slot \in Rows |-> BalanceAfter(t, slot, 6)])
  <1> DEFINE L(k) == ledger \cup {FillEntry(t, i) : i \in 1..k}
             B(k) == [slot \in Rows |-> BalanceAfter(t, slot, k)]
             P == {k \in Nat : k <= 6 => Account(L(k), B(k))}
  <1>1. balances \in [Rows -> Nat] /\ nextId \in Nat  BY DEF LedgerOK
  <1>2. ASSUME NEW i \in 1..6 PROVE FillEntry(t, i) \in Entry /\ FillEntry(t, i).id = nextId + i - 1
    <2>1. Moves(t)[i].row \in Rows /\ Moves(t)[i].amount \in Int  BY MovesType
    <2>2. BalanceAfter(t, Moves(t)[i].row, i) \in Int  BY <1>1, <2>1, BalanceSteps
    <2> QED BY <1>1, <2>1, <2>2 DEF FillEntry, Entry
  <1>3. 0 \in P
    <2>1. L(0) = ledger  OBVIOUS
    <2>2. \A slot \in Rows : BalanceAfter(t, slot, 0) = balances[slot]  BY <1>1, BalanceSteps
    <2>3. B(0) = balances  BY <1>1, <2>2
    <2> QED BY <2>1, <2>3 DEF LedgerOK
  <1>4. ASSUME NEW k \in Nat, k \in P PROVE k + 1 \in P
    <2>1. CASE k + 1 <= 6
      <3>1. k \in 0..5 /\ k + 1 \in 1..6  BY <2>1
      <3>2. Account(L(k), B(k))  BY <1>4, <3>1
      <3>3. B(k) \in [Rows -> Int]
        <4>1. \A slot \in Rows : BalanceAfter(t, slot, k) \in Int  BY <1>1, <3>1, BalanceSteps
        <4> QED BY <4>1
      <3>4. PICK n : n = FillEntry(t, k + 1)  OBVIOUS
      <3>5. n \in Entry /\ n.id = nextId + k  BY <1>1, <1>2, <3>1, <3>4
      <3>6. \A e \in L(k) : e.id < n.id
        <4>1. \A e \in ledger : e.id < nextId /\ e.id \in Nat  BY DEF LedgerOK, Account, Entry
        <4>2. \A i \in 1..k : FillEntry(t, i).id = nextId + i - 1  BY <1>2, <3>1
        <4>3. \A i \in 1..k : nextId + i - 1 < nextId + k  BY <1>1
        <4> QED BY <1>1, <3>5, <4>1, <4>2, <4>3
      <3>7. \A e \in L(k) : e.id \in Nat  BY <3>2 DEF Account, Entry
      <3>8. n.row = Moves(t)[k + 1].row /\ n.amount = Moves(t)[k + 1].amount
            /\ n.after = BalanceAfter(t, n.row, k + 1) /\ n.row \in Rows
        BY <3>1, <3>4, MovesType DEF FillEntry
      <3>9. n.after = B(k)[n.row] + n.amount
        <4>1. MoveOf(t, n.row, k + 1) = n.amount  BY <3>8 DEF MoveOf
        <4>2. BalanceAfter(t, n.row, k + 1) = BalanceAfter(t, n.row, k) + MoveOf(t, n.row, k + 1)
          BY <1>1, <3>1, <3>8, BalanceSteps
        <4> QED BY <3>8, <4>1, <4>2
      <3>10. L(k + 1) = L(k) \cup {n}
        <4>1. 1..(k + 1) = (1..k) \cup {k + 1}  OBVIOUS
        <4> QED BY <3>4, <4>1
      <3>11. B(k + 1) = [B(k) EXCEPT ![n.row] = n.after]
        <4>1. ASSUME NEW slot \in Rows PROVE B(k + 1)[slot] = [B(k) EXCEPT ![n.row] = n.after][slot]
          <5>1. CASE slot = n.row  BY <3>8, <5>1
          <5>2. CASE slot # n.row
            <6>1. MoveOf(t, slot, k + 1) = 0  BY <3>8, <5>2 DEF MoveOf
            <6>2. BalanceAfter(t, slot, k + 1) = BalanceAfter(t, slot, k) + MoveOf(t, slot, k + 1)
              BY <1>1, <3>1, BalanceSteps
            <6>3. BalanceAfter(t, slot, k) \in Int  BY <1>1, <3>1, BalanceSteps
            <6> QED BY <5>2, <6>1, <6>2, <6>3
          <5> QED BY <5>1, <5>2
        <4> QED BY <4>1
      <3> HIDE DEF L, B
      <3>12. \A e \in L(k) : e.id # n.id /\ (e.row = n.row => e.id < n.id)  BY <3>6, <3>7, <3>5, <1>1
      <3>13. Account(L(k) \cup {n}, [B(k) EXCEPT ![n.row] = n.after])
        BY <3>2, <3>3, <3>5, <3>9, <3>12, AccountGrows
      <3> QED BY <3>1, <3>10, <3>11, <3>13
    <2>2. CASE ~(k + 1 <= 6)  BY <2>2
    <2> QED BY <2>1, <2>2
  <1> HIDE DEF P
  <1>5. 6 \in P  BY <1>3, <1>4, NatInduct
  <1> HIDE DEF L, B
  <1>6. Account(L(6), B(6))  BY <1>5 DEF P
  <1> QED BY <1>6 DEF L, B
-----------------------------------------------------------------------------
(* New entries do not disturb the client: they are not those it began with. *)
LEMMA PagerKept ==
  ASSUME PagerOK, pager' = pager, ledger \subseteq ledger'
  PROVE  PagerOK'
  <1>1. Mine \subseteq Mine'  BY DEF Mine
  <1>2. CASE pager = [at |-> "idle"]  BY <1>2 DEF PagerOK
  <1>3. CASE ~(pager = [at |-> "idle"])
    <2>1. pager \in [at: {"paging", "done"}, cursor: Nat \cup {Null}, got: Seq(Entry), present: SUBSET Mine]
      BY <1>3 DEF PagerOK
    <2>2. pager' \in [at: {"paging", "done"}, cursor: Nat \cup {Null}, got: Seq(Entry), present: SUBSET Mine']
      BY <1>1, <2>1
    <2> QED BY <1>3, <2>2 DEF PagerOK, Behind
  <1> QED BY <1>2, <1>3

LEMMA FaucetStep ==
  ASSUME PortfolioInv, NEW slot \in Rows, NEW amount \in 0..(FaucetMax + 1), Faucet(slot, amount)
  PROVE  PortfolioInv'
  <1> DEFINE n == [row |-> slot, amount |-> amount, id |-> nextId]
  <1>1. balances \in [Rows -> Nat] /\ nextId \in Nat  BY DEF PortfolioInv, LedgerOK
  <1>2. /\ deposits' = deposits \cup {n} /\ nextId' = nextId + 1
        /\ balances' = balances /\ ledger' = ledger /\ pager' = pager
    BY DEF Faucet
  <1>3. n \in Deposit
    <2>1. amount \in Nat  BY PortfolioAssumption
    <2> QED BY <1>1, <2>1 DEF Deposit
  <1>4. \A d \in deposits : d \in Deposit /\ d.id < nextId /\ d.id \in Nat /\ d.row # slot
    BY DEF PortfolioInv, DepositsOK, Deposit, Faucet, Locked
  <1>5. \A e \in ledger : e.id < nextId /\ e.id \in Nat
    BY DEF PortfolioInv, LedgerOK, Account, Entry
  <1>6. LedgerOK'
    <2>1. nextId' \in Nat /\ \A e \in ledger' : e.id < nextId'  BY <1>1, <1>2, <1>5
    <2>2. Account(ledger', balances')  BY <1>2 DEF PortfolioInv, LedgerOK
    <2> QED BY <1>1, <1>2, <2>1, <2>2 DEF LedgerOK
  <1>7. DepositsOK'
    <2>1. deposits' \subseteq Deposit  BY <1>2, <1>3, <1>4
    <2>2. \A d \in deposits' :
            /\ d.id < nextId'
            /\ \A e \in ledger' : e.id # d.id /\ (e.row = d.row => e.id < d.id)
      BY <1>1, <1>2, <1>4, <1>5 DEF PortfolioInv, DepositsOK
    <2>3. \A d, e \in deposits' : d.row = e.row \/ d.id = e.id => d = e
      BY <1>1, <1>2, <1>4 DEF PortfolioInv, DepositsOK
    <2> QED BY <2>1, <2>2, <2>3 DEF DepositsOK
  <1>8. PagerOK'  BY <1>2, PagerKept DEF PortfolioInv
  <1> QED BY <1>6, <1>7, <1>8 DEF PortfolioInv

LEMMA FaucetCommitsStep ==
  ASSUME PortfolioInv, NEW d \in deposits, FaucetCommits(d)
  PROVE  PortfolioInv'
  <1> DEFINE n == [id |-> d.id, row |-> d.row, amount |-> d.amount, after |-> balances[d.row] + d.amount]
  <1>1. balances \in [Rows -> Nat] /\ nextId \in Nat  BY DEF PortfolioInv, LedgerOK
  <1>2. /\ deposits' = deposits \ {d} /\ nextId' = nextId /\ pager' = pager
        /\ balances' = [balances EXCEPT ![d.row] = balances[d.row] + d.amount]
        /\ ledger' = ledger \cup {n}
    BY DEF FaucetCommits
  <1>3. /\ d.row \in Rows /\ d.amount \in Nat /\ d.id \in Nat /\ d.id < nextId
        /\ \A e \in ledger : e.id # d.id /\ (e.row = d.row => e.id < d.id)
    BY DEF PortfolioInv, DepositsOK, Deposit
  <1>4. n \in Entry /\ n.after \in Nat /\ n.id = d.id /\ n.row = d.row /\ n.after = balances[n.row] + n.amount
    BY <1>1, <1>3 DEF Entry
  <1> HIDE DEF n
  <1>5. LedgerOK'
    <2>1. Account(ledger, balances) /\ balances \in [Rows -> Int]  BY <1>1 DEF PortfolioInv, LedgerOK
    <2>2. \A e \in ledger : e.id # n.id /\ (e.row = n.row => e.id < n.id)  BY <1>3, <1>4
    <2>3. Account(ledger \cup {n}, [balances EXCEPT ![n.row] = n.after])
      BY <1>4, <2>1, <2>2, AccountGrows
    <2>4. balances' = [balances EXCEPT ![n.row] = n.after]
      <3>1. n.after = balances[d.row] + d.amount  BY DEF n
      <3> QED BY <1>2, <1>4, <3>1
    <2>5. balances' \in [Rows -> Nat]  BY <1>1, <1>4, <2>4
    <2>6. \A e \in ledger' : e.id < nextId'  BY <1>2, <1>3, <1>4 DEF PortfolioInv, LedgerOK
    <2> QED BY <1>1, <1>2, <2>3, <2>4, <2>5, <2>6 DEF LedgerOK
  <1>6. DepositsOK'
    <2>1. deposits' \subseteq Deposit  BY <1>2 DEF PortfolioInv, DepositsOK
    <2>2. \A c \in deposits' : c.row # n.row /\ c.id # n.id  BY <1>2, <1>4 DEF PortfolioInv, DepositsOK
    <2>3. \A c \in deposits' :
            /\ c.id < nextId'
            /\ \A e \in ledger' : e.id # c.id /\ (e.row = c.row => e.id < c.id)
      BY <1>2, <2>2 DEF PortfolioInv, DepositsOK
    <2>4. \A c, e \in deposits' : c.row = e.row \/ c.id = e.id => c = e
      BY <1>2 DEF PortfolioInv, DepositsOK
    <2> QED BY <2>1, <2>3, <2>4 DEF DepositsOK
  <1>7. PagerOK'  BY <1>2, PagerKept DEF PortfolioInv
  <1> QED BY <1>5, <1>6, <1>7 DEF PortfolioInv

LEMMA FaucetFailsStep ==
  ASSUME PortfolioInv, NEW d \in deposits, FaucetFails(d)
  PROVE  PortfolioInv'
  <1>1. /\ deposits' \subseteq deposits /\ nextId' = nextId /\ pager' = pager
        /\ balances' = balances /\ ledger' = ledger
    BY DEF FaucetFails
  <1>2. LedgerOK'  BY <1>1 DEF PortfolioInv, LedgerOK
  <1>3. DepositsOK'  BY <1>1 DEF PortfolioInv, DepositsOK
  <1>4. PagerOK'  BY <1>1, PagerKept DEF PortfolioInv
  <1> QED BY <1>2, <1>3, <1>4 DEF PortfolioInv

LEMMA SettleFillStep ==
  ASSUME PortfolioInv, NEW t \in Trades, SettleFill(t)
  PROVE  PortfolioInv'
  <1>1. LedgerOK /\ balances \in [Rows -> Nat] /\ nextId \in Nat  BY DEF PortfolioInv, LedgerOK
  <1>2. /\ deposits' = deposits /\ nextId' = nextId + 6 /\ pager' = pager
        /\ balances' = [slot \in Rows |-> BalanceAfter(t, slot, 6)]
        /\ ledger' = ledger \cup {FillEntry(t, i) : i \in 1..6}
    BY DEF SettleFill, FillEntry
  <1>3. \A i \in 1..6 : FillEntry(t, i).id = nextId + i - 1 /\ FillEntry(t, i).row = Moves(t)[i].row
    BY DEF FillEntry
  <1>4. \A i \in 1..6 : ~Locked(Moves(t)[i].row) /\ BalanceAfter(t, Moves(t)[i].row, i) >= 0
    BY DEF SettleFill
  <1>5. LedgerOK'
    <2>1. Account(ledger', balances')  BY <1>1, <1>2, FillContinues
    <2>2. \A slot \in Rows : BalanceAfter(t, slot, 6) \in Nat  BY <1>1, <1>4, BalanceStaysNat
    <2>3. balances' \in [Rows -> Nat]  BY <1>2, <2>2
    <2>4. \A e \in ledger : e.id < nextId /\ e.id \in Nat  BY <1>1 DEF LedgerOK, Account, Entry
    <2>5. \A i \in 1..6 : nextId + i - 1 < nextId + 6  BY <1>1
    <2>6. nextId' \in Nat /\ \A e \in ledger' : e.id < nextId'  BY <1>1, <1>2, <1>3, <2>4, <2>5
    <2> QED BY <2>1, <2>3, <2>6 DEF LedgerOK
  <1>6. DepositsOK'
    <2>1. \A d \in deposits : d.id \in Nat /\ d.id < nextId  BY DEF PortfolioInv, DepositsOK, Deposit
    <2>2. \A d \in deposits, i \in 1..6 : d.row # FillEntry(t, i).row  BY <1>3, <1>4 DEF Locked
    <2>3. \A d \in deposits, i \in 1..6 : FillEntry(t, i).id # d.id
      <3> SUFFICES ASSUME NEW d \in deposits, NEW i \in 1..6 PROVE FillEntry(t, i).id # d.id  OBVIOUS
      <3>1. nextId + i - 1 > d.id  BY <1>1, <2>1
      <3> QED BY <1>1, <1>3, <2>1, <3>1
    <2>4. \A d \in deposits' :
            /\ d.id < nextId'
            /\ \A e \in ledger' : e.id # d.id /\ (e.row = d.row => e.id < d.id)
      <3> SUFFICES ASSUME NEW d \in deposits
                   PROVE  d.id < nextId' /\ \A e \in ledger' : e.id # d.id /\ (e.row = d.row => e.id < d.id)
        BY <1>2
      <3>1. d.id < nextId'  BY <1>1, <1>2, <2>1
      <3>2. \A e \in ledger : e.id # d.id /\ (e.row = d.row => e.id < d.id)  BY DEF PortfolioInv, DepositsOK
      <3> QED BY <1>2, <2>2, <2>3, <3>1, <3>2
    <2> QED BY <1>2, <2>4 DEF PortfolioInv, DepositsOK
  <1>7. PagerOK'  BY <1>2, PagerKept DEF PortfolioInv
  <1> QED BY <1>5, <1>6, <1>7 DEF PortfolioInv
LEMMA GetHistoryStep ==
  ASSUME PortfolioInv, GetHistory
  PROVE  PortfolioInv'
  <1>1. /\ balances' = balances /\ ledger' = ledger /\ nextId' = nextId /\ deposits' = deposits
        /\ pager.at = "paging"
    BY DEF GetHistory
  <1>2. LedgerOK' /\ DepositsOK'  BY <1>1 DEF PortfolioInv, LedgerOK, DepositsOK
  <1>3. /\ pager \in [at: {"paging", "done"}, cursor: Nat \cup {Null}, got: Seq(Entry), present: SUBSET Mine]
        /\ \A i, j \in 1..Len(pager.got) : i < j => pager.got[i].id > pager.got[j].id
        /\ pager.cursor = IF pager.got = <<>> THEN Null ELSE pager.got[Len(pager.got)].id
        /\ \A e \in pager.present :
             (\E i \in 1..Len(pager.got) : pager.got[i] = e) \/ (pager.at = "paging" /\ Behind(e))
    BY <1>1 DEF PortfolioInv, PagerOK
  <1>4. PICK g : g = pager.got  OBVIOUS
  <1>5. g \in Seq(Entry) /\ Len(g) \in Nat /\ \A i \in 1..Len(g) : g[i] \in Entry /\ g[i].id \in Nat
    <2>1. g \in Seq(Entry)  BY <1>3, <1>4
    <2>2. Len(g) \in Nat /\ \A i \in 1..Len(g) : g[i] \in Entry  BY <2>1
    <2>3. \A e \in Entry : e.id \in Nat  BY DEF Entry
    <2> QED BY <2>1, <2>2, <2>3
  <1>6. PICK older : older = {e \in Mine : Behind(e)}  OBVIOUS
  <1>7. PICK page : page = NewestFirst(older, PageLimit)  OBVIOUS
  <1>8. older \subseteq ledger /\ ledger \subseteq Entry /\ IsFiniteSet(ledger)
        /\ \A d, e \in ledger : d.id = e.id => d = e
    BY <1>6 DEF Mine, PortfolioInv, LedgerOK, Account
  <1>9. IsFiniteSet(older) /\ older \subseteq Entry  BY <1>8, FS_Subset
  <1>10. \A e \in Entry : e.id \in Nat  BY DEF Entry
  <1>11. /\ page \in Seq(older) /\ (page = <<>> <=> older = {})
         /\ \A i, j \in 1..Len(page) : i < j => page[i].id > page[j].id
         /\ \A e \in older : \/ \E i \in 1..Len(page) : page[i] = e
                             \/ page # <<>> /\ e.id < page[Len(page)].id
    <2>1. PageLimit \in Nat \ {0}  BY PortfolioAssumption
    <2>2. \A e \in older : e.id \in Nat  BY <1>9, <1>10
    <2>3. \A d, e \in older : d.id = e.id => d = e  BY <1>8
    <2> QED BY <1>7, <1>9, <2>1, <2>2, <2>3, PageIsSorted
  <1>12. pager' = IF page = <<>> THEN [pager EXCEPT !.at = "done"]
                  ELSE [pager EXCEPT !.cursor = Last(page).id, !.got = pager.got \o page]
    BY <1>6, <1>7 DEF GetHistory, LedgerHistory, Behind
  <1>13. Mine' = Mine  BY <1>1 DEF Mine
  <1>14. PagerOK'
    <2>1. CASE page = <<>>
      <3>1. pager' = [pager EXCEPT !.at = "done"]  BY <1>12, <2>1
      <3>2. pager' \in [at: {"paging", "done"}, cursor: Nat \cup {Null}, got: Seq(Entry), present: SUBSET Mine]
            /\ pager'.got = pager.got /\ pager'.cursor = pager.cursor /\ pager'.present = pager.present
        BY <1>3, <3>1
      <3>3. \A e \in pager.present : e \in Mine /\ ~Behind(e)
        BY <1>3, <1>6, <1>11, <2>1
      <3>4. \A e \in pager.present : \E i \in 1..Len(pager.got) : pager.got[i] = e
        BY <1>3, <3>3
      <3> QED BY <1>3, <1>13, <3>2, <3>4 DEF PagerOK
    <2>2. CASE page # <<>>
      <3>1. PICK c : c = page[Len(page)].id  OBVIOUS
      <3>2. Len(page) \in Nat \ {0} /\ \A i \in 1..Len(page) : page[i] \in older /\ page[i].id \in Nat
        <4>1. Len(page) \in Nat /\ Len(page) # 0  BY <1>11, <2>2
        <4>2. \A i \in 1..Len(page) : page[i] \in older  BY <1>11
        <4> QED BY <1>9, <1>10, <4>1, <4>2
      <3>3. c \in Nat  BY <3>1, <3>2
      <3>4. PICK h : h = g \o page  OBVIOUS
      <3>5. pager' = [pager EXCEPT !.cursor = c, !.got = h]
        BY <1>4, <1>12, <2>2, <3>1, <3>4 DEF Last
      <3>6. page \in Seq(Entry)
        <4>1. \A i \in 1..Len(page) : page[i] \in Entry  BY <1>9, <3>2
        <4>2. page = [i \in 1..Len(page) |-> page[i]]  BY <1>11
        <4> QED BY <3>2, <4>1, <4>2
      <3>7. /\ h \in Seq(Entry) /\ Len(h) = Len(g) + Len(page)
            /\ \A i \in 1..Len(h) : h[i] = IF i <= Len(g) THEN g[i] ELSE page[i - Len(g)]
        BY <1>5, <3>4, <3>6, ConcatProperties
      <3>8. pager' \in [at: {"paging", "done"}, cursor: Nat \cup {Null}, got: Seq(Entry), present: SUBSET Mine]
            /\ pager'.got = h /\ pager'.cursor = c /\ pager'.present = pager.present /\ pager'.at = "paging"
        BY <1>1, <1>3, <3>3, <3>5, <3>7
      <3>9. \A i \in 1..Len(g), j \in 1..Len(page) : g[i].id > page[j].id
        <4> SUFFICES ASSUME NEW i \in 1..Len(g), NEW j \in 1..Len(page) PROVE g[i].id > page[j].id
          OBVIOUS
        <4>1. g # <<>> /\ Len(g) \in 1..Len(g)  BY <1>5
        <4>2. pager.cursor = g[Len(g)].id  BY <1>3, <1>4, <4>1
        <4>3. pager.cursor \in Nat /\ pager.cursor # Null  BY <1>5, <4>1, <4>2, PortfolioAssumption
        <4>4. Behind(page[j])  BY <1>6, <3>2
        <4>5. page[j].id < g[Len(g)].id  BY <4>2, <4>3, <4>4 DEF Behind
        <4>6. i = Len(g) \/ g[i].id > g[Len(g)].id  BY <1>3, <1>4, <1>5, <4>1
        <4>7. g[i].id \in Nat /\ g[Len(g)].id \in Nat /\ page[j].id \in Nat  BY <1>5, <3>2, <4>1
        <4> QED BY <4>5, <4>6, <4>7
      <3>10. \A i, j \in 1..Len(h) : i < j => h[i].id > h[j].id
        <4> SUFFICES ASSUME NEW i \in 1..Len(h), NEW j \in 1..Len(h), i < j PROVE h[i].id > h[j].id
          OBVIOUS
        <4>1. CASE j <= Len(g)
          <5>1. i \in 1..Len(g) /\ j \in 1..Len(g) /\ i <= Len(g)  BY <1>5, <4>1
          <5> QED BY <1>3, <1>4, <3>7, <4>1, <5>1
        <4>2. CASE i <= Len(g) /\ ~(j <= Len(g))
          <5>1. i \in 1..Len(g) /\ j - Len(g) \in 1..Len(page)  BY <1>5, <3>2, <3>7, <4>2
          <5> QED BY <3>7, <3>9, <4>2, <5>1
        <4>3. CASE ~(i <= Len(g))
          <5>1. /\ i - Len(g) \in 1..Len(page) /\ j - Len(g) \in 1..Len(page)
                /\ i - Len(g) < j - Len(g) /\ ~(j <= Len(g))
            BY <1>5, <3>2, <3>7, <4>3
          <5> QED BY <1>11, <3>7, <4>3, <5>1
        <4> QED BY <1>5, <4>1, <4>2, <4>3
      <3>11. h # <<>> /\ c = h[Len(h)].id
        <4>1. Len(h) \in 1..Len(h) /\ ~(Len(h) <= Len(g)) /\ Len(h) - Len(g) = Len(page)  BY <1>5, <3>2, <3>7
        <4>2. h[Len(h)] = page[Len(page)]  BY <3>7, <4>1
        <4> QED BY <3>1, <3>7, <4>1, <4>2
      <3>12. ASSUME NEW e \in pager.present
             PROVE  (\E i \in 1..Len(h) : h[i] = e) \/ e.id < c
        <4>1. CASE \E i \in 1..Len(pager.got) : pager.got[i] = e
          <5>1. PICK i \in 1..Len(g) : g[i] = e  BY <1>4, <4>1
          <5>2. i \in 1..Len(h) /\ i <= Len(g)  BY <1>5, <3>2, <3>7
          <5>3. h[i] = e  BY <3>7, <5>1, <5>2
          <5> QED BY <5>2, <5>3
        <4>2. CASE Behind(e)
          <5>1. e \in older  BY <1>3, <1>6, <4>2
          <5>2. CASE \E i \in 1..Len(page) : page[i] = e
            <6>1. PICK i \in 1..Len(page) : page[i] = e  BY <5>2
            <6>2. Len(g) + i \in 1..Len(h) /\ ~(Len(g) + i <= Len(g)) /\ (Len(g) + i) - Len(g) = i
              BY <1>5, <3>2, <3>7
            <6>3. h[Len(g) + i] = e  BY <3>7, <6>1, <6>2
            <6> QED BY <6>2, <6>3
          <5>3. CASE e.id < page[Len(page)].id  BY <3>1, <5>3
          <5> QED BY <1>11, <5>1, <5>2, <5>3
        <4> QED BY <1>3, <4>1, <4>2
      <3>13. \A e \in pager'.present :
               (\E i \in 1..Len(pager'.got) : pager'.got[i] = e) \/ (pager'.at = "paging" /\ Behind(e)')
        BY <3>8, <3>12 DEF Behind
      <3>14. pager'.cursor = IF pager'.got = <<>> THEN Null ELSE pager'.got[Len(pager'.got)].id
        BY <3>8, <3>11
      <3>15. \A i, j \in 1..Len(pager'.got) : i < j => pager'.got[i].id > pager'.got[j].id
        BY <3>8, <3>10
      <3> QED BY <1>13, <3>8, <3>13, <3>14, <3>15 DEF PagerOK
    <2> QED BY <2>1, <2>2
  <1> QED BY <1>2, <1>14 DEF PortfolioInv

LEMMA StartHistoryStep ==
  ASSUME PortfolioInv, StartHistory
  PROVE  PortfolioInv'
  <1>1. /\ balances' = balances /\ ledger' = ledger /\ nextId' = nextId /\ deposits' = deposits
        /\ pager' = [at |-> "paging", cursor |-> Null, got |-> <<>>, present |-> Mine]
    BY DEF StartHistory
  <1>2. LedgerOK' /\ DepositsOK'  BY <1>1 DEF PortfolioInv, LedgerOK, DepositsOK
  <1>3. Mine' = Mine  BY <1>1 DEF Mine
  <1>4. <<>> \in Seq(Entry) /\ Len(<<>>) = 0  OBVIOUS
  <1>5. pager' \in [at: {"paging", "done"}, cursor: Nat \cup {Null}, got: Seq(Entry), present: SUBSET Mine]
        /\ pager'.got = <<>> /\ pager'.cursor = Null /\ pager'.at = "paging"
    BY <1>1, <1>4
  <1>6. PagerOK'  BY <1>3, <1>4, <1>5 DEF PagerOK, Behind
  <1> QED BY <1>2, <1>6 DEF PortfolioInv

(* What reads or writes other tables only. *)
LEMMA OtherStep ==
  ASSUME PortfolioInv, UNCHANGED <<balances, ledger, nextId, deposits, pager>>
  PROVE  PortfolioInv'
  <1>1. LedgerOK' /\ DepositsOK'  BY DEF PortfolioInv, LedgerOK, DepositsOK
  <1>2. PagerOK'  BY PagerKept DEF PortfolioInv
  <1> QED BY <1>1, <1>2 DEF PortfolioInv

LEMMA PortfolioStep ==
  ASSUME PortfolioInv, [Next]_vars
  PROVE  PortfolioInv'
  <1>1. ASSUME NEW slot \in Rows, NEW amount \in 0..(FaucetMax + 1), Faucet(slot, amount) PROVE PortfolioInv'
    BY <1>1, FaucetStep
  <1>2. ASSUME NEW d \in deposits, FaucetCommits(d) \/ FaucetFails(d) PROVE PortfolioInv'
    BY <1>2, FaucetCommitsStep, FaucetFailsStep
  <1>3. ASSUME NEW t \in Trades, SettleFill(t) PROVE PortfolioInv'  BY <1>3, SettleFillStep
  <1>4. ASSUME NEW p \in Prices, NewPrice(p) PROVE PortfolioInv'  BY <1>4, OtherStep DEF NewPrice
  <1>5. CASE StartHistory  BY <1>5, StartHistoryStep
  <1>6. CASE GetHistory  BY <1>6, GetHistoryStep
  <1>7. ASSUME NEW step \in {"idle", "balances", "prices"}, PnlReads(step) PROVE PortfolioInv'
    BY <1>7, OtherStep DEF PnlReads
  <1>8. ASSUME NEW r \in ProofRequests, ReadLiabilities(r) \/ LatestSnapshot(r) \/ InsertSnapshot(r)
        PROVE PortfolioInv'
    <2>1. UNCHANGED <<balances, ledger, nextId, deposits, pager>>
      BY <1>8 DEF ReadLiabilities, LatestSnapshot, InsertSnapshot
    <2> QED BY <2>1, OtherStep
  <1>9. CASE UNCHANGED vars  BY <1>9, OtherStep DEF vars
  <1> QED BY <1>1, <1>2, <1>3, <1>4, <1>5, <1>6, <1>7, <1>8, <1>9 DEF Next, Money, Reading, Proving

LEMMA PortfolioStarts ==
  ASSUME Init
  PROVE  PortfolioInv
  <1>1. balances \in [Rows -> Nat]  BY PortfolioAssumption DEF Init
  <1>2. IsFiniteSet({})  BY FS_EmptySet
  <1> QED BY <1>1, <1>2 DEF Init, PortfolioInv, LedgerOK, DepositsOK, PagerOK, Account

LEMMA PortfolioSays ==
  ASSUME PortfolioInv
  PROVE  HistoryRuns
  <1>1. PortfolioTypeOK  BY DEF PortfolioInv, LedgerOK, DepositsOK, PortfolioTypeOK
  <1>2. Account(ledger, balances)  BY DEF PortfolioInv, LedgerOK
  <1>3. pager.at # "idle" =>
          \A i, j \in DOMAIN pager.got : i < j => pager.got[i].id > pager.got[j].id
    <2> SUFFICES ASSUME pager.at # "idle"
                 PROVE  \A i, j \in DOMAIN pager.got : i < j => pager.got[i].id > pager.got[j].id
      OBVIOUS
    <2>1. /\ pager.got \in Seq(Entry)
          /\ \A i, j \in 1..Len(pager.got) : i < j => pager.got[i].id > pager.got[j].id
      BY DEF PortfolioInv, PagerOK
    <2> QED BY <2>1
  <1>4. pager.at = "done" => pager.present \subseteq ToSet(pager.got)
    <2> SUFFICES ASSUME pager.at = "done", NEW e \in pager.present PROVE e \in ToSet(pager.got)
      OBVIOUS
    <2>1. pager.got \in Seq(Entry) /\ \E i \in 1..Len(pager.got) : pager.got[i] = e
      BY DEF PortfolioInv, PagerOK
    <2> QED BY <2>1 DEF ToSet
  <1>5. \A slot \in Rows : LET of == {e \in ledger : e.row = slot} IN \A e \in of :
          LET newer == {d \in of : d.id > e.id} IN
          IF newer = {} THEN e.after = balances[slot]
          ELSE LET d == CHOOSE d \in newer : \A x \in newer : d.id <= x.id
               IN  d.after - d.amount = e.after
    BY <1>2, RunningAccount
  <1> QED BY <1>1, <1>3, <1>4, <1>5 DEF HistoryRuns

(* get_history and apply_faucet: whatever faucet and settlement add, fail  *)
(* and commit meanwhile, a client that pages through its ledger gets every *)
(* entry that was there at the start once, the newest first, and the       *)
(* entries of an asset are a running account that ends at the balance.     *)
THEOREM HistoryIsAccount == Spec => []HistoryRuns
  <1>1. Init => PortfolioInv  BY PortfolioStarts
  <1>2. PortfolioInv /\ [Next]_vars => PortfolioInv'  BY PortfolioStep
  <1>3. PortfolioInv => HistoryRuns  BY PortfolioSays
  <1> QED BY <1>1, <1>2, <1>3, PTL DEF Spec
=============================================================================
