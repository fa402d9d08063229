----------------------------- MODULE EngineLink -----------------------------
(* The multiplexed TCP client the API's handlers share to reach the        *)
(* engine: a write half behind a mutex, one reader task per connection and *)
(* a map of pending requests keyed by the X-Request-Id of the HTTP request; *)
(* at the other end the engine's accept loop and one handler task per      *)
(* connection.                                                             *)
(* services/api/src/engine_client.rs, engine/crates/server/src/server.rs   *)
EXTENDS Naturals, Sequences, FiniteSets, SequencesExt

CONSTANTS
  None,
  MaxTasks,    \* bound: handler tasks of the API at work at the same time
  MaxConns,    \* bound: connections ever made
  MaxRequests  \* bound: HTTP requests and direct orders

Rid  == 1..MaxRequests
Conn == 1..MaxConns
Tasks == 1..MaxTasks

ASSUME LinkAssumption == MaxConns \in Nat \ {0} /\ {MaxTasks, MaxRequests} \subseteq Nat

VARIABLES
  up,       \* the engine process is listening
  conn,     \* per connection: state, unread requests, unread responses, reader task
  writer,   \* EngineClient::writer: the connection of the write half, None when disconnected
  pending,  \* EngineClient::pending: per X-Request-Id the task whose sender is kept
  call,     \* per task the EngineClient::send in progress
  wireId    \* per request its X-Request-Id, which a client may choose

linkVars == <<up, conn, writer, pending, call>>

(* Requests that came with an X-Request-Id another one came with. *)
Reused(r) == \E s \in Rid \ {r} : wireId[s] = wireId[r]

LinkInit ==
  /\ up = TRUE /\ writer = None /\ pending = [i \in Rid |-> None]
  /\ conn = [g \in Conn |-> [state |-> "unused", req |-> <<>>, resp |-> <<>>, reader |-> "none"]]
  /\ call = [t \in Tasks |-> None] /\ wireId = [r \in Rid |-> r]

-----------------------------------------------------------------------------
(* send.                                                                   *)

Io       == [op |-> "io"]
TimedOut == [op |-> "timeout"]

(* A sender that leaves the map without an answer fails its call. *)
Dropped(ids) ==
  [t \in Tasks |-> IF \E i \in ids : pending[i] = t THEN [call[t] EXCEPT !.got = Io] ELSE call[t]]

(* The sender goes into the map before anything is written, in place of    *)
(* the one that is there under the same id.                                *)
Send(t, q, i) ==
  /\ call' = [Dropped({i}) EXCEPT ![t] = [req |-> q, step |-> "write", got |-> None]]
  /\ pending' = [pending EXCEPT ![i] = t]
  /\ UNCHANGED <<up, conn, writer>>

Writing(t)   == call[t] # None /\ call[t].step = "write"
Written(t)   == call' = [call EXCEPT ![t].step = "wait"]
Broken       == writer # None /\ conn[writer].state = "broken"
IdOf(t)      == wireId[call[t].req.rid]

(* write_or_reconnect on a connection that works, or whose loss has not    *)
(* been noticed, or that nobody reads: the bytes are taken and go nowhere. *)
WriteFrame(t) ==
  /\ Writing(t) /\ writer # None
  /\ conn' = IF conn[writer].state # "up" THEN conn ELSE [conn EXCEPT ![writer].req = Append(@, call[t].req)]
  /\ Written(t)
  /\ UNCHANGED <<up, writer, pending>>

(* Without a writer, or when writing fails, the same lock is used to       *)
(* connect, write the frame and start a reader.                            *)
Reconnect(t) ==
  /\ Writing(t) /\ up /\ (writer = None \/ Broken)
  /\ \E g \in Conn :
       /\ conn[g].state = "unused" /\ \A h \in Conn : h < g => conn[h].state # "unused"
       /\ conn' = [conn EXCEPT ![g] = [state |-> "up", req |-> <<call[t].req>>,
                                       resp |-> <<>>, reader |-> "reading"]]
       /\ writer' = g
  /\ Written(t)
  /\ UNCHANGED <<up, pending>>

(* Connecting fails while the engine is down (and at the bound on          *)
(* connections, where it may fail just as well).  The entry is removed,    *)
(* whoever's sender it holds by now.                                       *)
ConnectFails(t) ==
  /\ Writing(t) /\ (writer = None \/ Broken)
  /\ ~up \/ \A g \in Conn : conn[g].state # "unused"
  /\ writer' = None
  /\ pending' = [pending EXCEPT ![IdOf(t)] = None]
  /\ call' = [Dropped({IdOf(t)}) EXCEPT ![t].step = "wait", ![t].got = Io]
  /\ UNCHANGED <<up, conn>>

(* timeout(self.timeout, rx): the entry is removed, in the poll in which   *)
(* the time has passed.                                                    *)
Timeout(t) ==
  /\ call[t] # None /\ call[t].step = "wait" /\ call[t].got = None
  /\ call' = [call EXCEPT ![t].got = TimedOut]
  /\ pending' = [pending EXCEPT ![IdOf(t)] = None]
  /\ UNCHANGED <<up, conn, writer>>

Returned(t) == call[t] # None /\ call[t].step = "wait" /\ call[t].got # None

(* What the client's methods make of an answer: it has to be an ack of the *)
(* kind asked for; a halt and a resume have the same one.                  *)
AckKind(op) == IF op \in {"halt", "resume"} THEN "market_status" ELSE op
Failed(t) ==
  \/ call[t].got \in {Io, TimedOut}
  \/ ~call[t].got.ok
  \/ AckKind(call[t].got.op) # AckKind(call[t].req.op)

-----------------------------------------------------------------------------
(* reader_loop.                                                            *)

ReadResponse(g) ==
  /\ conn[g].reader = "reading" /\ conn[g].resp # <<>>
  /\ LET a == Head(conn[g].resp)
         t == pending[wireId[a.rid]]
     IN /\ pending' = [pending EXCEPT ![wireId[a.rid]] = None]
        /\ call' = IF t = None THEN call ELSE [call EXCEPT ![t].got = a]
  /\ conn' = [conn EXCEPT ![g].resp = Tail(@)]
  /\ UNCHANGED <<up, writer>>

(* End of file or an error: the write half is dropped, whichever           *)
(* connection it belongs to by now ...                                     *)
ReaderEnds(g) ==
  /\ conn[g].reader = "reading" /\ conn[g].resp = <<>> /\ conn[g].state = "broken"
  /\ writer' = None
  /\ conn' = [conn EXCEPT ![g].reader = "clearing"]
  /\ UNCHANGED <<up, pending, call>>

(* A mutant: the senders stay in the map. *)
ReaderClearsNothing(g) ==
  /\ conn[g].reader = "clearing"
  /\ conn' = [conn EXCEPT ![g].reader = "done"]
  /\ UNCHANGED <<up, writer, pending, call>>

(* ... and then every pending sender. *)
ReaderClears(g) ==
  /\ conn[g].reader = "clearing"
  /\ pending' = [i \in Rid |-> None]
  /\ call' = Dropped(Rid)
  /\ conn' = [conn EXCEPT ![g].reader = "done"]
  /\ UNCHANGED <<up, writer>>

-----------------------------------------------------------------------------
(* handle_connection and the network.                                      *)

CanServe(g) == up /\ conn[g].state = "up" /\ conn[g].req # <<>>

(* One request is answered on the connection it came from. *)
Serve(g, answer) ==
  /\ CanServe(g)
  /\ conn' = [conn EXCEPT ![g].req = Tail(@), ![g].resp = Append(@, answer)]
  /\ UNCHANGED <<up, writer, pending, call>>

(* Reading, handling or answering a request fails and the handler returns. *)
(* The tasks that write answers and events keep the socket open, but       *)
(* nobody reads it any more.                                               *)
GoesDeaf(g) ==
  /\ CanServe(g)
  /\ conn' = [conn EXCEPT ![g].req = <<>>, ![g].state = "deaf"]
  /\ UNCHANGED <<up, writer, pending, call>>

(* The client dropped the write half: once the requests are read, the      *)
(* handler sees end of file and closes; its answers still arrive.          *)
ServerSeesEof(g) ==
  /\ up /\ conn[g].state = "up" /\ writer # g /\ conn[g].req = <<>>
  /\ conn' = [conn EXCEPT ![g].state = "broken"]
  /\ UNCHANGED <<up, writer, pending, call>>

Open(c) == c.state \in {"up", "deaf"}
Lost(c) == IF Open(c) THEN [c EXCEPT !.state = "broken", !.req = <<>>, !.resp = <<>>] ELSE c

(* A connection breaks with whatever was on its way. *)
NetworkBreaks(g) ==
  /\ Open(conn[g])
  /\ conn' = [conn EXCEPT ![g] = Lost(@)]
  /\ UNCHANGED <<up, writer, pending, call>>

EngineDies ==
  /\ up
  /\ up' = FALSE
  /\ conn' = [g \in Conn |-> Lost(conn[g])]
  /\ UNCHANGED <<writer, pending, call>>

EngineStarts ==
  /\ ~up /\ up' = TRUE
  /\ UNCHANGED <<conn, writer, pending, call>>

-----------------------------------------------------------------------------
Sending(t) == WriteFrame(t) \/ Reconnect(t) \/ ConnectFails(t)
Reader(g) == ReadResponse(g) \/ ReaderEnds(g) \/ ReaderClears(g)
=============================================================================
