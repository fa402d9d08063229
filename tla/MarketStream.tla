---------------------------- MODULE MarketStream ----------------------------
(* The path of market data from the engine's event stream to one browser:  *)
(* the reader task of the API's engine client, the hub with a broadcast    *)
(* channel per topic and a replay buffer of book diffs, and the task of a  *)
(* WebSocket connection with one forwarder per subscription.               *)
(* services/api/src/ws/hub.rs, services/api/src/handlers/ws.rs             *)
EXTENDS Integers, Sequences, FiniteSets, SequencesExt

CONSTANTS
  None,
  PipeCapacity,   \* ENGINE_EVENT_CHANNEL, between reader task and hub
  Capacity,       \* CHANNEL_CAPACITY of a broadcast channel
  ReplayWindow,   \* REPLAY_WINDOW
  PongDeadline,   \* PONG_DEADLINE
  HeartbeatInterval,
  Subscribes,     \* bound: the subscribe messages, [chans, after]
  Unsubscribes,   \* bound: the unsubscribe messages, sequences of channels
  MaxSeq,         \* bound: engine events
  MaxMessages,    \* bound: client messages
  MaxTime,        \* bound: clock
  Workloads       \* bound: what may happen together in one behaviour: event kinds,
                  \* channels, the client's abilities ("token", "pong"), the clock

Chan    == {"book", "trade", "orders", "fills", "ticker"}
Private == {"orders", "fills"}
Kinds   == {"delta", "fill", "order", "other"}

ASSUME StreamAssumption ==
  /\ PipeCapacity \in Nat \ {0} /\ Capacity \in Nat \ {0}
  /\ {ReplayWindow, PongDeadline, HeartbeatInterval} \subseteq Nat \ {0}
  /\ {MaxSeq, MaxMessages, MaxTime} \subseteq Nat
  /\ Subscribes \subseteq [chans: Seq(Chan), after: Nat \cup {None}]
  /\ Unsubscribes \subseteq Seq(Chan)

(* The engine's events, the buffered diffs, a subscribe message in         *)
(* progress with the book frames its handler has read and not yet queued,  *)
(* a forwarder and a frame on its way to the socket.                       *)
Event     == [kind: Kinds, seq: Nat]
Entry     == [at: Nat, seq: Nat]
Task      == [todo: Seq(Chan), after: Nat \cup {None}, step: {"check", "snapshot", "send"},
              held: Seq(Nat)]
Forwarder == [chan: Chan, pos: Nat, from: Nat, live: BOOLEAN]
What      == Chan \cup {"answer", "ack", "forbidden", "gap", "lag"}
Frame     == Nat \X What \X Nat

(* None is no channel's history and no subscribe message. *)
ASSUME NoneAssumption == None \notin Seq(Nat) /\ None \notin Task

VARIABLES
  now,       \* the clock
  seq,       \* events the engine has numbered
  pipe,      \* mpsc channel from the reader task to Hub::run
  sender,    \* Hub::senders: per channel what was published, None before the first subscribe
  replay,    \* Hub::replay of the book channel, [at, seq]
  ticked,    \* when the ticker task last ran
  conn,      \* "new", "open", "closed", "timeout"
  awaiting,  \* awaiting_pong
  pinged,    \* when the last ping was sent
  due,       \* when the heartbeat interval ticks next
  subs,      \* subscriptions
  task,      \* the subscribe message in progress
  fwd,       \* forwarder tasks, [chan, pos, from, live]
  out,       \* every frame queued for the socket, <<forwarder, what, seq>>
  flushed,   \* frames the socket has taken
  heard,     \* client messages so far
  load       \* the workload

hub    == <<seq, pipe, sender, replay, ticked>>
beat   == <<conn, awaiting, pinged, due>>
peer   == <<subs, task, fwd, out, flushed, heard>>
vars   == <<now, hub, beat, peer, load>>

Init ==
  /\ now = 0 /\ seq = 0 /\ pipe = <<>> /\ ticked = 0
  /\ sender = [c \in Chan |-> None] /\ replay = <<>>
  /\ conn = "new" /\ awaiting = FALSE /\ pinged = 0 /\ due = 0
  /\ subs = {} /\ task = None /\ fwd = <<>> /\ out = <<>> /\ flushed = 0 /\ heard = 0
  /\ load \in Workloads

Tick ==
  /\ "time" \in load /\ now < MaxTime
  /\ now' = now + 1
  /\ UNCHANGED <<hub, beat, peer, load>>

-----------------------------------------------------------------------------
(* Engine to hub.                                                          *)

(* reader_loop: an event goes into the channel if there is room (try_send) *)
(* and is dropped otherwise.                                               *)
TrySend(e) == IF Len(pipe) < PipeCapacity THEN Append(pipe, e) ELSE pipe

EngineEvent(k) ==
  /\ k \in load /\ seq < MaxSeq
  /\ seq' = seq + 1
  /\ pipe' = TrySend([kind |-> k, seq |-> seq + 1])
  /\ UNCHANGED <<now, sender, replay, ticked, beat, peer, load>>

(* Hub::publish: without a sender there is nobody to send to. *)
Publish(chans, s) ==
  [c \in Chan |-> IF c \in chans /\ sender[c] # None THEN Append(sender[c], s) ELSE sender[c]]

(* The channels dispatch publishes an event of this kind to. *)
Targets(k) ==
  CASE k = "delta" -> {"book"}
    [] k = "fill"  -> {"trade", "fills"}
    [] k = "order" -> {"orders"}
    [] OTHER       -> {}

(* Entries are pushed in the order of their time, so those that are too    *)
(* old are the first ones.                                                 *)
Expired == {i \in DOMAIN replay : now - replay[i].at >= ReplayWindow}
Recent  == SubSeq(replay, Cardinality(Expired) + 1, Len(replay))

(* publish and, for a book delta, publish_with_replay's push.              *)
Dispatch ==
  /\ pipe # <<>>
  /\ LET e == Head(pipe) IN
       /\ sender' = Publish(Targets(e.kind), e.seq)
       /\ replay' = IF e.kind = "delta" THEN Append(Recent, [at |-> now, seq |-> e.seq])
                    ELSE replay
  /\ pipe' = Tail(pipe)
  /\ UNCHANGED <<now, seq, ticked, beat, peer, load>>

(* run_ticker: once a second, nothing when the query fails. *)
PublishTicker ==
  /\ "ticker" \in load /\ ticked < now
  /\ ticked' = now
  /\ sender' \in {Publish({"ticker"}, now), sender}
  /\ UNCHANGED <<now, seq, pipe, replay, beat, peer, load>>

(* replay_diffs: the whole buffer, or None when after_seq is larger than   *)
(* the number of buffered frames (or nothing was ever buffered).           *)
ReplayDiffs(after) ==
  IF replay = <<>> \/ after > Len(Recent) THEN None
  ELSE [i \in DOMAIN Recent |-> Recent[i].seq]

-----------------------------------------------------------------------------
(* The connection task.                                                    *)

(* tokio::time::interval(period): its first tick is due at once. *)
Interval(period) == now

Open ==
  /\ conn = "new"
  /\ conn' = "open" /\ due' = Interval(HeartbeatInterval)
  /\ UNCHANGED <<now, hub, awaiting, pinged, peer, load>>

(* The select loop is between two messages: nothing is being handled.      *)
Selecting == conn = "open" /\ task = None

Queue(frames) == out' = out \o frames
Reply(what)   == Queue(<<<<0, what, 0>>>>)

(* The loop ends: every forwarder is aborted. *)
Break(why) ==
  /\ conn' = why
  /\ fwd' = [i \in DOMAIN fwd |-> [fwd[i] EXCEPT !.live = FALSE]]
  /\ UNCHANGED <<now, hub, awaiting, pinged, due, subs, task, out, flushed, heard, load>>

ClientCloses == "close" \in load /\ Selecting /\ Break("closed")

Flush ==
  /\ "flush" \in load /\ Selecting /\ flushed < Len(out)
  /\ flushed' = flushed + 1
  /\ UNCHANGED <<now, hub, beat, subs, task, fwd, out, heard, load>>

FlushFails == "close" \in load /\ Selecting /\ flushed < Len(out) /\ Break("closed")

(* A mutant: the ping is sent but not waited for. *)
HeartbeatPingNoWait ==
  /\ "beat" \in load /\ Selecting /\ due <= now /\ ~awaiting
  /\ pinged' = now /\ due' = Interval(PongDeadline)
  /\ UNCHANGED <<now, hub, conn, awaiting, peer, load>>

HeartbeatPing ==
  /\ "beat" \in load /\ Selecting /\ due <= now /\ ~awaiting
  /\ awaiting' = TRUE /\ pinged' = now
  /\ due' = Interval(PongDeadline)
  /\ UNCHANGED <<now, hub, conn, peer, load>>

(* The ping cannot be sent. *)
HeartbeatPingFails ==
  /\ {"beat", "close"} \subseteq load /\ Selecting /\ due <= now /\ ~awaiting
  /\ Break("closed")

HeartbeatTimeout ==
  /\ "beat" \in load /\ Selecting /\ due <= now /\ awaiting
  /\ Break("timeout")

Pong ==
  /\ Selecting /\ "pong" \in load /\ awaiting
  /\ awaiting' = FALSE
  /\ UNCHANGED <<now, hub, conn, pinged, due, peer, load>>

-----------------------------------------------------------------------------
(* handle_client_message.                                                  *)

Hears == "client" \in load /\ Selecting /\ heard < MaxMessages /\ heard' = heard + 1

(* "ping", an unknown method, a message that is not JSON. *)
Answer ==
  /\ "chat" \in load /\ Hears /\ Reply("answer")
  /\ UNCHANGED <<now, hub, beat, subs, task, fwd, flushed, load>>

Subscribe(m) ==
  /\ Hears /\ ToSet(m.chans) \subseteq load
  /\ task' = [todo |-> m.chans, after |-> m.after, step |-> "check", held |-> <<>>]
  /\ UNCHANGED <<now, hub, beat, subs, fwd, out, flushed, load>>

(* The forwarders of the channels are left alone. *)
Unsubscribe(chans) ==
  /\ "leave" \in load /\ Hears /\ ToSet(chans) \subseteq load
  /\ subs' = subs \ ToSet(chans)
  /\ Reply("ack")
  /\ UNCHANGED <<now, hub, beat, task, fwd, flushed, load>>

Busy(step) == conn = "open" /\ task # None /\ task.step = step
Working    == Busy("check") /\ task.todo # <<>>
This       == Head(task.todo)
Advance    == task' = [task EXCEPT !.todo = Tail(@), !.step = "check"]

(* A mutant: the token is not looked at. *)
ForbiddenNever(c) == FALSE

Forbidden(c) == c \in Private /\ "token" \notin load

SubForbidden ==
  /\ Working /\ Forbidden(This)
  /\ Reply("forbidden") /\ Advance
  /\ UNCHANGED <<now, hub, beat, subs, fwd, flushed, heard, load>>

SubAlready ==
  /\ Working /\ ~Forbidden(This) /\ This \in subs
  /\ Advance
  /\ UNCHANGED <<now, hub, beat, subs, fwd, out, flushed, heard, load>>

NewBook == Working /\ This = "book" /\ This \notin subs

(* send_book_snapshot with a sequence number: the buffered diffs are read, *)
(* or the GAP_TOO_LARGE frame is sent and a snapshot asked for.            *)
SubReplay ==
  /\ NewBook /\ task.after # None
  /\ LET frames == ReplayDiffs(task.after) IN
       IF frames # None
       THEN /\ task' = [task EXCEPT !.step = "send", !.held = frames]
            /\ out' = out
       ELSE /\ task' = [task EXCEPT !.step = "snapshot"]
            /\ Reply("gap")
  /\ UNCHANGED <<now, hub, beat, subs, fwd, flushed, heard, load>>

SubAskSnapshot ==
  /\ NewBook /\ task.after = None
  /\ task' = [task EXCEPT !.step = "snapshot"]
  /\ UNCHANGED <<now, hub, beat, subs, fwd, out, flushed, heard, load>>

(* The engine reads its book and its number; an error sends no frame and   *)
(* the subscription goes on.                                               *)
SubSnapshot ==
  /\ Busy("snapshot")
  /\ \E read \in {<<seq>>, <<>>} : task' = [task EXCEPT !.step = "send", !.held = read]
  /\ UNCHANGED <<now, hub, beat, subs, fwd, out, flushed, heard, load>>

(* The answer has come back, or the loop over the replayed frames goes on: *)
(* one frame is queued.  Forwarders of an earlier subscription run on      *)
(* other threads in between.                                               *)
SubSend ==
  /\ Busy("send") /\ task.held # <<>>
  /\ Queue(<<<<0, "book", Head(task.held)>>>>)
  /\ task' = [task EXCEPT !.held = Tail(@)]
  /\ UNCHANGED <<now, hub, beat, subs, fwd, flushed, heard, load>>

(* hub.subscribe and spawn_forwarder: the receiver starts behind what was  *)
(* published so far.                                                       *)
Receiver(c) ==
  LET p == IF sender[c] = None THEN 1 ELSE Len(sender[c]) + 1
  IN [chan |-> c, pos |-> p, from |-> p, live |-> TRUE]

SubJoin ==
  /\ (Busy("send") /\ task.held = <<>>) \/ (Working /\ ~Forbidden(This) /\ This \notin subs /\ This # "book")
  /\ sender' = [sender EXCEPT ![This] = IF @ = None THEN <<>> ELSE @]
  /\ fwd' = Append(fwd, Receiver(This))
  /\ subs' = subs \cup {This}
  /\ Advance
  /\ UNCHANGED <<now, seq, pipe, replay, ticked, beat, out, flushed, heard, load>>

SubDone ==
  /\ Busy("check") /\ task.todo = <<>>
  /\ Reply("ack") /\ task' = None
  /\ UNCHANGED <<now, hub, beat, subs, fwd, flushed, heard, load>>

-----------------------------------------------------------------------------
(* spawn_forwarder's task.                                                 *)

Waiting(f) == fwd[f].live /\ sender[fwd[f].chan] # None
              /\ fwd[f].pos <= Len(sender[fwd[f].chan])
Lagged(f)  == Len(sender[fwd[f].chan]) - fwd[f].pos >= Capacity

ForwardFrame(f) ==
  /\ Waiting(f) /\ ~Lagged(f)
  /\ LET c == fwd[f].chan IN Queue(<<<<f, c, sender[c][fwd[f].pos]>>>>)
  /\ fwd' = [fwd EXCEPT ![f].pos = @ + 1]
  /\ UNCHANGED <<now, hub, beat, subs, task, flushed, heard, load>>

Oldest(f) == Len(sender[fwd[f].chan]) - Capacity + 1

(* Mutants: the lag is only logged; the forwarder skips to the end.        *)
ForwardLagSilent(f) ==
  /\ Waiting(f) /\ Lagged(f)
  /\ fwd' = [fwd EXCEPT ![f].pos = Oldest(f)]
  /\ UNCHANGED <<now, hub, beat, subs, task, out, flushed, heard, load>>
ForwardLagSkips(f) ==
  /\ Waiting(f) /\ Lagged(f)
  /\ Queue(<<<<f, "lag", 0>>>>)
  /\ fwd' = [fwd EXCEPT ![f].pos = Oldest(f) + Capacity]
  /\ UNCHANGED <<now, hub, beat, subs, task, flushed, heard, load>>

(* RecvError::Lagged: the GAP_TOO_LARGE frame, and on with the oldest      *)
(* frame the channel still holds.                                          *)
ForwardLag(f) ==
  /\ Waiting(f) /\ Lagged(f)
  /\ Queue(<<<<f, "lag", 0>>>>)
  /\ fwd' = [fwd EXCEPT ![f].pos = Oldest(f)]
  /\ UNCHANGED <<now, hub, beat, subs, task, flushed, heard, load>>

-----------------------------------------------------------------------------
Feed ==
  \/ \E k \in Kinds : EngineEvent(k)
  \/ Dispatch \/ PublishTicker

Beat == HeartbeatPing \/ HeartbeatTimeout

Work ==
  \/ SubForbidden \/ SubAlready \/ SubReplay \/ SubAskSnapshot
  \/ SubSnapshot \/ SubSend \/ SubJoin \/ SubDone

Message ==
  \/ Answer \/ Pong \/ ClientCloses \/ Open
  \/ \E m \in Subscribes : Subscribe(m)
  \/ \E c \in Unsubscribes : Unsubscribe(c)

Forward == \E f \in DOMAIN fwd : ForwardFrame(f) \/ ForwardLag(f)

Next == Tick \/ Feed \/ Beat \/ Work \/ Message \/ Forward \/ Flush \/ FlushFails
        \/ HeartbeatPingFails

(* The connection task runs, its handler returns (the engine answers or    *)
(* times out), and select! chooses fairly among the branches that are      *)
(* ready, so a due heartbeat is taken even if messages keep coming.        *)
Spec == Init /\ [][Next]_vars /\ WF_vars(Work) /\ SF_vars(Beat)

-----------------------------------------------------------------------------
(* Type invariant of hub and connection. *)
StreamTypeOK ==
  /\ now \in 0..MaxTime /\ seq \in 0..MaxSeq /\ heard \in 0..MaxMessages
  /\ pipe \in Seq(Event) /\ Len(pipe) <= PipeCapacity
  /\ sender \in [Chan -> Seq(Nat) \cup {None}] /\ replay \in Seq(Entry)
  /\ conn \in {"new", "open", "closed", "timeout"} /\ awaiting \in BOOLEAN
  /\ subs \subseteq Chan /\ task \in Task \cup {None}
  /\ fwd \in Seq(Forwarder) /\ \A f \in DOMAIN fwd : fwd[f].pos >= fwd[f].from
  /\ out \in Seq(Frame) /\ flushed \in 0..Len(out)

(* Private channels are forwarded only on a connection with a token.       *)
PrivateNeedsToken == \A f \in DOMAIN fwd : fwd[f].chan \in Private => "token" \in load

(* The state is well formed, and no forwarder of a private channel exists  *)
(* without a token, whatever the order of the subscribe messages.          *)
StreamInv == StreamTypeOK /\ PrivateNeedsToken

(* What forwarder f has queued, by index; and the last of it before j.     *)
Of(f)          == {i \in DOMAIN out : out[i][1] = f}
Frames(f)      == {i \in Of(f) : out[i][2] # "lag"}
Previous(f, j) == {i \in Of(f) : i < j /\ \A k \in Of(f) : k < j => k <= i}

(* A subscriber misses nothing in silence: from the moment it has joined,  *)
(* a forwarder hands over every frame of its channel in order, and where   *)
(* it leaves some out it has queued a GAP_TOO_LARGE frame instead, however *)
(* publishing, unsubscribing and joining again interleave.                 *)
NoSilentGap ==
  \A f \in DOMAIN fwd : \A j \in Frames(f) :
    /\ \A i \in Frames(f) : i < j => out[i][3] < out[j][3]
    /\ \E p \in DOMAIN sender[fwd[f].chan] :
         /\ out[j][3] = sender[fwd[f].chan][p]
         /\ Previous(f, j) = {} => p = fwd[f].from
         /\ \A i \in Previous(f, j) \cap Frames(f) :
              p > 1 /\ out[i][3] = sender[fwd[f].chan][p - 1]

BookFrames    == {i \in DOMAIN out : out[i][2] = "book"}
BookForwarder == {f \in DOMAIN fwd : fwd[f].chan = "book"}
Drained       == \A f \in DOMAIN fwd : ~Waiting(f)

(* A delta has been published since forwarder f joined. *)
Served(f) == f \in BookForwarder /\ Len(sender["book"]) >= fwd[f].from

(* The book is the newest published one. *)
Newest(i) == out[i][3] >= Last(sender["book"])

(* A subscriber of the book ends up with the current book: every delta     *)
(* carries the whole book, so once the hub and the forwarders have caught  *)
(* up with a delta published after a subscription joined,                  *)
(*  - some frame is the newest book, so a client that keeps the frame with *)
(*    the highest number is current, and                                   *)
(*  - if it was the last subscription of the connection, the last frame is *)
(*    the newest book, so a client that keeps what came last is current    *)
(* whatever replays, snapshots that were overtaken while the engine's      *)
(* answer was awaited, forwarders left over from earlier subscriptions and *)
(* lag have queued before.                                                 *)
QuietClientCurrent ==
  Drained /\ conn = "open" => \A f \in BookForwarder : Served(f) =>
    /\ \E i \in BookFrames : Newest(i)
    /\ (\A g \in BookForwarder : g <= f) /\ ~Busy("snapshot") /\ ~Busy("send") =>
         \E i \in BookFrames : Newest(i) /\ \A k \in BookFrames : k <= i

(* A client that does not answer pings is disconnected. *)
SilentClientClosed ==
  ("beat" \in load /\ conn = "open" /\ "pong" \notin load) ~> (conn \in {"closed", "timeout"})

-----------------------------------------------------------------------------
(* Statements that the code does not meet. *)

(* The last frame is the newest book for a client that has subscribed      *)
(* again, too.  A forwarder left over from the earlier subscription may    *)
(* queue a delta while the answer to the snapshot request is awaited; the  *)
(* older snapshot then comes last, and stays last until the next delta.    *)
LastFrameCurrent ==
  Drained /\ Selecting => \A f \in BookForwarder : Served(f) =>
    \E i \in BookFrames : Newest(i) /\ \A k \in BookFrames : k <= i

(* PRD 11.1: "client must pong within 30s or be disconnected".  The        *)
(* interval that watches the deadline ticks at once, so a client is        *)
(* dropped unless its pong beats the next turn of the loop.                *)
OnlyLateClientsDropped == conn = "timeout" => now - pinged >= PongDeadline
=============================================================================
