------------------------- MODULE MarketStreamProofs -------------------------
(***************************************************************************)
(* For any capacities, windows, messages and bounds: no frame of a channel *)
(* is left out in silence, a client whose forwarders have caught up has    *)
(* the current book, and private channels need a token.                    *)
(***************************************************************************)
EXTENDS MarketStream, Sums, SequenceTheorems

(* Everything published on c so far, empty before the first subscribe. *)
History(c) == IF sender[c] = None THEN <<>> ELSE sender[c]

Increasing(s) == \A i, j \in DOMAIN s : i < j => s[i] < s[j]

(* Numbers only grow on their way from the engine to the hub: what is      *)
(* published is older than what waits in the pipe.  The ticker counts by   *)
(* its own clock.                                                          *)
HubOK ==
  /\ ticked \in Nat /\ ticked <= now
  /\ \A i \in DOMAIN pipe : pipe[i].seq <= seq
  /\ \A i, j \in DOMAIN pipe : i < j => pipe[i].seq < pipe[j].seq
  /\ \A c \in Chan : Increasing(History(c))
  /\ \A c \in Chan \ {"ticker"} : \A k \in DOMAIN History(c) :
       /\ History(c)[k] <= seq
       /\ \A i \in DOMAIN pipe : History(c)[k] < pipe[i].seq
  /\ \A k \in DOMAIN History("ticker") : History("ticker")[k] <= ticked

(* The connection: a book is being joined in the later steps of a          *)
(* subscribe message, forwarders exist once the connection is open, and    *)
(* live until it is closed.                                                *)
ConnOK ==
  /\ task # None /\ task.step # "check" => task.todo # <<>> /\ Head(task.todo) = "book"
  /\ conn = "new" => fwd = <<>> /\ task = None
  /\ conn = "open" => \A f \in DOMAIN fwd : fwd[f].live
  /\ \A f \in DOMAIN fwd : sender[fwd[f].chan] # None

LastOf(f) == {i \in Of(f) : \A k \in Of(f) : k <= i}

(* What forwarder f has queued agrees with its position: it has handed     *)
(* over the frame before it, or told of a gap and has more to hand over,   *)
(* or has not begun.                                                       *)
PlaceOK(f) ==
  LET chan == sender[fwd[f].chan] IN
  /\ fwd[f].from \in 1..fwd[f].pos /\ fwd[f].pos <= Len(chan) + 1
  /\ \A i \in Of(f) : i \in Frames(f) =>
       /\ out[i][2] = fwd[f].chan
       /\ \E p \in fwd[f].from..fwd[f].pos - 1 : out[i][3] = chan[p]
  /\ LastOf(f) = {} => fwd[f].pos = fwd[f].from
  /\ \A i \in LastOf(f) :
       IF i \in Frames(f) THEN fwd[f].pos > 1 /\ out[i][3] = chan[fwd[f].pos - 1]
       ELSE fwd[f].pos <= Len(chan)

QueueOK ==
  /\ \A i \in DOMAIN out : out[i][1] \in 0..Len(fwd)
  /\ \A f \in DOMAIN fwd : PlaceOK(f)

(* The handler of a subscribe message has yet to queue a snapshot or       *)
(* replayed frames.                                                        *)
Sending == task # None /\ task.step # "check"

Latest(f) == f \in BookForwarder /\ \A g \in BookForwarder : g <= f

(* The frames of the latest book forwarder come after every snapshot and   *)
(* replay that was queued, until the client subscribes once more.          *)
OwnFramesOK ==
  ~Sending => \A f \in BookForwarder : Latest(f) =>
    \A i, j \in BookFrames : out[i][1] = 0 /\ out[j][1] = f => i < j

(* The inductive invariant. *)
StreamSound ==
  /\ StreamInv /\ NoSilentGap
  /\ HubOK /\ ConnOK /\ QueueOK /\ OwnFramesOK

-----------------------------------------------------------------------------
(* What a forwarder has queued, and what appending to the queue does.      *)

GapFree(f) ==
  \A j \in Frames(f) :
    /\ \A i \in Frames(f) : i < j => out[i][3] < out[j][3]
    /\ \E p \in DOMAIN sender[fwd[f].chan] :
         /\ out[j][3] = sender[fwd[f].chan][p]
         /\ Previous(f, j) = {} => p = fwd[f].from
         /\ \A i \in Previous(f, j) \cap Frames(f) :
              p > 1 /\ out[i][3] = sender[fwd[f].chan][p - 1]

LEMMA FrameParts ==
  ASSUME NEW x \in Frame
  PROVE  x[1] \in Nat /\ x[3] \in Nat /\ x = <<x[1], x[2], x[3]>>
  BY DEF Frame

LEMMA OutParts ==
  ASSUME out \in Seq(Frame)
  PROVE  /\ Len(out) \in Nat /\ DOMAIN out = 1..Len(out)
         /\ \A i \in DOMAIN out : out[i][1] \in Nat /\ out[i][3] \in Nat
  <1>1. \A i \in DOMAIN out : out[i] \in Frame  BY ElementOfSeq
  <1> QED BY <1>1, FrameParts

(* One frame more. *)
LEMMA QueueOne ==
  ASSUME out \in Seq(Frame), NEW x \in Frame, out' = out \o <<x>>
  PROVE  /\ out' \in Seq(Frame) /\ Len(out') = Len(out) + 1
         /\ DOMAIN out' = DOMAIN out \cup {Len(out) + 1}
         /\ \A i \in DOMAIN out : out'[i] = out[i]
         /\ out'[Len(out) + 1] = x
  <1>1. <<x>> \in Seq(Frame) /\ Len(<<x>>) = 1 /\ <<x>>[1] = x  OBVIOUS
  <1>2. /\ out' \in Seq(Frame) /\ Len(out') = Len(out) + 1
        /\ \A i \in 1..Len(out) + 1 : out'[i] = IF i <= Len(out) THEN out[i] ELSE <<x>>[i - Len(out)]
    BY <1>1, ConcatProperties
  <1>3. Len(out) \in Nat /\ DOMAIN out = 1..Len(out) /\ DOMAIN out' = 1..Len(out')  BY <1>2
  <1> QED BY <1>1, <1>2, <1>3

(* The entries of f, and with them everything said about them, are kept.   *)
LEMMA SameViews ==
  ASSUME NEW f, Of(f)' = Of(f), \A i \in Of(f) : out'[i] = out[i]
  PROVE  /\ Frames(f)' = Frames(f) /\ LastOf(f)' = LastOf(f)
         /\ \A j : Previous(f, j)' = Previous(f, j)
  <1>1. Frames(f)' = Frames(f)  BY DEF Frames
  <1>2. LastOf(f)' = LastOf(f)  BY DEF LastOf
  <1>3. \A j : Previous(f, j)' = Previous(f, j)  BY DEF Previous
  <1> QED BY <1>1, <1>2, <1>3

Grown(s, t) == Len(s) <= Len(t) /\ \A p \in DOMAIN s : t[p] = s[p]

LEMMA KeepPlace ==
  ASSUME NEW f \in DOMAIN fwd, PlaceOK(f), GapFree(f),
         fwd \in Seq(Forwarder), fwd' \in Seq(Forwarder), f \in DOMAIN fwd',
         fwd'[f].chan = fwd[f].chan, fwd'[f].pos = fwd[f].pos, fwd'[f].from = fwd[f].from,
         Of(f)' = Of(f), \A i \in Of(f) : out'[i] = out[i],
         sender[fwd[f].chan] \in Seq(Nat), sender'[fwd[f].chan] \in Seq(Nat),
         Grown(sender[fwd[f].chan], sender'[fwd[f].chan])
  PROVE  PlaceOK(f)' /\ GapFree(f)'
  <1> DEFINE s == sender[fwd[f].chan]
             t == sender'[fwd[f].chan]
  <1>1. /\ Frames(f)' = Frames(f) /\ LastOf(f)' = LastOf(f)
        /\ \A j : Previous(f, j)' = Previous(f, j)
    BY SameViews
  <1>2. fwd[f].pos \in Nat /\ fwd[f].from \in Nat
    <2>1. fwd[f] \in Forwarder  BY ElementOfSeq
    <2> QED BY <2>1 DEF Forwarder
  <1>3. /\ DOMAIN s = 1..Len(s) /\ DOMAIN t = 1..Len(t) /\ Len(s) \in Nat /\ Len(t) \in Nat
        /\ Len(s) <= Len(t) /\ \A p \in 1..Len(s) : t[p] = s[p]
    BY DEF Grown
  <1>4. \A i \in Frames(f) : i \in Of(f)  BY DEF Frames
  <1>5. \A i \in LastOf(f) : i \in Of(f)  BY DEF LastOf
  <1>6. \A j : \A i \in Previous(f, j) : i \in Of(f)  BY DEF Previous
  <1> HIDE DEF s, t
  <1>7. PlaceOK(f)'
    <2>1. /\ fwd[f].from \in 1..fwd[f].pos /\ fwd[f].pos <= Len(s) + 1
          /\ \A i \in Of(f) : i \in Frames(f) =>
               /\ out[i][2] = fwd[f].chan
               /\ \E p \in fwd[f].from..fwd[f].pos - 1 : out[i][3] = s[p]
          /\ LastOf(f) = {} => fwd[f].pos = fwd[f].from
          /\ \A i \in LastOf(f) :
               IF i \in Frames(f) THEN fwd[f].pos > 1 /\ out[i][3] = s[fwd[f].pos - 1]
               ELSE fwd[f].pos <= Len(s)
      BY DEF PlaceOK, s
    <2>2. \A i \in Of(f) : i \in Frames(f) =>
               /\ out'[i][2] = fwd[f].chan
               /\ \E p \in fwd[f].from..fwd[f].pos - 1 : out'[i][3] = t[p]
      <3> SUFFICES ASSUME NEW i \in Of(f), i \in Frames(f)
                   PROVE  /\ out'[i][2] = fwd[f].chan
                          /\ \E p \in fwd[f].from..fwd[f].pos - 1 : out'[i][3] = t[p]
        OBVIOUS
      <3>1. PICK p \in fwd[f].from..fwd[f].pos - 1 : out[i][3] = s[p]  BY <2>1
      <3>2. p \in 1..Len(s)  BY <2>1, <1>2, <1>3
      <3>3. t[p] = s[p]  BY <3>2, <1>3
      <3>4. out'[i] = out[i]  OBVIOUS
      <3> QED BY <2>1, <3>1, <3>3, <3>4
    <2>3. \A i \in LastOf(f) :
               IF i \in Frames(f) THEN fwd[f].pos > 1 /\ out'[i][3] = t[fwd[f].pos - 1]
               ELSE fwd[f].pos <= Len(t)
      <3> SUFFICES ASSUME NEW i \in LastOf(f)
                   PROVE  IF i \in Frames(f) THEN fwd[f].pos > 1 /\ out'[i][3] = t[fwd[f].pos - 1]
                          ELSE fwd[f].pos <= Len(t)
        OBVIOUS
      <3>1. out'[i] = out[i]  BY <1>5
      <3>2. fwd[f].pos > 1 => t[fwd[f].pos - 1] = s[fwd[f].pos - 1]  BY <2>1, <1>2, <1>3
      <3>3. fwd[f].pos <= Len(s) => fwd[f].pos <= Len(t)  BY <1>2, <1>3
      <3> QED BY <2>1, <3>1, <3>2, <3>3
    <2>4. fwd[f].pos <= Len(t) + 1  BY <2>1, <1>2, <1>3
    <2> QED BY <2>1, <2>2, <2>3, <2>4, <1>1 DEF PlaceOK, t
  <1>8. GapFree(f)'
    <2> SUFFICES ASSUME NEW j \in Frames(f)'
                 PROVE  /\ \A i \in Frames(f)' : i < j => out'[i][3] < out'[j][3]
                        /\ \E p \in DOMAIN sender'[fwd'[f].chan] :
                             /\ out'[j][3] = sender'[fwd'[f].chan][p]
                             /\ Previous(f, j)' = {} => p = fwd'[f].from
                             /\ \A i \in Previous(f, j)' \cap Frames(f)' :
                                  p > 1 /\ out'[i][3] = sender'[fwd'[f].chan][p - 1]
      BY DEF GapFree
    <2> USE <1>1
    <2>1. \A i \in Frames(f) : i < j => out'[i][3] < out'[j][3]  BY <1>4 DEF GapFree
    <2>0. sender'[fwd'[f].chan] = t  BY DEF t
    <2>2. PICK p \in DOMAIN s :
            /\ out[j][3] = s[p]
            /\ Previous(f, j) = {} => p = fwd[f].from
            /\ \A i \in Previous(f, j) \cap Frames(f) : p > 1 /\ out[i][3] = s[p - 1]
      BY DEF GapFree, s
    <2>3. p \in DOMAIN t /\ t[p] = s[p] /\ (p > 1 => t[p - 1] = s[p - 1])  BY <1>3
    <2>4. \A i \in Previous(f, j) \cap Frames(f) : p > 1 /\ out'[i][3] = t[p - 1]
      BY <2>2, <2>3, <1>4
    <2>5. out'[j][3] = t[p]  BY <2>2, <2>3, <1>4
    <2>6. Previous(f, j)' = Previous(f, j)  OBVIOUS
    <2> QED BY <2>0, <2>1, <2>2, <2>3, <2>4, <2>5, <2>6
  <1> QED BY <1>7, <1>8

-----------------------------------------------------------------------------
(* The parts of the invariant that speak of forwarders.                    *)

LEMMA ForwarderFacts ==
  ASSUME StreamSound
  PROVE  /\ fwd \in Seq(Forwarder) /\ out \in Seq(Frame) /\ Len(fwd) \in Nat
         /\ DOMAIN fwd = 1..Len(fwd)
         /\ \A f \in DOMAIN fwd :
              /\ f \in Nat /\ f # 0 /\ PlaceOK(f) /\ GapFree(f)
              /\ fwd[f] \in Forwarder /\ fwd[f].chan \in Chan
              /\ fwd[f].pos \in Nat /\ fwd[f].from \in Nat /\ fwd[f].live \in BOOLEAN
              /\ sender[fwd[f].chan] \in Seq(Nat)
  <1>1. fwd \in Seq(Forwarder) /\ out \in Seq(Frame)  BY DEF StreamSound, StreamInv, StreamTypeOK
  <1>2. Len(fwd) \in Nat /\ DOMAIN fwd = 1..Len(fwd)  BY <1>1
  <1>3. ASSUME NEW f \in DOMAIN fwd
        PROVE  /\ f \in Nat /\ f # 0 /\ PlaceOK(f) /\ GapFree(f)
               /\ fwd[f] \in Forwarder /\ fwd[f].chan \in Chan
               /\ fwd[f].pos \in Nat /\ fwd[f].from \in Nat /\ fwd[f].live \in BOOLEAN
               /\ sender[fwd[f].chan] \in Seq(Nat)
    <2>1. f \in Nat /\ f # 0  BY <1>2
    <2>2. PlaceOK(f)  BY DEF StreamSound, QueueOK
    <2>3. GapFree(f)  BY DEF StreamSound, NoSilentGap, GapFree
    <2>4. fwd[f] \in Forwarder  BY <1>1, ElementOfSeq
    <2>5. /\ fwd[f].chan \in Chan /\ fwd[f].pos \in Nat /\ fwd[f].from \in Nat
          /\ fwd[f].live \in BOOLEAN
      BY <2>4 DEF Forwarder
    <2>6. sender[fwd[f].chan] # None  BY DEF StreamSound, ConnOK
    <2>7. sender[fwd[f].chan] \in Seq(Nat) \cup {None}
      BY <2>5 DEF StreamSound, StreamInv, StreamTypeOK
    <2> QED BY <2>1, <2>2, <2>3, <2>4, <2>5, <2>6, <2>7
  <1> QED BY <1>1, <1>2, <1>3

LEMMA GapFreeAll ==
  ASSUME \A f \in DOMAIN fwd' : GapFree(f)'
  PROVE  NoSilentGap'
  BY DEF NoSilentGap, GapFree

LEMMA GrownSame == ASSUME NEW s \in Seq(Nat) PROVE Grown(s, s)
  BY DEF Grown

(* Channels grow, forwarders and queue stay as they are.                   *)
LEMMA GrowKeep ==
  ASSUME StreamSound, out' = out, fwd' \in Seq(Forwarder), DOMAIN fwd' = DOMAIN fwd,
         \A f \in DOMAIN fwd : /\ fwd'[f].chan = fwd[f].chan /\ fwd'[f].pos = fwd[f].pos
                               /\ fwd'[f].from = fwd[f].from,
         \A c \in Chan : sender[c] # None =>
            /\ sender'[c] # None /\ sender'[c] \in Seq(Nat) /\ Grown(sender[c], sender'[c])
  PROVE  QueueOK' /\ NoSilentGap' /\ \A f \in DOMAIN fwd' : sender'[fwd'[f].chan] # None
  <1> USE ForwarderFacts
  <1>1. ASSUME NEW f \in DOMAIN fwd
        PROVE  PlaceOK(f)' /\ GapFree(f)' /\ sender'[fwd'[f].chan] # None
    <2>1. sender[fwd[f].chan] # None  BY DEF StreamSound, ConnOK
    <2>2. /\ sender'[fwd[f].chan] # None /\ sender'[fwd[f].chan] \in Seq(Nat)
          /\ Grown(sender[fwd[f].chan], sender'[fwd[f].chan])
      BY <2>1
    <2>3. Of(f)' = Of(f)  BY DEF Of
    <2>4. \A i \in Of(f) : out'[i] = out[i]  OBVIOUS
    <2>5. PlaceOK(f)' /\ GapFree(f)'  BY <2>2, <2>3, <2>4, KeepPlace
    <2> QED BY <2>2, <2>5
  <1>2. Len(fwd') = Len(fwd)
    <2>1. Len(fwd') \in Nat /\ DOMAIN fwd' = 1..Len(fwd')  OBVIOUS
    <2> QED BY <2>1
  <1>3. QueueOK'  BY <1>1, <1>2 DEF QueueOK, StreamSound
  <1>4. NoSilentGap'  BY <1>1, GapFreeAll
  <1> QED BY <1>1, <1>3, <1>4

(* Frames of the connection task itself are queued.                        *)
LEMMA OwnKeep ==
  ASSUME StreamSound, NEW q \in Seq(Frame), \A i \in DOMAIN q : q[i][1] = 0,
         out' = out \o q, UNCHANGED <<fwd, sender>>
  PROVE  /\ QueueOK' /\ NoSilentGap'
         /\ out' \in Seq(Frame) /\ Len(out) <= Len(out')
         /\ \A i \in DOMAIN out : i \in DOMAIN out' /\ out'[i] = out[i]
         /\ \A i \in DOMAIN out' \ DOMAIN out :
              i - Len(out) \in DOMAIN q /\ out'[i] = q[i - Len(out)] /\ out'[i][1] = 0
  <1> USE ForwarderFacts
  <1>1. /\ out' \in Seq(Frame) /\ Len(out') = Len(out) + Len(q)
        /\ \A i \in 1..Len(out) + Len(q) : out'[i] = IF i <= Len(out) THEN out[i] ELSE q[i - Len(out)]
    BY ConcatProperties
  <1>2. /\ Len(out) \in Nat /\ Len(q) \in Nat /\ DOMAIN out = 1..Len(out) /\ DOMAIN q = 1..Len(q)
        /\ DOMAIN out' = 1..Len(out')
    BY <1>1
  <1>3. \A i \in DOMAIN out : i \in DOMAIN out' /\ out'[i] = out[i]  BY <1>1, <1>2
  <1>4. \A i \in DOMAIN out' \ DOMAIN out :
          i - Len(out) \in DOMAIN q /\ out'[i] = q[i - Len(out)] /\ out'[i][1] = 0
    BY <1>1, <1>2
  <1>5. ASSUME NEW f \in DOMAIN fwd
        PROVE  PlaceOK(f)' /\ GapFree(f)'
    <2>1. Of(f)' = Of(f)
      <3>1. \A i : i \in Of(f)' <=> i \in Of(f)  BY <1>3, <1>4 DEF Of
      <3> QED BY <3>1
    <2>2. \A i \in Of(f) : out'[i] = out[i]  BY <1>3 DEF Of
    <2>3. Grown(sender[fwd[f].chan], sender'[fwd[f].chan])  BY GrownSame
    <2>4. fwd' = fwd /\ sender' = sender  OBVIOUS
    <2> QED BY <2>1, <2>2, <2>3, <2>4, KeepPlace
  <1>6. \A i \in DOMAIN out' : out'[i][1] \in 0..Len(fwd')
    BY <1>3, <1>4 DEF StreamSound, QueueOK
  <1>7. QueueOK'  BY <1>5, <1>6 DEF QueueOK
  <1>8. NoSilentGap'  BY <1>5, GapFreeAll
  <1> QED BY <1>1, <1>2, <1>3, <1>4, <1>7, <1>8

(* Forwarder f queues the frame x and moves to position np; nothing        *)
(* changes for the others.                                                 *)
Forwards(f, x, np) ==
  /\ x \in Frame /\ x[1] = f /\ np \in Nat
  /\ out' = out \o <<x>> /\ fwd' = [fwd EXCEPT ![f].pos = np] /\ sender' = sender

LEMMA ForwardView ==
  ASSUME StreamSound, NEW f \in DOMAIN fwd, NEW x, NEW np, Forwards(f, x, np)
  PROVE  /\ out' \in Seq(Frame) /\ Len(out') = Len(out) + 1 /\ Len(out) \in Nat
         /\ \A i \in DOMAIN out : out'[i] = out[i]
         /\ out'[Len(out) + 1] = x /\ DOMAIN out' = DOMAIN out \cup {Len(out) + 1}
         /\ fwd' \in Seq(Forwarder) /\ DOMAIN fwd' = DOMAIN fwd /\ Len(fwd') = Len(fwd)
         /\ fwd'[f].chan = fwd[f].chan /\ fwd'[f].from = fwd[f].from
         /\ fwd'[f].pos = np /\ fwd'[f].live = fwd[f].live
         /\ \A g \in DOMAIN fwd \ {f} : fwd'[g] = fwd[g]
         /\ Of(f)' = Of(f) \cup {Len(out) + 1} /\ LastOf(f)' = {Len(out) + 1}
         /\ \A i \in Of(f) : i \in DOMAIN out /\ i <= Len(out) /\ i \in Nat
         /\ \A j \in Of(f) : Previous(f, j)' = Previous(f, j)
         /\ \A j : j = Len(out) + 1 => Previous(f, j)' = LastOf(f)
  <1> USE ForwarderFacts
  <1>1. /\ out' \in Seq(Frame) /\ Len(out') = Len(out) + 1
        /\ DOMAIN out' = DOMAIN out \cup {Len(out) + 1}
        /\ \A i \in DOMAIN out : out'[i] = out[i]
        /\ out'[Len(out) + 1] = x
    BY QueueOne DEF Forwards
  <1>2. Len(out) \in Nat /\ DOMAIN out = 1..Len(out)  OBVIOUS
  <1>3. [fwd[f] EXCEPT !.pos = np] \in Forwarder  BY DEF Forwards, Forwarder
  <1>4. fwd' = [fwd EXCEPT ![f] = [fwd[f] EXCEPT !.pos = np]]  BY DEF Forwards
  <1>5. /\ fwd' \in Seq(Forwarder) /\ DOMAIN fwd' = DOMAIN fwd /\ Len(fwd') = Len(fwd)
    BY <1>3, <1>4, ExceptSeq
  <1>6. fwd'[f] = [fwd[f] EXCEPT !.pos = np] /\ \A g \in DOMAIN fwd \ {f} : fwd'[g] = fwd[g]
    BY <1>4
  <1>7. /\ fwd'[f].chan = fwd[f].chan /\ fwd'[f].from = fwd[f].from
        /\ fwd'[f].pos = np /\ fwd'[f].live = fwd[f].live
    BY <1>6 DEF Forwarder
  <1>8. Of(f)' = Of(f) \cup {Len(out) + 1}
    <2>1. \A i : i \in Of(f)' <=> i \in Of(f) \/ i = Len(out) + 1  BY <1>1, <1>2 DEF Of, Forwards
    <2> QED BY <2>1
  <1>9. \A i \in Of(f) : i \in DOMAIN out /\ i <= Len(out) /\ i \in Nat  BY <1>2 DEF Of
  <1>10. LastOf(f)' = {Len(out) + 1}
    <2> DEFINE n == Len(out) + 1
    <2>1. n \in Nat /\ \A i \in Of(f) : i \in Nat /\ i < n /\ ~(n <= i) /\ i <= n  BY <1>9, <1>2
    <2>2. n <= n  BY <1>2
    <2> HIDE DEF n
    <2>3. Of(f)' = Of(f) \cup {n}  BY <1>8 DEF n
    <2>4. \A i : i \in LastOf(f)' <=> i = n  BY <2>1, <2>2, <2>3 DEF LastOf
    <2> QED BY <2>4 DEF n
  <1>11. ASSUME NEW j \in Of(f) PROVE Previous(f, j)' = Previous(f, j)
    <2>1. \A i : i \in Previous(f, j)' <=> i \in Previous(f, j)  BY <1>8, <1>9, <1>2 DEF Previous
    <2> QED BY <2>1
  <1>12. ASSUME NEW j, j = Len(out) + 1 PROVE Previous(f, j)' = LastOf(f)
    <2>1. \A i \in Of(f) : i < j  BY <1>9, <1>2, <1>12
    <2>2. \A i : i \in Previous(f, j)' <=> i \in LastOf(f)
      BY <2>1, <1>8, <1>9, <1>2, <1>12 DEF Previous, LastOf
    <2> QED BY <2>2
  <1> QED BY <1>1, <1>2, <1>5, <1>6, <1>7, <1>8, <1>9, <1>10, <1>11, <1>12

LEMMA ForwardOthers ==
  ASSUME StreamSound, NEW f \in DOMAIN fwd, NEW x, NEW np, Forwards(f, x, np),
         PlaceOK(f)', GapFree(f)'
  PROVE  QueueOK' /\ NoSilentGap' /\ \A g \in DOMAIN fwd' : sender'[fwd'[g].chan] # None
  <1> USE ForwarderFacts, ForwardView
  <1>1. sender' = sender  BY DEF Forwards
  <1>2. ASSUME NEW g \in DOMAIN fwd, g # f
        PROVE  PlaceOK(g)' /\ GapFree(g)'
    <2>1. fwd'[g] = fwd[g]  BY <1>2
    <2>2. Of(g)' = Of(g)
      <3>1. x[1] # g  BY <1>2 DEF Forwards
      <3>2. \A i : i \in Of(g)' <=> i \in Of(g)  BY <3>1 DEF Of
      <3> QED BY <3>2
    <2>3. \A i \in Of(g) : out'[i] = out[i]  BY DEF Of
    <2>4. Grown(sender[fwd[g].chan], sender'[fwd[g].chan])  BY <1>1, GrownSame
    <2> QED BY <2>1, <2>2, <2>3, <2>4, <1>1, KeepPlace
  <1>3. \A g \in DOMAIN fwd' : PlaceOK(g)' /\ GapFree(g)'  BY <1>2
  <1>4. \A i \in DOMAIN out' : out'[i][1] \in 0..Len(fwd')
    BY DEF StreamSound, QueueOK, Forwards
  <1>5. QueueOK'  BY <1>3, <1>4 DEF QueueOK
  <1>6. NoSilentGap'  BY <1>3, GapFreeAll
  <1>7. ASSUME NEW g \in DOMAIN fwd' PROVE sender'[fwd'[g].chan] # None
    <2>1. fwd'[g].chan = fwd[g].chan  BY <1>7
    <2> QED BY <2>1, <1>1 DEF StreamSound, ConnOK
  <1> QED BY <1>5, <1>6, <1>7

LEMMA FrameKeep ==
  ASSUME StreamSound, NEW f \in DOMAIN fwd, NEW x, NEW n, n = Len(out) + 1,
         NEW pos, pos = fwd[f].pos, pos <= Len(sender[fwd[f].chan]),
         x = <<f, fwd[f].chan, sender[fwd[f].chan][pos]>>,
         Forwards(f, x, pos + 1)
  PROVE  PlaceOK(f)' /\ GapFree(f)'
  <1>0. /\ fwd[f].pos \in Nat /\ fwd[f].from \in Nat /\ sender[fwd[f].chan] \in Seq(Nat)
        /\ PlaceOK(f) /\ GapFree(f) /\ fwd[f].chan \in Chan /\ Len(out) \in Nat
    BY ForwarderFacts, OutParts
  <1> DEFINE s == sender[fwd[f].chan]
  <1>1. /\ \A i \in DOMAIN out : out'[i] = out[i]
        /\ out'[n] = x /\ n \in Nat
        /\ fwd'[f].chan = fwd[f].chan /\ fwd'[f].from = fwd[f].from /\ fwd'[f].pos = pos + 1
        /\ Of(f)' = Of(f) \cup {n} /\ LastOf(f)' = {n}
        /\ \A i \in Of(f) : i \in DOMAIN out /\ i \in Nat /\ i < n
        /\ \A j \in Of(f) : Previous(f, j)' = Previous(f, j)
        /\ Previous(f, n)' = LastOf(f)
    <2>1. \A i \in Of(f) : i \in DOMAIN out /\ i \in Nat /\ i < n  BY <1>0, ForwardView
    <2>2. n \in Nat  BY <1>0
    <2> QED BY <2>1, <2>2, ForwardView
  <1>2. sender' = sender /\ sender'[fwd'[f].chan] = s  BY <1>1 DEF Forwards
  <1>3. x[2] = fwd[f].chan /\ x[2] # "lag" /\ x[3] = s[pos]  BY <1>0 DEF Chan
  <1>4. Frames(f)' = Frames(f) \cup {n}
    <2>1. \A i : i \in Frames(f)' <=> i \in Frames(f) \/ i = n  BY <1>1, <1>3 DEF Frames
    <2> QED BY <2>1
  <1>5. /\ pos \in Nat /\ fwd[f].from \in Nat /\ s \in Seq(Nat) /\ Len(s) \in Nat
        /\ DOMAIN s = 1..Len(s) /\ pos \in DOMAIN s /\ pos <= Len(s)
        /\ fwd[f].from \in 1..pos
    BY <1>0 DEF PlaceOK
  <1>6. /\ \A i \in Frames(f) : /\ i \in Of(f) /\ out[i][2] = fwd[f].chan
                                 /\ \E p \in fwd[f].from..pos - 1 : out[i][3] = s[p]
        /\ LastOf(f) = {} => pos = fwd[f].from
        /\ \A i \in LastOf(f) \cap Frames(f) : pos > 1 /\ out[i][3] = s[pos - 1]
    BY <1>0 DEF PlaceOK, Frames
  <1>7. \A i, j \in DOMAIN s : i < j => s[i] < s[j]
    <2>1. sender[fwd[f].chan] # None  BY DEF StreamSound, ConnOK
    <2>2. History(fwd[f].chan) = s  BY <2>1 DEF History
    <2> QED BY <1>0, <2>2 DEF StreamSound, HubOK, Increasing
  <1> HIDE DEF s
  <1>8. PlaceOK(f)'
    <2>1. fwd'[f].from \in 1..fwd'[f].pos /\ fwd'[f].pos <= Len(s) + 1
      <3>1. fwd[f].from \in 1..pos + 1 /\ pos + 1 <= Len(s) + 1  BY <1>5
      <3> QED BY <3>1, <1>1
    <2>2. ASSUME NEW i \in Frames(f)'
          PROVE  /\ out'[i][2] = fwd'[f].chan
                 /\ \E p \in fwd'[f].from..fwd'[f].pos - 1 : out'[i][3] = s[p]
      <3>1. CASE i = n
        <4>1. pos \in fwd'[f].from..fwd'[f].pos - 1  BY <1>1, <1>5
        <4> QED BY <4>1, <3>1, <1>1, <1>3
      <3>2. CASE i \in Frames(f)
        <4>1. out'[i] = out[i] /\ out[i][2] = fwd[f].chan  BY <3>2, <1>1, <1>6
        <4>2. PICK p \in fwd[f].from..pos - 1 : out[i][3] = s[p]  BY <3>2, <1>6
        <4>3. p \in fwd'[f].from..fwd'[f].pos - 1  BY <1>1, <1>5
        <4> QED BY <4>1, <4>2, <4>3, <1>1
      <3> QED BY <3>1, <3>2, <1>4
    <2>3. fwd'[f].pos > 1 /\ out'[n][3] = s[fwd'[f].pos - 1] /\ n \in Frames(f)'
      <3>1. pos + 1 > 1 /\ (pos + 1) - 1 = pos  BY <1>5
      <3> QED BY <3>1, <1>1, <1>3, <1>4
    <2>4. \A i \in LastOf(f)' : /\ i \in Frames(f)' /\ fwd'[f].pos > 1
                                /\ out'[i][3] = s[fwd'[f].pos - 1]
      BY <2>3, <1>1
    <2>5. LastOf(f)' # {}  BY <1>1
    <2> QED BY <2>1, <2>2, <2>4, <2>5, <1>2 DEF PlaceOK
  <1>9. GapFree(f)'
    <2> SUFFICES ASSUME NEW j \in Frames(f)'
                 PROVE  /\ \A i \in Frames(f)' : i < j => out'[i][3] < out'[j][3]
                        /\ \E p \in DOMAIN sender'[fwd'[f].chan] :
                             /\ out'[j][3] = sender'[fwd'[f].chan][p]
                             /\ Previous(f, j)' = {} => p = fwd'[f].from
                             /\ \A i \in Previous(f, j)' \cap Frames(f)' :
                                  p > 1 /\ out'[i][3] = sender'[fwd'[f].chan][p - 1]
      BY DEF GapFree
    <2>1. CASE j \in Frames(f)
      <3>1. j \in Of(f) /\ j \in Nat /\ j < n /\ n \notin Of(f)  BY <2>1, <1>1, <1>6
      <3>2. \A i \in Frames(f)' : i < j => i \in Frames(f)  BY <3>1, <1>4, <1>1
      <3>3. \A i \in Frames(f) : out'[i] = out[i]  BY <1>1, <1>6
      <3>4. /\ \A i \in Frames(f) : i < j => out[i][3] < out[j][3]
            /\ \E p \in DOMAIN s :
                 /\ out[j][3] = s[p]
                 /\ Previous(f, j) = {} => p = fwd[f].from
                 /\ \A i \in Previous(f, j) \cap Frames(f) : p > 1 /\ out[i][3] = s[p - 1]
        BY <1>0, <2>1 DEF GapFree, s
      <3>5. Previous(f, j)' = Previous(f, j) /\ n \notin Previous(f, j)
        BY <3>1, <1>1 DEF Previous
      <3>6. Previous(f, j)' \cap Frames(f)' = Previous(f, j) \cap Frames(f)  BY <3>5, <1>4
      <3>7. out'[j] = out[j]  BY <2>1, <3>3
      <3>8. \A i \in Frames(f)' : i < j => out'[i][3] < out'[j][3]  BY <3>2, <3>3, <3>4, <3>7
      <3>9. PICK p \in DOMAIN s :
                 /\ out[j][3] = s[p]
                 /\ Previous(f, j) = {} => p = fwd[f].from
                 /\ \A i \in Previous(f, j) \cap Frames(f) : p > 1 /\ out[i][3] = s[p - 1]
        BY <3>4
      <3> QED BY <3>3, <3>5, <3>6, <3>7, <3>8, <3>9, <1>1, <1>2
    <2>2. CASE j = n
      <3>1. ASSUME NEW i \in Frames(f)', i < j PROVE out'[i][3] < out'[j][3]
        <4>1. i \in Frames(f)  BY <3>1, <2>2, <1>1, <1>4
        <4>2. out'[i] = out[i]  BY <4>1, <1>1, <1>6
        <4>3. PICK p \in fwd[f].from..pos - 1 : out[i][3] = s[p]  BY <4>1, <1>6
        <4>4. p \in DOMAIN s /\ p < pos
          <5>1. fwd[f].from \in Nat /\ 1 <= fwd[f].from /\ pos \in Nat /\ pos <= Len(s) /\ Len(s) \in Nat
            BY <1>5
          <5>2. p \in 1..Len(s) /\ p < pos  BY <5>1
          <5> QED BY <5>2, <1>5
        <4>5. s[p] < s[pos]  BY <4>4, <1>5, <1>7
        <4> QED BY <4>2, <4>3, <4>5, <2>2, <1>1, <1>3
      <3>2. out'[j][3] = s[pos]  BY <2>2, <1>1, <1>3
      <3>3. Previous(f, j)' = LastOf(f)  BY <2>2, <1>1
      <3>4. Previous(f, j)' = {} => pos = fwd'[f].from  BY <3>3, <1>1, <1>6
      <3>5. \A i \in Previous(f, j)' \cap Frames(f)' : pos > 1 /\ out'[i][3] = s[pos - 1]
        <4>1. \A i \in LastOf(f) : i \in Of(f) /\ i # n  BY <1>1 DEF LastOf
        <4>2. \A i \in LastOf(f) \cap Frames(f)' : i \in Frames(f) /\ out'[i] = out[i]
          BY <4>1, <1>1, <1>4
        <4> QED BY <4>2, <3>3, <1>6
      <3> QED BY <3>1, <3>2, <3>4, <3>5, <1>2, <1>5
    <2> QED BY <2>1, <2>2, <1>4
  <1> QED BY <1>8, <1>9

LEMMA LagKeep ==
  ASSUME StreamSound, NEW f \in DOMAIN fwd, NEW x, NEW n, n = Len(out) + 1,
         NEW np \in Nat, fwd[f].pos < np, np <= Len(sender[fwd[f].chan]),
         x = <<f, "lag", 0>>,
         Forwards(f, x, np)
  PROVE  PlaceOK(f)' /\ GapFree(f)'
  <1>0. /\ fwd[f].pos \in Nat /\ fwd[f].from \in Nat /\ sender[fwd[f].chan] \in Seq(Nat)
        /\ PlaceOK(f) /\ GapFree(f) /\ fwd[f].chan \in Chan /\ Len(out) \in Nat
    BY ForwarderFacts, OutParts
  <1> DEFINE s == sender[fwd[f].chan]
             pos == fwd[f].pos
  <1>1. /\ \A i \in DOMAIN out : out'[i] = out[i]
        /\ out'[n] = x /\ n \in Nat
        /\ fwd'[f].chan = fwd[f].chan /\ fwd'[f].from = fwd[f].from /\ fwd'[f].pos = np
        /\ Of(f)' = Of(f) \cup {n} /\ LastOf(f)' = {n}
        /\ \A i \in Of(f) : i \in DOMAIN out /\ i \in Nat /\ i < n
        /\ \A j \in Of(f) : Previous(f, j)' = Previous(f, j)
    <2>1. \A i \in Of(f) : i \in DOMAIN out /\ i \in Nat /\ i < n  BY <1>0, ForwardView
    <2>2. n \in Nat  BY <1>0
    <2> QED BY <2>1, <2>2, ForwardView
  <1>2. sender' = sender /\ sender'[fwd'[f].chan] = s  BY <1>1 DEF Forwards
  <1>3. x[2] = "lag"  OBVIOUS
  <1>4. Frames(f)' = Frames(f) /\ n \notin Frames(f)
    <2>1. \A i : i \in Frames(f)' <=> i \in Frames(f)  BY <1>1, <1>3 DEF Frames
    <2>2. n \notin Frames(f)'  BY <1>1, <1>3 DEF Frames
    <2> QED BY <2>1, <2>2
  <1>5. /\ pos \in Nat /\ fwd[f].from \in Nat /\ s \in Seq(Nat) /\ Len(s) \in Nat
        /\ DOMAIN s = 1..Len(s) /\ fwd[f].from \in 1..pos
    BY <1>0 DEF PlaceOK
  <1>6. \A i \in Frames(f) : /\ i \in Of(f) /\ out[i][2] = fwd[f].chan
                             /\ \E p \in fwd[f].from..pos - 1 : out[i][3] = s[p]
    BY <1>0 DEF PlaceOK, Frames
  <1>7. pos < np /\ np <= Len(s)  OBVIOUS
  <1>8. PlaceOK(f)'
    <2>1. fwd'[f].from \in 1..fwd'[f].pos /\ fwd'[f].pos <= Len(s) + 1
      <3>1. fwd[f].from \in 1..np /\ np <= Len(s) + 1  BY <1>5, <1>7
      <3> QED BY <3>1, <1>1
    <2>2. ASSUME NEW i \in Frames(f)'
          PROVE  /\ out'[i][2] = fwd'[f].chan
                 /\ \E p \in fwd'[f].from..fwd'[f].pos - 1 : out'[i][3] = s[p]
      <3>1. i \in Frames(f)  BY <1>4
      <3>2. out'[i] = out[i] /\ out[i][2] = fwd[f].chan  BY <3>1, <1>1, <1>6
      <3>3. PICK p \in fwd[f].from..pos - 1 : out[i][3] = s[p]  BY <3>1, <1>6
      <3>4. p \in fwd'[f].from..fwd'[f].pos - 1  BY <1>1, <1>5, <1>7
      <3> QED BY <3>2, <3>3, <3>4, <1>1
    <2>3. \A i \in LastOf(f)' : i \notin Frames(f)' /\ fwd'[f].pos <= Len(s)  BY <1>1, <1>4, <1>7
    <2>4. LastOf(f)' # {}  BY <1>1
    <2> HIDE DEF s
    <2> QED BY <2>1, <2>2, <2>3, <2>4, <1>2 DEF PlaceOK
  <1>9. GapFree(f)'
    <2> SUFFICES ASSUME NEW j \in Frames(f)'
                 PROVE  /\ \A i \in Frames(f)' : i < j => out'[i][3] < out'[j][3]
                        /\ \E p \in DOMAIN sender'[fwd'[f].chan] :
                             /\ out'[j][3] = sender'[fwd'[f].chan][p]
                             /\ Previous(f, j)' = {} => p = fwd'[f].from
                             /\ \A i \in Previous(f, j)' \cap Frames(f)' :
                                  p > 1 /\ out'[i][3] = sender'[fwd'[f].chan][p - 1]
      BY DEF GapFree
    <2>1. j \in Frames(f) /\ \A i \in Frames(f) : out'[i] = out[i]  BY <1>1, <1>4, <1>6
    <2>2. Previous(f, j)' = Previous(f, j)  BY <2>1, <1>1, <1>6
    <2>3. /\ \A i \in Frames(f) : i < j => out[i][3] < out[j][3]
          /\ \E p \in DOMAIN s :
               /\ out[j][3] = s[p]
               /\ Previous(f, j) = {} => p = fwd[f].from
               /\ \A i \in Previous(f, j) \cap Frames(f) : p > 1 /\ out[i][3] = s[p - 1]
      BY <1>0, <2>1 DEF GapFree, s
    <2> HIDE DEF s
    <2>4. PICK p \in DOMAIN s :
               /\ out[j][3] = s[p]
               /\ Previous(f, j) = {} => p = fwd[f].from
               /\ \A i \in Previous(f, j) \cap Frames(f) : p > 1 /\ out[i][3] = s[p - 1]
      BY <2>3
    <2> QED BY <2>1, <2>2, <2>3, <2>4, <1>1, <1>2, <1>4
  <1> QED BY <1>8, <1>9

-----------------------------------------------------------------------------
(* The hub: numbers grow along the pipe and in every channel.              *)

LEMMA IncreasingAppend ==
  ASSUME NEW s \in Seq(Nat), Increasing(s), NEW v \in Nat, \A k \in DOMAIN s : s[k] < v
  PROVE  /\ Append(s, v) \in Seq(Nat) /\ Increasing(Append(s, v)) /\ Grown(s, Append(s, v))
         /\ \A k \in DOMAIN Append(s, v) :
              (k \in DOMAIN s /\ Append(s, v)[k] = s[k]) \/ Append(s, v)[k] = v
  <1> DEFINE t == Append(s, v)
  <1>1. /\ t \in Seq(Nat) /\ Len(t) = Len(s) + 1 /\ Len(s) \in Nat
        /\ DOMAIN s = 1..Len(s) /\ DOMAIN t = 1..Len(s) + 1
        /\ \A i \in 1..Len(s) : t[i] = s[i]
        /\ t[Len(s) + 1] = v
    BY AppendProperties
  <1> HIDE DEF t
  <1>2. \A k \in DOMAIN t : (k \in DOMAIN s /\ t[k] = s[k]) \/ (k = Len(s) + 1 /\ t[k] = v)
    BY <1>1
  <1>3. ASSUME NEW i \in DOMAIN t, NEW j \in DOMAIN t, i < j PROVE t[i] < t[j]
    <2>1. i \in DOMAIN s /\ t[i] = s[i]  BY <1>1, <1>3
    <2>2. CASE j \in DOMAIN s  BY <2>1, <2>2, <1>1, <1>3 DEF Increasing
    <2>3. CASE j = Len(s) + 1  BY <2>1, <2>3, <1>1
    <2> QED BY <2>2, <2>3, <1>1
  <1>4. Increasing(t)  BY <1>3 DEF Increasing
  <1>5. Grown(s, t)  BY <1>1 DEF Grown
  <1> QED BY <1>1, <1>2, <1>4, <1>5 DEF t

LEMMA HistoryFacts ==
  ASSUME sender \in [Chan -> Seq(Nat) \cup {None}]
  PROVE  \A c \in Chan : /\ History(c) \in Seq(Nat)
                         /\ sender[c] # None => sender[c] = History(c)
                         /\ sender[c] = None => History(c) = <<>>
  <1>1. <<>> \in Seq(Nat)  OBVIOUS
  <1> QED BY <1>1 DEF History

LEMMA PublishFacts ==
  ASSUME sender \in [Chan -> Seq(Nat) \cup {None}], \A c \in Chan : Increasing(History(c)),
         NEW cs, NEW v \in Nat, sender' = Publish(cs, v),
         \A c \in Chan \cap cs : \A k \in DOMAIN History(c) : History(c)[k] < v
  PROVE  /\ sender' \in [Chan -> Seq(Nat) \cup {None}]
         /\ \A c \in Chan : sender[c] # None =>
              /\ sender'[c] # None /\ sender'[c] \in Seq(Nat) /\ Grown(sender[c], sender'[c])
         /\ \A c \in Chan : Increasing(History(c)')
         /\ \A c \in Chan : c \notin cs => History(c)' = History(c)
         /\ \A c \in Chan : \A k \in DOMAIN History(c)' :
              \/ k \in DOMAIN History(c) /\ History(c)'[k] = History(c)[k]
              \/ c \in cs /\ History(c)'[k] = v
  <1> USE NoneAssumption
  <1>1. ASSUME NEW c \in Chan
        PROVE  /\ sender'[c] \in Seq(Nat) \cup {None}
               /\ sender[c] # None =>
                    /\ sender'[c] # None /\ sender'[c] \in Seq(Nat) /\ Grown(sender[c], sender'[c])
               /\ Increasing(History(c)')
               /\ c \notin cs => History(c)' = History(c)
               /\ \A k \in DOMAIN History(c)' :
                    \/ k \in DOMAIN History(c) /\ History(c)'[k] = History(c)[k]
                    \/ c \in cs /\ History(c)'[k] = v
    <2>1. sender'[c] = IF c \in cs /\ sender[c] # None THEN Append(sender[c], v) ELSE sender[c]
      BY DEF Publish
    <2>2. CASE c \in cs /\ sender[c] # None
      <3>1. History(c) = sender[c] /\ sender[c] \in Seq(Nat)  BY <2>2, HistoryFacts
      <3>2. /\ Append(sender[c], v) \in Seq(Nat) /\ Increasing(Append(sender[c], v))
            /\ Grown(sender[c], Append(sender[c], v))
            /\ \A k \in DOMAIN Append(sender[c], v) :
                 (k \in DOMAIN sender[c] /\ Append(sender[c], v)[k] = sender[c][k])
                 \/ Append(sender[c], v)[k] = v
        BY <3>1, <2>2, IncreasingAppend
      <3>3. sender'[c] = Append(sender[c], v)  BY <2>1, <2>2
      <3>4. sender'[c] # None  BY <3>2, <3>3
      <3>5. History(c)' = sender'[c]  BY <3>4 DEF History
      <3> QED BY <3>1, <3>2, <3>3, <3>4, <3>5, <2>2
    <2>3. CASE ~(c \in cs /\ sender[c] # None)
      <3>1. sender'[c] = sender[c]  BY <2>1, <2>3
      <3>2. History(c)' = History(c)  BY <3>1 DEF History
      <3>3. sender[c] # None => sender[c] \in Seq(Nat)  OBVIOUS
      <3> QED BY <3>1, <3>2, <3>3, GrownSame
    <2> QED BY <2>2, <2>3
  <1>2. sender' \in [Chan -> Seq(Nat) \cup {None}]
    <2>1. sender' = [c \in Chan |-> sender'[c]]  BY DEF Publish
    <2> QED BY <2>1, <1>1
  <1> QED BY <1>1, <1>2

LEMMA HubKeep ==
  ASSUME HubOK, UNCHANGED <<seq, pipe, replay, ticked>>, now \in Nat, now' \in Nat, now <= now',
         \A c \in Chan : History(c)' = History(c)
  PROVE  HubOK'
  <1>1. History("book")' = History("book") /\ History("ticker")' = History("ticker")
    BY DEF Chan
  <1>2. ticked' \in Nat /\ ticked' <= now'  BY DEF HubOK
  <1>3. /\ \A i \in DOMAIN pipe' : pipe'[i].seq <= seq'
        /\ \A i, j \in DOMAIN pipe' : i < j => pipe'[i].seq < pipe'[j].seq
    BY DEF HubOK
  <1>4. \A c \in Chan : Increasing(History(c))'  BY DEF HubOK, Increasing
  <1>5. \A c \in Chan \ {"ticker"} : \A k \in DOMAIN History(c)' :
          History(c)'[k] <= seq' /\ \A i \in DOMAIN pipe' : History(c)'[k] < pipe'[i].seq
    BY DEF HubOK
  <1>6. \A k \in DOMAIN History("ticker")' : History("ticker")'[k] <= ticked'
    BY <1>1 DEF HubOK
  <1> QED BY <1>2, <1>3, <1>4, <1>5, <1>6 DEF HubOK

LEMMA TypeFacts ==
  ASSUME StreamSound
  PROVE  /\ now \in Nat /\ seq \in Nat /\ ticked \in Nat /\ ticked <= now
         /\ pipe \in Seq(Event) /\ Len(pipe) \in Nat /\ DOMAIN pipe = 1..Len(pipe)
         /\ \A i \in DOMAIN pipe : pipe[i] \in Event /\ pipe[i].seq \in Nat
         /\ sender \in [Chan -> Seq(Nat) \cup {None}]
         /\ replay \in Seq(Entry) /\ out \in Seq(Frame)
         /\ \A c \in Chan : History(c) \in Seq(Nat)
         /\ \A c \in Chan : \A k \in DOMAIN History(c) : History(c)[k] \in Nat
  <1> USE StreamAssumption
  <1>1. /\ now \in Nat /\ seq \in Nat /\ ticked \in Nat /\ ticked <= now
        /\ pipe \in Seq(Event) /\ sender \in [Chan -> Seq(Nat) \cup {None}]
        /\ replay \in Seq(Entry) /\ out \in Seq(Frame)
    BY DEF StreamSound, StreamInv, StreamTypeOK, HubOK
  <1>2. \A i \in DOMAIN pipe : pipe[i] \in Event  BY <1>1, ElementOfSeq
  <1>3. \A i \in DOMAIN pipe : pipe[i].seq \in Nat  BY <1>2 DEF Event
  <1>4. \A c \in Chan : History(c) \in Seq(Nat)  BY <1>1, HistoryFacts
  <1>5. \A c \in Chan : \A k \in DOMAIN History(c) : History(c)[k] \in Nat  BY <1>4, ElementOfSeq
  <1>6. Len(pipe) \in Nat /\ DOMAIN pipe = 1..Len(pipe)  BY <1>1
  <1> QED BY <1>1, <1>2, <1>3, <1>4, <1>5, <1>6

LEMMA EngineEventHub ==
  ASSUME StreamSound, NEW k \in Kinds, EngineEvent(k)
  PROVE  HubOK' /\ pipe' \in Seq(Event) /\ Len(pipe') <= PipeCapacity
  <1> DEFINE e == [kind |-> k, seq |-> seq + 1]
  <1>0. /\ now \in Nat /\ seq \in Nat /\ ticked \in Nat /\ ticked <= now
        /\ pipe \in Seq(Event) /\ Len(pipe) \in Nat /\ DOMAIN pipe = 1..Len(pipe)
    BY TypeFacts
  <1>1. e \in Event /\ e.seq = seq + 1  BY <1>0 DEF Event
  <1> HIDE DEF e
  <1>2. seq' = seq + 1 /\ pipe' = TrySend(e) /\ UNCHANGED <<now, sender, replay, ticked>>
    BY DEF EngineEvent, e
  <1>3. \A c \in Chan : History(c)' = History(c)  BY <1>2 DEF History
  <1>4. /\ pipe' \in Seq(Event) /\ Len(pipe') <= PipeCapacity
        /\ DOMAIN pipe' = 1..Len(pipe')
        /\ pipe' = pipe \/ /\ Len(pipe') = Len(pipe) + 1
                           /\ \A i \in DOMAIN pipe : pipe'[i] = pipe[i]
                           /\ pipe'[Len(pipe) + 1] = e
    <2>1. CASE Len(pipe) < PipeCapacity
      <3>1. pipe' = Append(pipe, e)  BY <2>1, <1>2 DEF TrySend
      <3>2. PipeCapacity \in Nat  BY StreamAssumption
      <3>3. /\ pipe' \in Seq(Event) /\ Len(pipe') = Len(pipe) + 1
            /\ \A i \in 1..Len(pipe) : pipe'[i] = pipe[i]
            /\ pipe'[Len(pipe) + 1] = e
        BY <3>1, <1>0, <1>1, AppendProperties
      <3> QED BY <3>2, <3>3, <2>1, <1>0
    <2>2. CASE ~(Len(pipe) < PipeCapacity)
      BY <2>2, <1>0, <1>2 DEF TrySend, StreamSound, StreamInv, StreamTypeOK
    <2> QED BY <2>1, <2>2
  <1>5. \A i \in DOMAIN pipe' : (i \in DOMAIN pipe /\ pipe'[i] = pipe[i])
                                \/ (i = Len(pipe) + 1 /\ pipe'[i] = e)
    <2>1. CASE pipe' = pipe  BY <2>1
    <2>2. CASE /\ Len(pipe') = Len(pipe) + 1
               /\ \A i \in DOMAIN pipe : pipe'[i] = pipe[i]
               /\ pipe'[Len(pipe) + 1] = e
      <3>1. DOMAIN pipe' = DOMAIN pipe \cup {Len(pipe) + 1}  BY <2>2, <1>0, <1>4
      <3> QED BY <3>1, <2>2
    <2> QED BY <2>1, <2>2, <1>4
  <1>6. \A i \in DOMAIN pipe' : pipe'[i].seq <= seq'
    BY <1>0, <1>1, <1>2, <1>5, TypeFacts DEF StreamSound, HubOK
  <1>7. ASSUME NEW i \in DOMAIN pipe', NEW j \in DOMAIN pipe', i < j
        PROVE  pipe'[i].seq < pipe'[j].seq
    <2>1. i \in DOMAIN pipe /\ pipe'[i] = pipe[i]
      <3>1. i # Len(pipe) + 1
        <4>1. j \in DOMAIN pipe \/ j = Len(pipe) + 1  BY <1>5
        <4> QED BY <4>1, <1>0, <1>7
      <3> QED BY <3>1, <1>5
    <2>2. CASE j \in DOMAIN pipe /\ pipe'[j] = pipe[j]
      BY <2>1, <2>2, <1>7 DEF StreamSound, HubOK
    <2>3. CASE pipe'[j] = e
      <3>1. pipe[i].seq <= seq  BY <2>1 DEF StreamSound, HubOK
      <3> QED BY <3>1, <2>1, <2>3, <1>0, <1>1, TypeFacts
    <2> QED BY <2>2, <2>3, <1>5
  <1>8. ASSUME NEW c \in Chan \ {"ticker"}, NEW n \in DOMAIN History(c)'
        PROVE  History(c)'[n] <= seq' /\ \A i \in DOMAIN pipe' : History(c)'[n] < pipe'[i].seq
    <2>1. n \in DOMAIN History(c) /\ History(c)'[n] = History(c)[n]  BY <1>3
    <2>2. /\ History(c)[n] <= seq /\ History(c)[n] \in Nat
          /\ \A i \in DOMAIN pipe : History(c)[n] < pipe[i].seq
      BY <2>1, TypeFacts DEF StreamSound, HubOK
    <2>3. History(c)[n] <= seq + 1 /\ History(c)[n] < seq + 1  BY <2>2, <1>0
    <2>4. \A i \in DOMAIN pipe' : History(c)[n] < pipe'[i].seq  BY <2>2, <2>3, <1>1, <1>5
    <2> QED BY <2>1, <2>3, <2>4, <1>2
  <1>9. /\ \A c \in Chan : Increasing(History(c))'
        /\ \A n \in DOMAIN History("ticker")' : History("ticker")'[n] <= ticked'
    <2>1. History("book")' = History("book") /\ History("ticker")' = History("ticker")
      BY <1>3 DEF Chan
    <2> QED BY <2>1, <1>2, <1>3 DEF StreamSound, HubOK, Increasing
  <1>10. ticked' \in Nat /\ ticked' <= now'  BY <1>0, <1>2
  <1>11. HubOK'  BY <1>6, <1>7, <1>8, <1>9, <1>10 DEF HubOK
  <1> QED BY <1>4, <1>11

(* What is left of the replay buffer is its end. *)
LEMMA RecentFacts ==
  ASSUME replay \in Seq(Entry)
  PROVE  Recent \in Seq(Entry)
  <1> DEFINE n == Cardinality(Expired)
  <1>1. /\ Len(replay) \in Nat /\ DOMAIN replay = 1..Len(replay)
        /\ \A i \in 1..Len(replay) : replay[i] \in Entry
    BY ElementOfSeq
  <1>2. n \in Nat
    <2>1. IsFiniteSet(1..Len(replay))  BY <1>1, FS_Interval
    <2>2. Expired \subseteq 1..Len(replay)  BY <1>1 DEF Expired
    <2>3. IsFiniteSet(Expired)  BY <2>1, <2>2, FS_Subset
    <2> QED BY <2>3, FS_CardinalityType
  <1> HIDE DEF n
  <1>3. Recent = SubSeq(replay, n + 1, Len(replay))  BY DEF Recent, n
  <1>4. \A i \in n + 1..Len(replay) : replay[i] \in Entry  BY <1>1, <1>2
  <1>5. n + 1 \in Int /\ Len(replay) \in Int  BY <1>1, <1>2
  <1> QED BY <1>3, <1>4, <1>5, SubSeqProperties

LEMMA DispatchHub ==
  ASSUME StreamSound, Dispatch
  PROVE  /\ HubOK' /\ pipe' \in Seq(Event) /\ Len(pipe') <= PipeCapacity /\ replay' \in Seq(Entry)
         /\ sender' \in [Chan -> Seq(Nat) \cup {None}]
         /\ \A c \in Chan : sender[c] # None =>
              /\ sender'[c] # None /\ sender'[c] \in Seq(Nat) /\ Grown(sender[c], sender'[c])
  <1> DEFINE e == Head(pipe)
             cs == Targets(e.kind)
  <1>0. /\ now \in Nat /\ seq \in Nat /\ ticked \in Nat /\ ticked <= now
        /\ pipe \in Seq(Event) /\ Len(pipe) \in Nat /\ DOMAIN pipe = 1..Len(pipe)
        /\ sender \in [Chan -> Seq(Nat) \cup {None}] /\ replay \in Seq(Entry)
    BY TypeFacts
  <1>1. /\ pipe # <<>> /\ sender' = Publish(cs, e.seq) /\ pipe' = Tail(pipe)
        /\ replay' = IF e.kind = "delta" THEN Append(Recent, [at |-> now, seq |-> e.seq]) ELSE replay
        /\ UNCHANGED <<now, seq, ticked>>
    BY DEF Dispatch
  <1>2. e = pipe[1] /\ 1 \in DOMAIN pipe  BY <1>0, <1>1
  <1>3. e \in Event /\ e.seq \in Nat /\ e.seq <= seq
    BY <1>2, TypeFacts DEF StreamSound, HubOK
  <1>4. "ticker" \notin cs /\ cs \subseteq Chan /\ ("book" \in cs => e.kind = "delta")
    <2>1. e.kind \in Kinds  BY <1>3 DEF Event
    <2> QED BY <2>1 DEF Targets, Kinds, Chan
  <1> HIDE DEF e, cs
  <1>5. /\ pipe' \in Seq(Event) /\ Len(pipe') = Len(pipe) - 1 /\ DOMAIN pipe' = 1..Len(pipe')
        /\ \A i \in DOMAIN pipe' : i + 1 \in DOMAIN pipe /\ pipe'[i] = pipe[i + 1]
        /\ \A i \in DOMAIN pipe' : i \in Nat /\ i > 0
    BY <1>0, <1>1, HeadTailProperties
  <1>6. Len(pipe') <= PipeCapacity
    <2>1. Len(pipe) <= PipeCapacity /\ PipeCapacity \in Nat
      BY StreamAssumption DEF StreamSound, StreamInv, StreamTypeOK
    <2> QED BY <2>1, <1>0, <1>5
  <1>7. \A c \in Chan \cap cs : \A k \in DOMAIN History(c) : History(c)[k] < e.seq
    BY <1>2, <1>4 DEF StreamSound, HubOK
  <1>8. /\ sender' \in [Chan -> Seq(Nat) \cup {None}]
        /\ \A c \in Chan : sender[c] # None =>
             /\ sender'[c] # None /\ sender'[c] \in Seq(Nat) /\ Grown(sender[c], sender'[c])
        /\ \A c \in Chan : Increasing(History(c)')
        /\ \A c \in Chan : c \notin cs => History(c)' = History(c)
        /\ \A c \in Chan : \A k \in DOMAIN History(c)' :
             \/ k \in DOMAIN History(c) /\ History(c)'[k] = History(c)[k]
             \/ c \in cs /\ History(c)'[k] = e.seq
    <2>1. \A c \in Chan : Increasing(History(c))  BY DEF StreamSound, HubOK
    <2> QED BY <2>1, <1>0, <1>1, <1>3, <1>7, PublishFacts
  <1>9. \A i \in DOMAIN pipe' : pipe'[i].seq <= seq' /\ e.seq < pipe'[i].seq
    <2> SUFFICES ASSUME NEW i \in DOMAIN pipe' PROVE pipe'[i].seq <= seq' /\ e.seq < pipe'[i].seq
      OBVIOUS
    <2>1. i + 1 \in DOMAIN pipe /\ 1 < i + 1 /\ pipe'[i] = pipe[i + 1]  BY <1>5
    <2> QED BY <2>1, <1>1, <1>2 DEF StreamSound, HubOK
  <1>10. ASSUME NEW i \in DOMAIN pipe', NEW j \in DOMAIN pipe', i < j
         PROVE  pipe'[i].seq < pipe'[j].seq
    <2>1. i + 1 \in DOMAIN pipe /\ j + 1 \in DOMAIN pipe /\ i + 1 < j + 1  BY <1>5, <1>10
    <2>2. pipe[i + 1].seq < pipe[j + 1].seq  BY <2>1 DEF StreamSound, HubOK
    <2> QED BY <2>2, <1>5
  <1>11. ASSUME NEW c \in Chan \ {"ticker"}, NEW k \in DOMAIN History(c)'
         PROVE  History(c)'[k] <= seq' /\ \A i \in DOMAIN pipe' : History(c)'[k] < pipe'[i].seq
    <2>1. CASE k \in DOMAIN History(c) /\ History(c)'[k] = History(c)[k]
      <3>1. /\ History(c)[k] <= seq
            /\ \A i \in DOMAIN pipe : History(c)[k] < pipe[i].seq
        BY <2>1 DEF StreamSound, HubOK
      <3> QED BY <3>1, <2>1, <1>1, <1>5
    <2>2. CASE History(c)'[k] = e.seq  BY <2>2, <1>1, <1>3, <1>9
    <2> QED BY <2>1, <2>2, <1>8
  <1>12. \A k \in DOMAIN History("ticker")' : History("ticker")'[k] <= ticked'
    <2>1. History("ticker")' = History("ticker")  BY <1>4, <1>8 DEF Chan
    <2> QED BY <2>1, <1>1 DEF StreamSound, HubOK
  <1>13. replay' \in Seq(Entry)
    <2>1. CASE e.kind = "delta"
      <3> DEFINE x == [at |-> now, seq |-> e.seq]
      <3>1. x \in Entry  BY <1>0, <1>3 DEF Entry
      <3>2. replay' = Append(Recent, x)  BY <2>1, <1>1
      <3> HIDE DEF x
      <3>3. Recent \in Seq(Entry)  BY <1>0, RecentFacts
      <3> QED BY <3>1, <3>2, <3>3, AppendProperties
    <2>2. CASE e.kind # "delta"  BY <2>2, <1>0, <1>1
    <2> QED BY <2>1, <2>2
  <1>14. ticked' \in Nat /\ ticked' <= now'  BY <1>0, <1>1
  <1>15. HubOK'  BY <1>8, <1>9, <1>10, <1>11, <1>12, <1>14 DEF HubOK
  <1> QED BY <1>5, <1>6, <1>8, <1>13, <1>15

LEMMA TickerHub ==
  ASSUME StreamSound, PublishTicker
  PROVE  /\ HubOK'
         /\ sender' \in [Chan -> Seq(Nat) \cup {None}]
         /\ \A c \in Chan : sender[c] # None =>
              /\ sender'[c] # None /\ sender'[c] \in Seq(Nat) /\ Grown(sender[c], sender'[c])
  <1>0. /\ now \in Nat /\ seq \in Nat /\ ticked \in Nat /\ ticked < now /\ ticked' = now
        /\ sender \in [Chan -> Seq(Nat) \cup {None}] /\ UNCHANGED <<now, seq, pipe, replay>>
        /\ \A k \in DOMAIN History("ticker") : History("ticker")[k] <= ticked /\ History("ticker")[k] \in Nat
    BY TypeFacts DEF PublishTicker, StreamSound, HubOK, Chan
  <1>1. ticked' \in Nat /\ ticked' <= now'  BY <1>0
  <1>2. /\ \A i \in DOMAIN pipe' : pipe'[i].seq <= seq'
        /\ \A i, j \in DOMAIN pipe' : i < j => pipe'[i].seq < pipe'[j].seq
    BY <1>0 DEF StreamSound, HubOK
  <1>3. \A k \in DOMAIN History("ticker") : History("ticker")[k] <= now /\ History("ticker")[k] < now
    BY <1>0
  <1>4. CASE sender' = sender
    <2>1. \A c \in Chan : History(c)' = History(c)  BY <1>4 DEF History
    <2>2. History("book")' = History("book") /\ History("ticker")' = History("ticker")
      BY <2>1 DEF Chan
    <2>3. \A k \in DOMAIN History("ticker")' : History("ticker")'[k] <= ticked'
      BY <2>2, <1>0, <1>3
    <2>4. HubOK'
      <3>1. /\ \A c \in Chan : Increasing(History(c))'
            /\ \A c \in Chan \ {"ticker"} : \A k \in DOMAIN History(c)' :
                 History(c)'[k] <= seq' /\ \A i \in DOMAIN pipe' : History(c)'[k] < pipe'[i].seq
        BY <2>1, <2>2, <1>0 DEF StreamSound, HubOK, Increasing
      <3> QED BY <3>1, <2>3, <1>1, <1>2 DEF HubOK
    <2>5. \A c \in Chan : sender[c] # None => sender[c] \in Seq(Nat) /\ Grown(sender[c], sender[c])
      BY <1>0, GrownSame
    <2> QED BY <2>4, <2>5, <1>0, <1>4
  <1>5. CASE sender' = Publish({"ticker"}, now)
    <2>1. \A c \in Chan \cap {"ticker"} : \A k \in DOMAIN History(c) : History(c)[k] < now
      BY <1>3
    <2>2. \A c \in Chan : Increasing(History(c))  BY DEF StreamSound, HubOK
    <2>3. /\ sender' \in [Chan -> Seq(Nat) \cup {None}]
          /\ \A c \in Chan : sender[c] # None =>
               /\ sender'[c] # None /\ sender'[c] \in Seq(Nat) /\ Grown(sender[c], sender'[c])
          /\ \A c \in Chan : Increasing(History(c)')
          /\ \A c \in Chan : c \notin {"ticker"} => History(c)' = History(c)
          /\ \A c \in Chan : \A k \in DOMAIN History(c)' :
               \/ k \in DOMAIN History(c) /\ History(c)'[k] = History(c)[k]
               \/ c \in {"ticker"} /\ History(c)'[k] = now
      BY <2>1, <2>2, <1>0, <1>5, PublishFacts
    <2>4. \A c \in Chan \ {"ticker"} : History(c)' = History(c)  BY <2>3
    <2>5. \A c \in Chan \ {"ticker"} : \A k \in DOMAIN History(c)' :
            History(c)'[k] <= seq' /\ \A i \in DOMAIN pipe' : History(c)'[k] < pipe'[i].seq
      BY <2>4, <1>0 DEF StreamSound, HubOK
    <2>8. \A k \in DOMAIN History("ticker")' : History("ticker")'[k] <= ticked'
      <3>1. \A k \in DOMAIN History("ticker")' :
               \/ k \in DOMAIN History("ticker") /\ History("ticker")'[k] = History("ticker")[k]
               \/ History("ticker")'[k] = now
        BY <2>3 DEF Chan
      <3> QED BY <3>1, <1>0, <1>3
    <2>9. \A c \in Chan : Increasing(History(c))'  BY <2>3
    <2>10. HubOK'  BY <2>5, <2>8, <2>9, <1>1, <1>2 DEF HubOK
    <2> QED BY <2>3, <2>10
  <1> QED BY <1>4, <1>5 DEF PublishTicker

-----------------------------------------------------------------------------
(* Book frames in the queue.                                               *)

LEMMA OwnSame ==
  ASSUME OwnFramesOK, Sending => Sending', BookForwarder' = BookForwarder,
         BookFrames' = BookFrames, \A i \in BookFrames : out'[i] = out[i]
  PROVE  OwnFramesOK'
  BY DEF OwnFramesOK, Latest

LEMMA NonBook ==
  ASSUME out \in Seq(Frame), OwnFramesOK, NEW x \in Frame, x[2] # "book", out' = out \o <<x>>,
         Sending => Sending', BookForwarder' = BookForwarder
  PROVE  OwnFramesOK'
  <1>1. /\ DOMAIN out' = DOMAIN out \cup {Len(out) + 1}
        /\ \A i \in DOMAIN out : out'[i] = out[i]
        /\ out'[Len(out) + 1] = x
    BY QueueOne
  <1>2. Len(out) + 1 \notin DOMAIN out
    <2>1. Len(out) \in Nat /\ DOMAIN out = 1..Len(out)  BY OutParts
    <2> QED BY <2>1
  <1>3. \A i : i \in BookFrames' <=> i \in BookFrames  BY <1>1, <1>2 DEF BookFrames
  <1>4. BookFrames' = BookFrames /\ \A i \in BookFrames : out'[i] = out[i]
    BY <1>1, <1>3 DEF BookFrames
  <1> QED BY <1>4, OwnSame

LEMMA ForwardedLast ==
  ASSUME out \in Seq(Frame), OwnFramesOK, NEW x \in Frame, x[1] # 0, out' = out \o <<x>>,
         Sending => Sending', BookForwarder' = BookForwarder
  PROVE  OwnFramesOK'
  <1>1. /\ DOMAIN out' = DOMAIN out \cup {Len(out) + 1}
        /\ \A i \in DOMAIN out : out'[i] = out[i]
        /\ out'[Len(out) + 1] = x
    BY QueueOne
  <1>2. Len(out) \in Nat /\ DOMAIN out = 1..Len(out)  BY OutParts
  <1>3. ASSUME ~Sending', NEW f \in BookForwarder', Latest(f)',
               NEW i \in BookFrames', NEW j \in BookFrames', out'[i][1] = 0, out'[j][1] = f
        PROVE  i < j
    <2>1. i \in DOMAIN out /\ out'[i] = out[i] /\ i \in BookFrames
      BY <1>1, <1>3 DEF BookFrames
    <2>2. CASE j = Len(out) + 1  BY <2>1, <2>2, <1>2
    <2>3. CASE j \in DOMAIN out
      <3>1. out'[j] = out[j] /\ j \in BookFrames  BY <2>3, <1>1 DEF BookFrames
      <3>2. ~Sending /\ f \in BookForwarder /\ Latest(f)  BY <1>3 DEF Latest
      <3> QED BY <2>1, <3>1, <3>2, <1>3 DEF OwnFramesOK
    <2>4. j \in DOMAIN out \cup {Len(out) + 1}  BY <1>1 DEF BookFrames
    <2> QED BY <2>2, <2>3, <2>4
  <1> QED BY <1>3 DEF OwnFramesOK

-----------------------------------------------------------------------------
(* One step.                                                               *)

LEMMA Unmoved ==
  ASSUME StreamSound, UNCHANGED <<out, fwd, sender, load>>, Sending => Sending'
  PROVE  /\ QueueOK' /\ NoSilentGap' /\ OwnFramesOK' /\ PrivateNeedsToken'
         /\ \A f \in DOMAIN fwd' : sender'[fwd'[f].chan] # None
         /\ \A c \in Chan : History(c)' = History(c)
  <1>1. \A c \in Chan : sender[c] # None =>
          sender'[c] # None /\ sender'[c] \in Seq(Nat) /\ Grown(sender[c], sender'[c])
    BY TypeFacts, GrownSame
  <1>2. fwd' \in Seq(Forwarder)  BY ForwarderFacts
  <1>3. QueueOK' /\ NoSilentGap' /\ \A f \in DOMAIN fwd' : sender'[fwd'[f].chan] # None
    BY <1>1, <1>2, GrowKeep
  <1>4. BookFrames' = BookFrames /\ BookForwarder' = BookForwarder
    BY DEF BookFrames, BookForwarder
  <1>5. OwnFramesOK'  BY <1>4, OwnSame DEF StreamSound
  <1>6. PrivateNeedsToken'  BY DEF PrivateNeedsToken, StreamSound, StreamInv
  <1>7. \A c \in Chan : History(c)' = History(c)  BY DEF History
  <1> QED BY <1>3, <1>5, <1>6, <1>7

(* The connection task queues one frame of its own that is no book.        *)
LEMMA Replied ==
  ASSUME StreamSound, NEW what \in What, what # "book", Reply(what),
         UNCHANGED <<fwd, sender, load>>, Sending => Sending'
  PROVE  /\ QueueOK' /\ NoSilentGap' /\ OwnFramesOK' /\ PrivateNeedsToken'
         /\ \A f \in DOMAIN fwd' : sender'[fwd'[f].chan] # None
         /\ \A c \in Chan : History(c)' = History(c)
         /\ out' \in Seq(Frame) /\ Len(out) <= Len(out') /\ Len(out') \in Nat
  <1> DEFINE x == <<0, what, 0>>
  <1>1. x \in Frame /\ x[1] = 0 /\ x[2] = what  BY DEF Frame
  <1>2. out' = out \o <<x>>  BY DEF Reply, Queue
  <1> HIDE DEF x
  <1>3. <<x>> \in Seq(Frame) /\ \A i \in DOMAIN <<x>> : <<x>>[i][1] = 0  BY <1>1
  <1>4. QueueOK' /\ NoSilentGap' /\ out' \in Seq(Frame) /\ Len(out) <= Len(out')
    BY <1>2, <1>3, OwnKeep
  <1>5. out \in Seq(Frame) /\ OwnFramesOK  BY ForwarderFacts DEF StreamSound
  <1>6. OwnFramesOK'
    <2>1. BookForwarder' = BookForwarder  BY DEF BookForwarder
    <2> QED BY <2>1, <1>1, <1>2, <1>5, NonBook
  <1>7. PrivateNeedsToken'  BY DEF PrivateNeedsToken, StreamSound, StreamInv
  <1>8. \A f \in DOMAIN fwd' : sender'[fwd'[f].chan] # None  BY DEF StreamSound, ConnOK
  <1>9. \A c \in Chan : History(c)' = History(c)  BY DEF History
  <1>10. Len(out') \in Nat  BY <1>4
  <1> QED BY <1>4, <1>6, <1>7, <1>8, <1>9, <1>10

StaysTyped ==
  /\ now' \in 0..MaxTime /\ seq' \in 0..MaxSeq /\ heard' \in 0..MaxMessages
  /\ pipe' \in Seq(Event) /\ Len(pipe') <= PipeCapacity
  /\ sender' \in [Chan -> Seq(Nat) \cup {None}] /\ replay' \in Seq(Entry)
  /\ conn' \in {"new", "open", "closed", "timeout"} /\ awaiting' \in BOOLEAN
  /\ subs' \subseteq Chan /\ task' \in Task \cup {None}

ConnSteps ==
  /\ (task # None /\ task.step # "check" => task.todo # <<>> /\ Head(task.todo) = "book")'
  /\ (conn = "new" => fwd = <<>> /\ task = None)'
  /\ (conn = "open" => \A f \in DOMAIN fwd : fwd[f].live)'

(* The invariant from its parts. *)
LEMMA Together ==
  ASSUME StaysTyped, ConnSteps, HubOK', QueueOK', NoSilentGap', OwnFramesOK', PrivateNeedsToken',
         \A f \in DOMAIN fwd' : sender'[fwd'[f].chan] # None,
         out' \in Seq(Frame), fwd' \in Seq(Forwarder), flushed' \in 0..Len(out')
  PROVE  StreamSound'
  <1>1. ASSUME NEW f \in DOMAIN fwd' PROVE fwd'[f].pos >= fwd'[f].from
    <2>1. fwd'[f] \in Forwarder  BY ElementOfSeq
    <2>2. fwd'[f].pos \in Nat  BY <2>1 DEF Forwarder
    <2>3. PlaceOK(f)'  BY DEF QueueOK
    <2>4. fwd'[f].from \in 1..fwd'[f].pos  BY <2>3 DEF PlaceOK
    <2> QED BY <2>2, <2>4
  <1>2. StreamTypeOK'  BY <1>1 DEF StreamTypeOK, StaysTyped
  <1>3. ConnOK'  BY DEF ConnOK, ConnSteps
  <1> QED BY <1>2, <1>3 DEF StreamSound, StreamInv

LEMMA Before ==
  ASSUME StreamSound
  PROVE  /\ now \in 0..MaxTime /\ seq \in 0..MaxSeq /\ heard \in 0..MaxMessages
         /\ pipe \in Seq(Event) /\ Len(pipe) <= PipeCapacity
         /\ sender \in [Chan -> Seq(Nat) \cup {None}] /\ replay \in Seq(Entry)
         /\ conn \in {"new", "open", "closed", "timeout"} /\ awaiting \in BOOLEAN
         /\ subs \subseteq Chan /\ task \in Task \cup {None}
         /\ fwd \in Seq(Forwarder) /\ out \in Seq(Frame) /\ flushed \in 0..Len(out)
         /\ task # None /\ task.step # "check" => task.todo # <<>> /\ Head(task.todo) = "book"
         /\ conn = "new" => fwd = <<>> /\ task = None
         /\ conn = "open" => \A f \in DOMAIN fwd : fwd[f].live
         /\ HubOK
         /\ MaxTime \in Nat /\ MaxSeq \in Nat /\ MaxMessages \in Nat
  BY StreamAssumption DEF StreamSound, StreamInv, StreamTypeOK, ConnOK

LEMMA Flushed ==
  ASSUME StreamSound, Len(out') \in Nat, Len(out) <= Len(out')
  PROVE  flushed \in 0..Len(out')
  <1>1. flushed \in 0..Len(out) /\ Len(out) \in Nat  BY Before, OutParts
  <1> QED BY <1>1

LEMMA TickStep == ASSUME StreamSound, Tick PROVE StreamSound'
  <1> USE Before
  <1>1. UNCHANGED <<seq, pipe, sender, replay, ticked, conn, awaiting, pinged, due,
                    subs, task, fwd, out, flushed, heard, load>> /\ now' = now + 1 /\ now < MaxTime
    BY DEF Tick, hub, beat, peer
  <1>2. now \in Nat /\ now' \in Nat /\ now <= now' /\ now' \in 0..MaxTime  BY <1>1
  <1>3. /\ QueueOK' /\ NoSilentGap' /\ OwnFramesOK' /\ PrivateNeedsToken'
        /\ \A f \in DOMAIN fwd' : sender'[fwd'[f].chan] # None
        /\ \A c \in Chan : History(c)' = History(c)
    <2>1. Sending => Sending'  BY <1>1 DEF Sending
    <2> QED BY <2>1, <1>1, Unmoved
  <1>4. HubOK'  BY <1>1, <1>2, <1>3, HubKeep
  <1>5. StaysTyped  BY <1>1, <1>2 DEF StaysTyped
  <1>6. ConnSteps  BY <1>1 DEF ConnSteps
  <1>7. out' \in Seq(Frame) /\ fwd' \in Seq(Forwarder) /\ flushed' \in 0..Len(out')  BY <1>1
  <1> QED BY <1>3, <1>4, <1>5, <1>6, <1>7, Together

(* Nothing moves but the state of the connection task.                     *)
LEMMA Still ==
  ASSUME StreamSound, UNCHANGED <<now, hub, out, fwd, load>>, StaysTyped, ConnSteps,
         Sending => Sending', flushed' \in 0..Len(out)
  PROVE  StreamSound'
  <1>1. UNCHANGED <<seq, pipe, sender, replay, ticked>>  BY DEF hub
  <1>2. now \in Nat /\ now <= now  BY TypeFacts
  <1>3. /\ QueueOK' /\ NoSilentGap' /\ OwnFramesOK' /\ PrivateNeedsToken'
        /\ \A f \in DOMAIN fwd' : sender'[fwd'[f].chan] # None
        /\ \A c \in Chan : History(c)' = History(c)
    BY <1>1, Unmoved
  <1>4. HubOK'  BY <1>1, <1>2, <1>3, HubKeep, Before
  <1>5. out' \in Seq(Frame) /\ fwd' \in Seq(Forwarder) /\ flushed' \in 0..Len(out')  BY Before
  <1> QED BY <1>3, <1>4, <1>5, Together

(* The connection task answers with one frame that is no book.             *)
LEMMA Talks ==
  ASSUME StreamSound, UNCHANGED <<now, hub, fwd, flushed, load>>, StaysTyped, ConnSteps,
         Sending => Sending', NEW what \in What, what # "book", Reply(what)
  PROVE  StreamSound'
  <1>1. UNCHANGED <<seq, pipe, sender, replay, ticked>>  BY DEF hub
  <1>2. now \in Nat /\ now <= now  BY TypeFacts
  <1>3. /\ QueueOK' /\ NoSilentGap' /\ OwnFramesOK' /\ PrivateNeedsToken'
        /\ \A f \in DOMAIN fwd' : sender'[fwd'[f].chan] # None
        /\ \A c \in Chan : History(c)' = History(c)
        /\ out' \in Seq(Frame) /\ Len(out) <= Len(out') /\ Len(out') \in Nat
    BY <1>1, Replied
  <1>4. HubOK'  BY <1>1, <1>2, <1>3, HubKeep, Before
  <1>5. fwd' \in Seq(Forwarder) /\ flushed' \in 0..Len(out')  BY <1>3, Before, Flushed
  <1> QED BY <1>3, <1>4, <1>5, Together

LEMMA OpenStep == ASSUME StreamSound, Open PROVE StreamSound'
  <1> USE Before
  <1>1. /\ UNCHANGED <<now, hub, out, fwd, load, seq, pipe, sender, replay, awaiting, subs, task, heard, flushed>>
        /\ conn = "new" /\ conn' = "open"
    BY DEF Open, hub, peer
  <1>2. StaysTyped  BY <1>1 DEF StaysTyped
  <1>3. ConnSteps  BY <1>1 DEF ConnSteps
  <1>b. Sending => Sending'  BY <1>1 DEF Sending
  <1> QED BY <1>b, <1>1, <1>2, <1>3, Still

LEMMA PingStep == ASSUME StreamSound, HeartbeatPing \/ Pong PROVE StreamSound'
  <1> USE Before
  <1>1. /\ UNCHANGED <<now, hub, out, fwd, load, seq, pipe, sender, replay, conn, subs, task, heard, flushed>>
        /\ awaiting' \in BOOLEAN
    BY DEF HeartbeatPing, Pong, hub, peer
  <1>2. StaysTyped  BY <1>1 DEF StaysTyped
  <1>3. ConnSteps  BY <1>1 DEF ConnSteps
  <1>b. Sending => Sending'  BY <1>1 DEF Sending
  <1> QED BY <1>b, <1>1, <1>2, <1>3, Still

LEMMA FlushStep == ASSUME StreamSound, Flush PROVE StreamSound'
  <1> USE Before
  <1>1. /\ UNCHANGED <<now, hub, out, fwd, load, seq, pipe, sender, replay, conn, awaiting, subs, task, heard>>
        /\ flushed' = flushed + 1 /\ flushed < Len(out)
    BY DEF Flush, hub, beat
  <1>2. StaysTyped  BY <1>1 DEF StaysTyped
  <1>3. ConnSteps  BY <1>1 DEF ConnSteps
  <1>4. flushed' \in 0..Len(out)  BY <1>1, OutParts
  <1>b. Sending => Sending'  BY <1>1 DEF Sending
  <1> QED BY <1>b, <1>1, <1>2, <1>3, <1>4, Still

LEMMA SubscribeStep == ASSUME StreamSound, NEW m \in Subscribes, Subscribe(m) PROVE StreamSound'
  <1> USE Before
  <1>1. /\ UNCHANGED <<now, hub, out, fwd, load, seq, pipe, sender, replay, conn, awaiting, subs, flushed>>
        /\ heard < MaxMessages /\ heard' = heard + 1 /\ conn = "open" /\ task = None
        /\ task' = [todo |-> m.chans, after |-> m.after, step |-> "check", held |-> <<>>]
    BY DEF Subscribe, Hears, Selecting, hub, beat
  <1>2. task' \in Task
    <2>1. m.chans \in Seq(Chan) /\ m.after \in Nat \cup {None} /\ <<>> \in Seq(Nat)
      BY StreamAssumption
    <2> QED BY <2>1, <1>1 DEF Task
  <1>3. heard' \in 0..MaxMessages  BY <1>1
  <1>4. StaysTyped  BY <1>1, <1>2, <1>3 DEF StaysTyped
  <1>5. task'.step = "check"  BY <1>1
  <1>6. ConnSteps  BY <1>1, <1>5 DEF ConnSteps
  <1>b. Sending => Sending'  BY <1>1 DEF Sending
  <1> QED BY <1>b, <1>1, <1>4, <1>6, Still

LEMMA AnswerStep == ASSUME StreamSound, Answer PROVE StreamSound'
  <1> USE Before
  <1>1. /\ UNCHANGED <<now, hub, fwd, load, seq, pipe, sender, replay, conn, awaiting, subs, task, flushed>>
        /\ heard < MaxMessages /\ heard' = heard + 1 /\ Reply("answer")
    BY DEF Answer, Hears, hub, beat
  <1>2. heard' \in 0..MaxMessages  BY <1>1
  <1>3. StaysTyped  BY <1>1, <1>2 DEF StaysTyped
  <1>4. ConnSteps  BY <1>1 DEF ConnSteps
  <1>5. "answer" \in What /\ "answer" # "book"  BY DEF What
  <1>b. Sending => Sending'  BY <1>1 DEF Sending
  <1> QED BY <1>b, <1>1, <1>3, <1>4, <1>5, Talks

LEMMA UnsubscribeStep == ASSUME StreamSound, NEW c \in Unsubscribes, Unsubscribe(c) PROVE StreamSound'
  <1> USE Before
  <1>1. /\ UNCHANGED <<now, hub, fwd, load, seq, pipe, sender, replay, conn, awaiting, task, flushed>>
        /\ heard < MaxMessages /\ heard' = heard + 1 /\ Reply("ack") /\ subs' \subseteq subs
    BY DEF Unsubscribe, Hears, hub, beat
  <1>2. heard' \in 0..MaxMessages  BY <1>1
  <1>3. StaysTyped  BY <1>1, <1>2 DEF StaysTyped
  <1>4. ConnSteps  BY <1>1 DEF ConnSteps
  <1>5. "ack" \in What /\ "ack" # "book"  BY DEF What
  <1>b. Sending => Sending'  BY <1>1 DEF Sending
  <1> QED BY <1>b, <1>1, <1>3, <1>4, <1>5, Talks

(* The subscribe message in progress. *)
LEMMA TaskFacts ==
  ASSUME StreamSound, task # None
  PROVE  /\ task \in Task /\ task.todo \in Seq(Chan) /\ task.after \in Nat \cup {None}
         /\ task.step \in {"check", "snapshot", "send"} /\ task.held \in Seq(Nat)
         /\ task.todo # <<>> => Head(task.todo) \in Chan /\ Tail(task.todo) \in Seq(Chan)
         /\ /\ [task EXCEPT !.step = "snapshot"] \in Task
            /\ [task EXCEPT !.step = "snapshot"].step = "snapshot"
            /\ [task EXCEPT !.step = "snapshot"].todo = task.todo
         /\ task.todo # <<>> =>
              /\ [task EXCEPT !.todo = Tail(@), !.step = "check"] \in Task
              /\ [task EXCEPT !.todo = Tail(@), !.step = "check"].step = "check"
  <1>1. task \in Task  BY Before
  <1>2. /\ task.todo \in Seq(Chan) /\ task.after \in Nat \cup {None}
        /\ task.step \in {"check", "snapshot", "send"} /\ task.held \in Seq(Nat)
    BY <1>1 DEF Task
  <1>3. task.todo # <<>> => Head(task.todo) \in Chan /\ Tail(task.todo) \in Seq(Chan)
    BY <1>2, HeadTailProperties
  <1>4. /\ [task EXCEPT !.step = "snapshot"] \in Task
        /\ [task EXCEPT !.step = "snapshot"].step = "snapshot"
        /\ [task EXCEPT !.step = "snapshot"].todo = task.todo
    BY <1>1, <1>2 DEF Task
  <1>5. ASSUME task.todo # <<>>
        PROVE  /\ [task EXCEPT !.todo = Tail(@), !.step = "check"] \in Task
               /\ [task EXCEPT !.todo = Tail(@), !.step = "check"].step = "check"
    BY <1>1, <1>2, <1>3, <1>5 DEF Task
  <1> QED BY <1>1, <1>2, <1>3, <1>4, <1>5

(* The handler holds the frames q. *)
LEMMA Holding ==
  ASSUME StreamSound, task # None, NEW q \in Seq(Nat)
  PROVE  LET t == [task EXCEPT !.step = "send", !.held = q] IN
         t \in Task /\ t.todo = task.todo /\ t.step = "send" /\ t # None
  <1>1. task \in Task  BY TaskFacts
  <1>2. [task EXCEPT !.step = "send", !.held = q] \in Task  BY <1>1 DEF Task
  <1>3. [task EXCEPT !.step = "send", !.held = q] # None  BY <1>2, NoneAssumption
  <1>4. /\ [task EXCEPT !.step = "send", !.held = q].todo = task.todo
        /\ [task EXCEPT !.step = "send", !.held = q].step = "send"
    BY <1>1 DEF Task
  <1> QED BY <1>2, <1>3, <1>4

LEMMA SubForbiddenStep == ASSUME StreamSound, SubForbidden PROVE StreamSound'
  <1> USE Before
  <1>1. /\ UNCHANGED <<now, hub, fwd, load, seq, pipe, sender, replay, conn, awaiting, subs, heard, flushed>>
        /\ Reply("forbidden") /\ conn = "open" /\ task # None /\ task.step = "check" /\ task.todo # <<>>
        /\ task' = [task EXCEPT !.todo = Tail(@), !.step = "check"]
    BY DEF SubForbidden, Working, Busy, Advance, hub, beat
  <1>2. task' \in Task /\ task'.step = "check"  BY <1>1, TaskFacts
  <1>3. StaysTyped  BY <1>1, <1>2 DEF StaysTyped
  <1>4. ConnSteps  BY <1>1, <1>2 DEF ConnSteps
  <1>5. "forbidden" \in What /\ "forbidden" # "book"  BY DEF What
  <1>b. Sending => Sending'  BY <1>1 DEF Sending
  <1> QED BY <1>b, <1>1, <1>3, <1>4, <1>5, Talks

LEMMA SubAlreadyStep == ASSUME StreamSound, SubAlready PROVE StreamSound'
  <1> USE Before
  <1>1. /\ UNCHANGED <<now, hub, out, fwd, load, seq, pipe, sender, replay, conn, awaiting, subs, heard, flushed>>
        /\ conn = "open" /\ task # None /\ task.step = "check" /\ task.todo # <<>>
        /\ task' = [task EXCEPT !.todo = Tail(@), !.step = "check"]
    BY DEF SubAlready, Working, Busy, Advance, hub, beat
  <1>2. task' \in Task /\ task'.step = "check"  BY <1>1, TaskFacts
  <1>3. StaysTyped  BY <1>1, <1>2 DEF StaysTyped
  <1>4. ConnSteps  BY <1>1, <1>2 DEF ConnSteps
  <1>b. Sending => Sending'  BY <1>1 DEF Sending
  <1> QED BY <1>b, <1>1, <1>3, <1>4, Still

LEMMA SubAskSnapshotStep == ASSUME StreamSound, SubAskSnapshot PROVE StreamSound'
  <1> USE Before
  <1>1. /\ UNCHANGED <<now, hub, out, fwd, load, seq, pipe, sender, replay, conn, awaiting, subs, heard, flushed>>
        /\ conn = "open" /\ task # None /\ task.step = "check" /\ task.todo # <<>> /\ Head(task.todo) = "book"
        /\ task' = [task EXCEPT !.step = "snapshot"]
    BY DEF SubAskSnapshot, NewBook, Working, Busy, This, hub, beat
  <1>2. task' \in Task /\ task'.todo = task.todo  BY <1>1, TaskFacts
  <1>3. StaysTyped  BY <1>1, <1>2 DEF StaysTyped
  <1>4. ConnSteps  BY <1>1, <1>2 DEF ConnSteps
  <1>b. Sending => Sending'  BY <1>1 DEF Sending
  <1> QED BY <1>b, <1>1, <1>3, <1>4, Still

LEMMA SubDoneStep == ASSUME StreamSound, SubDone PROVE StreamSound'
  <1> USE Before
  <1>1. /\ UNCHANGED <<now, hub, fwd, load, seq, pipe, sender, replay, conn, awaiting, subs, heard, flushed>>
        /\ Reply("ack") /\ conn = "open" /\ task.step = "check" /\ task' = None
    BY DEF SubDone, Busy, hub, beat
  <1>2. StaysTyped  BY <1>1 DEF StaysTyped
  <1>3. ConnSteps  BY <1>1 DEF ConnSteps
  <1>4. "ack" \in What /\ "ack" # "book"  BY DEF What
  <1>b. Sending => Sending'  BY <1>1 DEF Sending
  <1> QED BY <1>b, <1>1, <1>2, <1>3, <1>4, Talks

(* Frames of the book from the connection task itself.                     *)
LEMMA BookFrame ==
  ASSUME NEW n \in Nat
  PROVE  LET x == <<0, "book", n>> IN x \in Frame /\ x[1] = 0 /\ x[2] = "book" /\ x[3] = n
  BY DEF Frame, What, Chan

LEMMA SubSnapshotStep == ASSUME StreamSound, SubSnapshot PROVE StreamSound'
  <1> USE Before
  <1>1. /\ UNCHANGED <<now, hub, out, fwd, load, seq, pipe, sender, replay, conn, awaiting, subs, heard, flushed>>
        /\ conn = "open" /\ task # None /\ task.step = "snapshot"
    BY DEF SubSnapshot, Busy, hub, beat
  <1>2. PICK read \in {<<seq>>, <<>>} : task' = [task EXCEPT !.step = "send", !.held = read]
    BY DEF SubSnapshot
  <1>3. read \in Seq(Nat)
    <2>1. seq \in Nat  BY TypeFacts
    <2>2. <<seq>> \in Seq(Nat) /\ <<>> \in Seq(Nat)  BY <2>1
    <2> QED BY <2>2
  <1>4. task' \in Task /\ task'.todo = task.todo /\ task'.step = "send" /\ task' # None
    BY <1>1, <1>2, <1>3, Holding
  <1>5. task.todo # <<>> /\ Head(task.todo) = "book"  BY <1>1
  <1>6. StaysTyped  BY <1>1, <1>4 DEF StaysTyped
  <1>7. ConnSteps  BY <1>1, <1>4, <1>5 DEF ConnSteps
  <1>8. Sending => Sending'  BY <1>4 DEF Sending
  <1> QED BY <1>1, <1>6, <1>7, <1>8, Still

LEMMA IsSequence ==
  ASSUME NEW S, NEW n \in Nat, NEW s \in [1..n -> S]
  PROVE  s \in Seq(S)
  OBVIOUS

LEMMA ReplayFacts ==
  ASSUME StreamSound, NEW after, ReplayDiffs(after) # None
  PROVE  ReplayDiffs(after) \in Seq(Nat)
  <1>1. Recent \in Seq(Entry)  BY TypeFacts, RecentFacts
  <1>2. Len(Recent) \in Nat /\ DOMAIN Recent = 1..Len(Recent)  BY <1>1
  <1>3. \A i \in DOMAIN Recent : Recent[i].seq \in Nat
    <2>1. \A i \in DOMAIN Recent : Recent[i] \in Entry  BY <1>1, ElementOfSeq
    <2> QED BY <2>1 DEF Entry
  <1>4. ReplayDiffs(after) = [i \in 1..Len(Recent) |-> Recent[i].seq]  BY <1>2 DEF ReplayDiffs
  <1>5. ReplayDiffs(after) \in [1..Len(Recent) -> Nat]  BY <1>2, <1>3, <1>4
  <1> QED BY <1>2, <1>5, IsSequence

LEMMA SubReplayStep == ASSUME StreamSound, SubReplay PROVE StreamSound'
  <1> DEFINE frames == ReplayDiffs(task.after)
  <1>1. /\ UNCHANGED <<now, hub, fwd, load, seq, pipe, sender, replay, conn, awaiting, subs, heard, flushed>>
        /\ conn = "open" /\ task # None /\ task.step = "check"
        /\ task.todo # <<>> /\ Head(task.todo) = "book"
        /\ \/ frames # None /\ out' = out /\ task' = [task EXCEPT !.step = "send", !.held = frames]
           \/ Reply("gap") /\ task' = [task EXCEPT !.step = "snapshot"]
    BY DEF SubReplay, NewBook, Working, Busy, This, hub, beat
  <1> HIDE DEF frames
  <1>2. task' \in Task /\ task'.todo = task.todo
    <2>1. CASE frames # None /\ task' = [task EXCEPT !.step = "send", !.held = frames]
      <3>1. frames \in Seq(Nat)  BY <2>1, ReplayFacts DEF frames
      <3> QED BY <2>1, <3>1, <1>1, Holding
    <2>2. CASE task' = [task EXCEPT !.step = "snapshot"]  BY <2>2, <1>1, TaskFacts
    <2> QED BY <2>1, <2>2, <1>1
  <1>3. StaysTyped  BY <1>1, <1>2, Before DEF StaysTyped
  <1>4. ConnSteps  BY <1>1, <1>2, Before DEF ConnSteps
  <1>5. Sending => Sending'  BY <1>1 DEF Sending
  <1>6. CASE Reply("gap")
    <2>1. "gap" \in What /\ "gap" # "book"  BY DEF What
    <2> QED BY <2>1, <1>1, <1>3, <1>4, <1>5, <1>6, Talks
  <1>7. CASE out' = out  BY <1>1, <1>3, <1>4, <1>5, <1>7, Before, Still
  <1> QED BY <1>1, <1>6, <1>7

LEMMA SubSendStep == ASSUME StreamSound, SubSend PROVE StreamSound'
  <1> DEFINE x == <<0, "book", Head(task.held)>>
  <1>1. /\ UNCHANGED <<now, hub, fwd, load, seq, pipe, sender, replay, ticked, conn, awaiting, subs, heard, flushed>>
        /\ conn = "open" /\ task # None /\ task.step = "send" /\ task.held # <<>>
        /\ task' = [task EXCEPT !.held = Tail(@)] /\ out' = out \o <<x>>
    BY DEF SubSend, Busy, Queue, hub, beat
  <1>2. task \in Task /\ task.held \in Seq(Nat)  BY <1>1, TaskFacts
  <1>3. Head(task.held) \in Nat /\ Tail(task.held) \in Seq(Nat)
    BY <1>1, <1>2, HeadTailProperties
  <1>4. task' \in Task /\ task'.todo = task.todo /\ task'.step = "send"
    BY <1>1, <1>2, <1>3 DEF Task
  <1>5. StaysTyped  BY <1>1, <1>4, Before DEF StaysTyped
  <1>6. ConnSteps  BY <1>1, <1>4, Before DEF ConnSteps
  <1>7. x \in Frame /\ x[1] = 0  BY <1>3, BookFrame
  <1> HIDE DEF x
  <1>8. <<x>> \in Seq(Frame) /\ \A i \in DOMAIN <<x>> : <<x>>[i][1] = 0  BY <1>7
  <1>9. QueueOK' /\ NoSilentGap' /\ out' \in Seq(Frame) /\ Len(out) <= Len(out')
    BY <1>1, <1>8, OwnKeep
  <1>10. OwnFramesOK'
    <2>1. task' # None  BY <1>4, NoneAssumption
    <2> QED BY <2>1, <1>4 DEF OwnFramesOK, Sending
  <1>11. PrivateNeedsToken'  BY <1>1 DEF PrivateNeedsToken, StreamSound, StreamInv
  <1>12. \A f \in DOMAIN fwd' : sender'[fwd'[f].chan] # None  BY <1>1 DEF StreamSound, ConnOK
  <1>13. HubOK'
    <2>1. \A c \in Chan : History(c)' = History(c)  BY <1>1 DEF History
    <2>2. now \in Nat /\ now <= now  BY TypeFacts
    <2> QED BY <2>1, <2>2, <1>1, HubKeep, Before
  <1>14. Len(out') \in Nat  BY <1>9
  <1>15. fwd' \in Seq(Forwarder) /\ flushed' \in 0..Len(out')  BY <1>1, <1>9, <1>14, Before, Flushed
  <1> QED BY <1>5, <1>6, <1>9, <1>10, <1>11, <1>12, <1>13, <1>15, Together

(* A connection ends: the forwarders stay where they are.                  *)
LEMMA BreakStep ==
  ASSUME StreamSound, NEW why \in {"closed", "timeout"}, Break(why)
  PROVE  StreamSound'
  <1> USE Before
  <1>1. /\ UNCHANGED <<now, seq, pipe, sender, replay, ticked, awaiting, subs, task, out, flushed, heard, load>>
        /\ conn' = why /\ fwd' = [i \in DOMAIN fwd |-> [fwd[i] EXCEPT !.live = FALSE]]
    BY DEF Break, hub
  <1>2. /\ Len(fwd) \in Nat /\ DOMAIN fwd = 1..Len(fwd)
        /\ \A f \in DOMAIN fwd : fwd[f] \in Forwarder
    BY ForwarderFacts
  <1>3. DOMAIN fwd' = DOMAIN fwd  BY <1>1
  <1>4. ASSUME NEW f \in DOMAIN fwd
        PROVE  /\ fwd'[f] \in Forwarder /\ fwd'[f].chan = fwd[f].chan
               /\ fwd'[f].pos = fwd[f].pos /\ fwd'[f].from = fwd[f].from
    <2>1. fwd'[f] = [fwd[f] EXCEPT !.live = FALSE]  BY <1>1
    <2>2. fwd[f] \in Forwarder  BY <1>2
    <2> QED BY <2>1, <2>2 DEF Forwarder
  <1>5. fwd' \in Seq(Forwarder)
    <2>1. fwd' \in [1..Len(fwd) -> Forwarder]  BY <1>1, <1>2, <1>4
    <2> QED BY <2>1, <1>2, IsSequence
  <1>6. \A c \in Chan : sender[c] # None =>
          sender'[c] # None /\ sender'[c] \in Seq(Nat) /\ Grown(sender[c], sender'[c])
    BY <1>1, GrownSame
  <1>7. QueueOK' /\ NoSilentGap' /\ \A f \in DOMAIN fwd' : sender'[fwd'[f].chan] # None
    BY <1>1, <1>3, <1>4, <1>5, <1>6, GrowKeep
  <1>8. OwnFramesOK'
    <2>1. BookFrames' = BookFrames  BY <1>1 DEF BookFrames
    <2>2. BookForwarder' = BookForwarder  BY <1>3, <1>4 DEF BookForwarder
    <2>3. Sending => Sending'  BY <1>1 DEF Sending
    <2> QED BY <2>1, <2>2, <2>3, <1>1, OwnSame DEF StreamSound
  <1>9. PrivateNeedsToken'
    BY <1>1, <1>3, <1>4 DEF PrivateNeedsToken, StreamSound, StreamInv
  <1>10. HubOK'
    <2>1. \A c \in Chan : History(c)' = History(c)  BY <1>1 DEF History
    <2>2. now \in Nat /\ now <= now  BY TypeFacts
    <2> QED BY <2>1, <2>2, <1>1, HubKeep
  <1>11. StaysTyped  BY <1>1 DEF StaysTyped
  <1>12. ConnSteps  BY <1>1 DEF ConnSteps
  <1>13. out' \in Seq(Frame) /\ flushed' \in 0..Len(out')  BY <1>1
  <1> QED BY <1>5, <1>7, <1>8, <1>9, <1>10, <1>11, <1>12, <1>13, Together

(* The hub takes a step: channels grow, the connection does not move.      *)
LEMMA HubStep ==
  ASSUME StreamSound, UNCHANGED <<now, conn, awaiting, subs, task, fwd, out, flushed, heard, load>>,
         HubOK', seq' \in 0..MaxSeq, pipe' \in Seq(Event), Len(pipe') <= PipeCapacity,
         replay' \in Seq(Entry), sender' \in [Chan -> Seq(Nat) \cup {None}],
         \A c \in Chan : sender[c] # None =>
           /\ sender'[c] # None /\ sender'[c] \in Seq(Nat) /\ Grown(sender[c], sender'[c])
  PROVE  StreamSound'
  <1> USE Before
  <1>1. QueueOK' /\ NoSilentGap' /\ \A f \in DOMAIN fwd' : sender'[fwd'[f].chan] # None
    BY GrowKeep
  <1>2. OwnFramesOK'
    <2>1. BookFrames' = BookFrames /\ BookForwarder' = BookForwarder
      BY DEF BookFrames, BookForwarder
    <2>2. Sending => Sending'  BY DEF Sending
    <2> QED BY <2>1, <2>2, OwnSame DEF StreamSound
  <1>3. PrivateNeedsToken'  BY DEF PrivateNeedsToken, StreamSound, StreamInv
  <1>4. StaysTyped  BY DEF StaysTyped
  <1>5. ConnSteps  BY DEF ConnSteps
  <1>6. out' \in Seq(Frame) /\ fwd' \in Seq(Forwarder) /\ flushed' \in 0..Len(out')  OBVIOUS
  <1> QED BY <1>1, <1>2, <1>3, <1>4, <1>5, <1>6, Together

LEMMA FeedStep == ASSUME StreamSound, Feed PROVE StreamSound'
  <1>1. /\ \A c \in Chan : sender[c] # None => sender[c] \in Seq(Nat) /\ Grown(sender[c], sender[c])
        /\ pipe \in Seq(Event) /\ Len(pipe) <= PipeCapacity
        /\ replay \in Seq(Entry) /\ sender \in [Chan -> Seq(Nat) \cup {None}]
        /\ seq \in 0..MaxSeq /\ MaxSeq \in Nat
    BY Before, GrownSame
  <1>2. ASSUME NEW k \in Kinds, EngineEvent(k) PROVE StreamSound'
    <2>1. /\ UNCHANGED <<now, conn, awaiting, subs, task, fwd, out, flushed, heard, load, sender, replay>>
          /\ seq' = seq + 1 /\ seq < MaxSeq
      BY <1>2 DEF EngineEvent, beat, peer
    <2>2. seq' \in 0..MaxSeq  BY <2>1, <1>1
    <2>3. HubOK' /\ pipe' \in Seq(Event) /\ Len(pipe') <= PipeCapacity  BY <1>2, EngineEventHub
    <2> QED BY <2>1, <2>2, <2>3, <1>1, HubStep
  <1>3. CASE Dispatch
    <2>1. UNCHANGED <<now, conn, awaiting, subs, task, fwd, out, flushed, heard, load, seq>>
      BY <1>3 DEF Dispatch, beat, peer
    <2> QED BY <2>1, <1>1, <1>3, DispatchHub, HubStep
  <1>4. CASE PublishTicker
    <2>1. UNCHANGED <<now, conn, awaiting, subs, task, fwd, out, flushed, heard, load, seq, pipe, replay>>
      BY <1>4 DEF PublishTicker, beat, peer
    <2> QED BY <2>1, <1>1, <1>4, TickerHub, HubStep
  <1> QED BY <1>2, <1>3, <1>4 DEF Feed

-----------------------------------------------------------------------------
(* A forwarder hands over a frame, or tells of a gap.                      *)

LEMMA ForwardStep ==
  ASSUME StreamSound, NEW f \in DOMAIN fwd, NEW x, NEW np, Forwards(f, x, np),
         UNCHANGED <<now, hub, beat, subs, task, flushed, heard, load>>,
         PlaceOK(f)', GapFree(f)'
  PROVE  StreamSound'
  <1> USE Before
  <1>1. UNCHANGED <<now, seq, pipe, sender, replay, ticked, conn, awaiting, subs, task, flushed, heard, load>>
    BY DEF hub, beat
  <1>2. QueueOK' /\ NoSilentGap' /\ \A g \in DOMAIN fwd' : sender'[fwd'[g].chan] # None
    BY ForwardOthers
  <1>3. /\ out' \in Seq(Frame) /\ Len(out') = Len(out) + 1 /\ Len(out) \in Nat
        /\ fwd' \in Seq(Forwarder) /\ DOMAIN fwd' = DOMAIN fwd
        /\ \A g \in DOMAIN fwd : fwd'[g].chan = fwd[g].chan /\ fwd'[g].live = fwd[g].live
    BY ForwardView
  <1>4. Len(out') \in Nat /\ Len(out) <= Len(out')  BY <1>3
  <1>5. flushed' \in 0..Len(out')  BY <1>1, <1>4, Flushed
  <1>own. OwnFramesOK'
    <2>1. BookForwarder' = BookForwarder  BY <1>3 DEF BookForwarder
    <2>2. Sending => Sending'  BY <1>1 DEF Sending
    <2>3. x \in Frame /\ x[1] # 0 /\ out' = out \o <<x>>  BY ForwarderFacts DEF Forwards
    <2> QED BY <2>1, <2>2, <2>3, ForwardedLast DEF StreamSound
  <1>6. PrivateNeedsToken'
    BY <1>1, <1>3 DEF PrivateNeedsToken, StreamSound, StreamInv
  <1>7. HubOK'
    <2>1. \A c \in Chan : History(c)' = History(c)  BY <1>1 DEF History
    <2>2. now \in Nat /\ now <= now  BY TypeFacts
    <2> QED BY <2>1, <2>2, <1>1, HubKeep
  <1>8. StaysTyped  BY <1>1 DEF StaysTyped
  <1>9. ConnSteps
    <2>1. conn # "new"
      <3>1. fwd # <<>>  OBVIOUS
      <3> QED BY <3>1
    <2> QED BY <2>1, <1>1, <1>3 DEF ConnSteps
  <1> QED BY <1>2, <1>3, <1>5, <1>own, <1>6, <1>7, <1>8, <1>9, Together

LEMMA ForwardFrameStep ==
  ASSUME StreamSound, NEW f \in DOMAIN fwd, ForwardFrame(f)
  PROVE  StreamSound'
  <1> DEFINE c == fwd[f].chan
             pos == fwd[f].pos
             x == <<f, c, sender[c][pos]>>
  <1>1. /\ UNCHANGED <<now, hub, beat, subs, task, flushed, heard, load>> /\ sender' = sender
        /\ out' = out \o <<x>> /\ fwd' = [fwd EXCEPT ![f].pos = @ + 1]
        /\ pos <= Len(sender[c])
    BY DEF ForwardFrame, Queue, Waiting, hub
  <1>2. /\ f \in Nat /\ f # 0 /\ c \in Chan /\ pos \in Nat /\ sender[c] \in Seq(Nat)
        /\ fwd[f].from \in 1..pos /\ out \in Seq(Frame)
    BY ForwarderFacts DEF PlaceOK
  <1>3. sender[c][pos] \in Nat
    <2>1. pos \in 1..Len(sender[c])  BY <1>1, <1>2
    <2> QED BY <2>1, <1>2, ElementOfSeq
  <1>4. x \in Frame /\ x[1] = f /\ x[2] = c  BY <1>2, <1>3 DEF Frame, What
  <1>5. Forwards(f, x, pos + 1)
    <2>1. pos + 1 \in Nat  BY <1>2
    <2>2. fwd' = [fwd EXCEPT ![f].pos = pos + 1]  BY <1>1
    <2> QED BY <2>1, <2>2, <1>1, <1>4 DEF Forwards
  <1>6. PlaceOK(f)' /\ GapFree(f)'  BY <1>1, <1>5, FrameKeep
  <1> HIDE DEF x, c
  <1> QED BY <1>1, <1>5, <1>6, ForwardStep

LEMMA ForwardLagStep ==
  ASSUME StreamSound, NEW f \in DOMAIN fwd, ForwardLag(f)
  PROVE  StreamSound'
  <1> DEFINE x == <<f, "lag", 0>>
             np == Oldest(f)
  <1>1. /\ UNCHANGED <<now, hub, beat, subs, task, flushed, heard, load>> /\ sender' = sender
        /\ out' = out \o <<x>> /\ fwd' = [fwd EXCEPT ![f].pos = np]
        /\ Len(sender[fwd[f].chan]) - fwd[f].pos >= Capacity
        /\ np = Len(sender[fwd[f].chan]) - Capacity + 1
    BY DEF ForwardLag, Queue, Lagged, Oldest, hub
  <1>2. /\ f \in Nat /\ fwd[f].pos \in Nat /\ sender[fwd[f].chan] \in Seq(Nat) /\ out \in Seq(Frame)
    BY ForwarderFacts
  <1>3. Capacity \in Nat /\ Capacity >= 1 /\ Len(sender[fwd[f].chan]) \in Nat
    BY <1>2, StreamAssumption
  <1> HIDE DEF np
  <1>4. np \in Nat /\ fwd[f].pos < np /\ np <= Len(sender[fwd[f].chan])
    <2>1. \A len, pos, k \in Nat : k >= 1 /\ len - pos >= k =>
            len - k + 1 \in Nat /\ pos < len - k + 1 /\ len - k + 1 <= len
      OBVIOUS
    <2> QED BY <2>1, <1>1, <1>2, <1>3
  <1>5. x \in Frame /\ x[1] = f /\ x[2] # "book"  BY <1>2 DEF Frame, What
  <1>6. Forwards(f, x, np)  BY <1>1, <1>4, <1>5 DEF Forwards
  <1>7. PlaceOK(f)' /\ GapFree(f)'  BY <1>4, <1>6, LagKeep
  <1> HIDE DEF x
  <1> QED BY <1>1, <1>6, <1>7, ForwardStep

-----------------------------------------------------------------------------
(* A forwarder joins behind what has been published.                       *)

LEMMA SubJoinStep == ASSUME StreamSound, SubJoin PROVE StreamSound'
  <1>a. PICK c : c = Head(task.todo)  OBVIOUS
  <1>b. PICK n : n = Len(fwd) + 1  OBVIOUS
  <1> DEFINE p == IF sender[c] = None THEN 1 ELSE Len(sender[c]) + 1
             r == [chan |-> c, pos |-> p, from |-> p, live |-> TRUE]
  <1> USE Before
  <1>1. /\ UNCHANGED <<now, seq, pipe, replay, ticked, conn, awaiting, out, flushed, heard, load>>
        /\ sender' = [sender EXCEPT ![c] = IF @ = None THEN <<>> ELSE @]
        /\ fwd' = Append(fwd, r) /\ subs' = subs \cup {c}
        /\ task' = [task EXCEPT !.todo = Tail(@), !.step = "check"]
        /\ conn = "open" /\ task # None
        /\ task.step # "check" \/ (task.todo # <<>> /\ ~Forbidden(c))
    BY <1>a DEF SubJoin, Busy, Working, Advance, This, Receiver, beat
  <1>2. task.todo # <<>> /\ (c = "book" \/ ~Forbidden(c))  BY <1>a, <1>1
  <1>3. task' \in Task /\ task'.step = "check" /\ c \in Chan  BY <1>a, <1>1, <1>2, TaskFacts
  <1> HIDE DEF r
  <1>4. /\ sender' \in [Chan -> Seq(Nat) \cup {None}]
        /\ sender'[c] = History(c) /\ sender'[c] # None /\ sender'[c] \in Seq(Nat)
        /\ \A d \in Chan : sender[d] # None => sender'[d] = sender[d]
        /\ \A d \in Chan : d # c => sender'[d] = sender[d]
    <2>1. <<>> \in Seq(Nat)  OBVIOUS
    <2>2. sender'[c] = History(c)  BY <1>1, <1>3 DEF History
    <2>3. History(c) \in Seq(Nat)  BY <1>3, TypeFacts
    <2>4. \A d \in Chan : d # c => sender'[d] = sender[d]  BY <1>1
    <2>5. sender'[c] # None  BY <2>2, <2>3, NoneAssumption
    <2>6. sender' \in [Chan -> Seq(Nat) \cup {None}]
      <3>1. sender' = [sender EXCEPT ![c] = History(c)]  BY <1>1, <1>3 DEF History
      <3> QED BY <3>1, <2>3
    <2>7. sender[c] # None => sender'[c] = sender[c]  BY <2>2 DEF History
    <2> QED BY <2>2, <2>3, <2>4, <2>5, <2>6, <2>7
  <1>5. \A d \in Chan : History(d)' = History(d)
    <2>1. History(c)' = History(c)  BY <1>4 DEF History
    <2>2. \A d \in Chan : d # c => History(d)' = History(d)  BY <1>4 DEF History
    <2> QED BY <2>1, <2>2
  <1>6. \A d \in Chan : sender[d] # None =>
          sender'[d] # None /\ sender'[d] \in Seq(Nat) /\ Grown(sender[d], sender'[d])
    BY <1>4, GrownSame
  <1>7. p \in Nat /\ p = Len(sender'[c]) + 1 /\ p >= 1
    <2>1. CASE sender[c] = None
      <3>1. sender'[c] = <<>> /\ p = 1  BY <2>1, <1>4 DEF History
      <3> QED BY <3>1
    <2>2. CASE sender[c] # None
      <3>1. sender'[c] = sender[c] /\ Len(sender'[c]) \in Nat  BY <2>2, <1>3, <1>4
      <3> QED BY <3>1, <2>2
    <2> QED BY <2>1, <2>2
  <1> HIDE DEF p
  <1>8. r \in Forwarder /\ r.chan = c /\ r.pos = p /\ r.from = p /\ r.live = TRUE
    BY <1>3, <1>7 DEF r, Forwarder
  <1>9. /\ Len(fwd) \in Nat /\ DOMAIN fwd = 1..Len(fwd)
        /\ \A g \in DOMAIN fwd : fwd[g].chan \in Chan /\ sender[fwd[g].chan] \in Seq(Nat)
                                  /\ PlaceOK(g) /\ GapFree(g)
    BY ForwarderFacts
  <1>10. /\ fwd' \in Seq(Forwarder) /\ Len(fwd') = n /\ DOMAIN fwd' = DOMAIN fwd \cup {n}
         /\ \A g \in DOMAIN fwd : fwd'[g] = fwd[g]
         /\ fwd'[n] = r /\ n \notin DOMAIN fwd
    <2>1. /\ fwd' \in Seq(Forwarder) /\ Len(fwd') = Len(fwd) + 1
          /\ \A i \in 1..Len(fwd) : fwd'[i] = fwd[i]
          /\ fwd'[Len(fwd) + 1] = r
      BY <1>1, <1>8, AppendProperties
    <2>2. DOMAIN fwd' = 1..Len(fwd) + 1  BY <2>1
    <2> QED BY <2>1, <2>2, <1>9, <1>b
  <1>11. ASSUME NEW g \in DOMAIN fwd PROVE PlaceOK(g)' /\ GapFree(g)' /\ sender'[fwd'[g].chan] # None
    <2>1. fwd'[g] = fwd[g] /\ g \in DOMAIN fwd'  BY <1>10
    <2>2. sender[fwd[g].chan] # None  BY DEF StreamSound, ConnOK
    <2>3. /\ sender'[fwd[g].chan] # None /\ sender'[fwd[g].chan] \in Seq(Nat)
          /\ Grown(sender[fwd[g].chan], sender'[fwd[g].chan])
      BY <2>2, <1>6, <1>9
    <2>4. Of(g)' = Of(g) /\ \A i \in Of(g) : out'[i] = out[i]  BY <1>1 DEF Of
    <2>5. PlaceOK(g)' /\ GapFree(g)'  BY <2>1, <2>3, <2>4, <1>9, <1>10, KeepPlace
    <2> QED BY <2>1, <2>3, <2>5
  <1>12. PlaceOK(n)' /\ GapFree(n)' /\ sender'[fwd'[n].chan] # None
    <2>1. Of(n)' = {}
      <3>1. \A i \in DOMAIN out : out[i][1] \in 0..Len(fwd)  BY DEF StreamSound, QueueOK
      <3>2. \A i \in DOMAIN out : out[i][1] # n  BY <3>1, <1>9, <1>b
      <3> QED BY <3>2, <1>1 DEF Of
    <2>2. Frames(n)' = {}  BY <2>1 DEF Frames
    <2>3. LastOf(n)' = {}  BY <2>1 DEF LastOf
    <2>4. GapFree(n)'  BY <2>2 DEF GapFree
    <2>5. p \in 1..p /\ p <= Len(sender'[c]) + 1  BY <1>7
    <2>6. fwd'[n].chan = c /\ fwd'[n].pos = p /\ fwd'[n].from = p  BY <1>8, <1>10
    <2>7. PlaceOK(n)'
      <3>1. /\ fwd'[n].from \in 1..fwd'[n].pos /\ fwd'[n].pos <= Len(sender'[fwd'[n].chan]) + 1
            /\ fwd'[n].pos = fwd'[n].from
        BY <2>5, <2>6
      <3> QED BY <3>1, <2>1, <2>3 DEF PlaceOK
    <2> QED BY <2>4, <2>6, <2>7, <1>4
  <1>13. \A g \in DOMAIN fwd' : PlaceOK(g)' /\ GapFree(g)' /\ sender'[fwd'[g].chan] # None
    BY <1>10, <1>11, <1>12
  <1>14. QueueOK'
    <2>1. \A i \in DOMAIN out' : out'[i][1] \in 0..Len(fwd')
      <3>1. \A i \in DOMAIN out : out[i][1] \in 0..Len(fwd)  BY DEF StreamSound, QueueOK
      <3>2. \A i \in DOMAIN out : out[i][1] \in 0..Len(fwd) + 1  BY <3>1, <1>9
      <3> QED BY <3>2, <1>1, <1>10, <1>b
    <2> QED BY <2>1, <1>13 DEF QueueOK
  <1>15. NoSilentGap'  BY <1>13, GapFreeAll
  <1>16. OwnFramesOK'
    <2>1. BookFrames' = BookFrames  BY <1>1 DEF BookFrames
    <2>2. CASE c = "book"
      <3>1. n \in BookForwarder'  BY <2>2, <1>8, <1>10 DEF BookForwarder
      <3>2. \A i \in DOMAIN out : out[i][1] \in 0..Len(fwd)  BY DEF StreamSound, QueueOK
      <3>3. ASSUME NEW f \in BookForwarder', Latest(f)', NEW j \in BookFrames', out'[j][1] = f
            PROVE  FALSE
        <4>1. n <= f  BY <3>1, <3>3 DEF Latest
        <4>2. j \in DOMAIN out /\ out[j][1] = f  BY <1>1, <3>3 DEF BookFrames
        <4>3. f \in 0..Len(fwd)  BY <3>2, <4>2
        <4> QED BY <4>1, <4>3, <1>9, <1>b
      <3> QED BY <3>3 DEF OwnFramesOK
    <2>3. CASE c # "book"
      <3>1. BookForwarder' = BookForwarder  BY <2>3, <1>8, <1>10 DEF BookForwarder
      <3>2. ~Sending  BY <2>3, <1>a DEF Sending
      <3> QED BY <2>1, <3>1, <3>2, <1>1, OwnSame DEF StreamSound
    <2> QED BY <2>2, <2>3
  <1>17. PrivateNeedsToken'
    <2>1. c \in Private => "token" \in load  BY <1>2 DEF Forbidden, Private
    <2>2. \A g \in DOMAIN fwd : fwd[g].chan \in Private => "token" \in load
      BY DEF StreamSound, StreamInv, PrivateNeedsToken
    <2> QED BY <2>1, <2>2, <1>1, <1>8, <1>10 DEF PrivateNeedsToken
  <1>18. HubOK'
    <2>1. now \in Nat /\ now <= now  BY TypeFacts
    <2> QED BY <2>1, <1>1, <1>5, HubKeep
  <1>19. StaysTyped
    <2>1. subs' \subseteq Chan  BY <1>1, <1>3
    <2> QED BY <2>1, <1>1, <1>3, <1>4 DEF StaysTyped
  <1>20. ConnSteps
    <2>1. \A g \in DOMAIN fwd' : fwd'[g].live  BY <1>1, <1>8, <1>10
    <2> QED BY <2>1, <1>1, <1>3 DEF ConnSteps
  <1>21. out' \in Seq(Frame) /\ flushed' \in 0..Len(out')  BY <1>1
  <1> QED BY <1>10, <1>13, <1>14, <1>15, <1>16, <1>17, <1>18, <1>19, <1>20, <1>21, Together

-----------------------------------------------------------------------------
(* The whole specification.                                                *)

LEMMA StreamInit == Init => StreamSound
  <1> SUFFICES ASSUME Init PROVE StreamSound
    OBVIOUS
  <1>1. /\ now = 0 /\ seq = 0 /\ pipe = <<>> /\ ticked = 0 /\ sender = [c \in Chan |-> None]
        /\ replay = <<>> /\ conn = "new" /\ awaiting = FALSE /\ subs = {} /\ task = None
        /\ fwd = <<>> /\ out = <<>> /\ flushed = 0 /\ heard = 0
    BY DEF Init
  <1>2. DOMAIN fwd = {} /\ DOMAIN out = {} /\ DOMAIN pipe = {} /\ Len(out) = 0 /\ Len(pipe) = 0
    BY <1>1
  <1>3. MaxTime \in Nat /\ MaxSeq \in Nat /\ MaxMessages \in Nat /\ PipeCapacity \in Nat
    BY StreamAssumption
  <1>4. /\ pipe \in Seq(Event) /\ replay \in Seq(Entry) /\ fwd \in Seq(Forwarder)
        /\ out \in Seq(Frame)
    BY <1>1
  <1>5. sender \in [Chan -> Seq(Nat) \cup {None}]  BY <1>1
  <1>6. StreamTypeOK
    <2>1. now \in 0..MaxTime /\ seq \in 0..MaxSeq /\ heard \in 0..MaxMessages  BY <1>1, <1>3
    <2>2. Len(pipe) <= PipeCapacity /\ flushed \in 0..Len(out)  BY <1>1, <1>2, <1>3
    <2>3. /\ conn \in {"new", "open", "closed", "timeout"} /\ awaiting \in BOOLEAN
          /\ subs \subseteq Chan /\ task \in Task \cup {None}
      BY <1>1
    <2>4. \A f \in DOMAIN fwd : fwd[f].pos >= fwd[f].from  BY <1>2
    <2> QED BY <2>1, <2>2, <2>3, <2>4, <1>4, <1>5 DEF StreamTypeOK
  <1>7. PrivateNeedsToken  BY <1>2 DEF PrivateNeedsToken
  <1>8. NoSilentGap  BY <1>2 DEF NoSilentGap
  <1>9. HubOK
    <2>1. \A c \in Chan : sender[c] = None  BY <1>1
    <2>2. \A c \in Chan : DOMAIN History(c) = {}
      <3>1. \A c \in Chan : History(c) = <<>>  BY <2>1 DEF History
      <3>2. DOMAIN <<>> = {}  OBVIOUS
      <3> QED BY <3>1, <3>2
    <2>3. DOMAIN History("book") = {} /\ DOMAIN History("ticker") = {}  BY <2>2 DEF Chan
    <2>4. \A c \in Chan : Increasing(History(c))  BY <2>2 DEF Increasing
    <2>5. ticked \in Nat /\ ticked <= now  BY <1>1
    <2> QED BY <2>2, <2>3, <2>4, <2>5, <1>2 DEF HubOK
  <1>10. ConnOK  BY <1>1, <1>2 DEF ConnOK
  <1>11. QueueOK  BY <1>2 DEF QueueOK
  <1>12. OwnFramesOK  BY <1>2 DEF OwnFramesOK, BookForwarder
  <1> QED BY <1>6, <1>7, <1>8, <1>9, <1>10, <1>11, <1>12 DEF StreamSound, StreamInv

LEMMA StreamNext == StreamSound /\ [Next]_vars => StreamSound'
  <1> SUFFICES ASSUME StreamSound, [Next]_vars PROVE StreamSound'
    OBVIOUS
  <1>1. CASE Tick  BY <1>1, TickStep
  <1>2. CASE Feed  BY <1>2, FeedStep
  <1>3. CASE Beat
    <2>1. CASE HeartbeatPing  BY <2>1, PingStep
    <2>2. CASE HeartbeatTimeout
      <3>1. Break("timeout")  BY <2>2 DEF HeartbeatTimeout
      <3> QED BY <3>1, BreakStep
    <2> QED BY <2>1, <2>2, <1>3 DEF Beat
  <1>4. CASE Work
    BY <1>4, SubForbiddenStep, SubAlreadyStep, SubReplayStep, SubAskSnapshotStep,
       SubSnapshotStep, SubSendStep, SubJoinStep, SubDoneStep DEF Work
  <1>5. CASE Message
    <2>1. CASE ClientCloses
      <3>1. Break("closed")  BY <2>1 DEF ClientCloses
      <3> QED BY <3>1, BreakStep
    <2>2. CASE Pong  BY <2>2, PingStep
    <2> QED BY <2>1, <2>2, <1>5, AnswerStep, OpenStep, SubscribeStep, UnsubscribeStep DEF Message
  <1>6. CASE Forward  BY <1>6, ForwardFrameStep, ForwardLagStep DEF Forward
  <1>7. CASE Flush  BY <1>7, FlushStep
  <1>8. CASE FlushFails
    <2>1. Break("closed")  BY <1>8 DEF FlushFails
    <2> QED BY <2>1, BreakStep
  <1>9. CASE UNCHANGED vars
    <2>1. UNCHANGED <<now, hub, out, fwd, load, seq, pipe, sender, replay, conn, awaiting, subs, task, heard, flushed>>
      BY <1>9 DEF vars, hub, beat, peer
    <2>2. StaysTyped  BY <2>1, Before DEF StaysTyped
    <2>3. ConnSteps  BY <2>1, Before DEF ConnSteps
    <2>4. Sending => Sending'  BY <2>1 DEF Sending
    <2> QED BY <2>1, <2>2, <2>3, <2>4, Before, Still
  <1>10. CASE HeartbeatPingFails
    <2>1. Break("closed")  BY <1>10 DEF HeartbeatPingFails
    <2> QED BY <2>1, BreakStep
  <1> QED BY <1>1, <1>2, <1>3, <1>4, <1>5, <1>6, <1>7, <1>8, <1>9, <1>10 DEF Next

LEMMA LastBookFrame ==
  ASSUME out \in Seq(Frame), BookFrames # {}
  PROVE  \E j \in BookFrames : \A k \in BookFrames : k <= j
  <1>1. Len(out) \in Nat /\ DOMAIN out = 1..Len(out)  BY OutParts
  <1>2. \A i \in BookFrames : i \in 1..Len(out)  BY <1>1 DEF BookFrames
  <1> DEFINE T == {Len(out) - i : i \in BookFrames}
  <1>3. T \subseteq Nat /\ T # {}  BY <1>1, <1>2
  <1>4. PICK d \in T : \A m \in T : d <= m  BY <1>3, LeastNat
  <1>5. PICK j \in BookFrames : d = Len(out) - j  OBVIOUS
  <1>6. ASSUME NEW k \in BookFrames PROVE k <= j
    <2>1. Len(out) - k \in T  OBVIOUS
    <2>2. Len(out) - j <= Len(out) - k  BY <2>1, <1>4, <1>5
    <2> QED BY <2>2, <1>1, <1>2
  <1> QED BY <1>6

(* A forwarder of the book that has nothing left to hand over: if it has   *)
(* handed over anything, the last of it is the newest delta.               *)
LEMMA CaughtUp ==
  ASSUME StreamSound, Drained, conn = "open", NEW f \in DOMAIN fwd, fwd[f].chan = "book",
         fwd[f].from <= Len(sender["book"])
  PROVE  \E i \in LastOf(f) : /\ i \in BookFrames /\ out[i][3] = sender["book"][Len(sender["book"])]
  <1> DEFINE s == sender["book"]
  <1>1. /\ PlaceOK(f) /\ fwd[f].pos \in Nat /\ fwd[f].from \in Nat /\ s \in Seq(Nat) /\ Len(s) \in Nat
    BY ForwarderFacts
  <1>2. fwd[f].live /\ s # None  BY DEF StreamSound, ConnOK
  <1>3. ~(fwd[f].pos <= Len(s))  BY <1>2 DEF Drained, Waiting
  <1> HIDE DEF s
  <1>4. fwd[f].pos = Len(s) + 1
    <2>1. fwd[f].pos <= Len(s) + 1  BY <1>1 DEF PlaceOK, s
    <2> QED BY <2>1, <1>1, <1>3
  <1>5. fwd[f].pos # fwd[f].from  BY <1>1, <1>4 DEF s
  <1>6. PICK i : i \in LastOf(f)  BY <1>1, <1>5 DEF PlaceOK
  <1>7. i \in Frames(f) /\ out[i][3] = s[fwd[f].pos - 1]  BY <1>1, <1>3, <1>6 DEF PlaceOK, s
  <1>8. out[i][2] = "book" /\ i \in DOMAIN out
    <2>1. i \in Of(f)  BY <1>7 DEF Frames
    <2> QED BY <2>1, <1>1, <1>7 DEF PlaceOK, Of
  <1>9. fwd[f].pos - 1 = Len(s)  BY <1>1, <1>4
  <1> QED BY <1>6, <1>7, <1>8, <1>9 DEF BookFrames, s

(* A forwarder that has caught up has queued the newest book.  Behind the  *)
(* frame of the latest one come only frames of forwarders, which have      *)
(* caught up as well.                                                      *)
LEMMA SoundIsCurrent == StreamSound => QuietClientCurrent
  <1> SUFFICES ASSUME StreamSound, Drained, conn = "open", NEW f \in BookForwarder, Served(f)
               PROVE  /\ \E i \in BookFrames : Newest(i)
                      /\ (\A g \in BookForwarder : g <= f) /\ ~Busy("snapshot") /\ ~Busy("send") =>
                           \E i \in BookFrames : Newest(i) /\ \A k \in BookFrames : k <= i
    BY DEF QuietClientCurrent
  <1> DEFINE s == sender["book"]
             v == s[Len(s)]
  <1>0. f \in DOMAIN fwd /\ fwd[f].chan = "book" /\ Len(s) >= fwd[f].from
    BY DEF BookForwarder, Served
  <1>1. /\ out \in Seq(Frame) /\ s \in Seq(Nat) /\ Len(s) \in Nat
        /\ fwd[f].from \in Nat /\ f # 0 /\ fwd[f].from >= 1
    BY <1>0, ForwarderFacts DEF PlaceOK
  <1>2. v \in Nat /\ Last(s) = v
    <2>1. Len(s) \in 1..Len(s)  BY <1>0, <1>1
    <2>2. v \in Nat  BY <2>1, <1>1, ElementOfSeq
    <2> QED BY <2>2 DEF Last
  <1>3. PICK i \in LastOf(f) : i \in BookFrames /\ out[i][3] = v
    <2>1. fwd[f].from <= Len(s)  BY <1>0, <1>1
    <2> QED BY <2>1, <1>0, CaughtUp
  <1>4. out[i][1] = f  BY DEF LastOf, Of
  <1> HIDE DEF v
  <1>5. Newest(i)  BY <1>2, <1>3 DEF Newest
  <1> SUFFICES ASSUME \A g \in BookForwarder : g <= f, ~Busy("snapshot"), ~Busy("send")
               PROVE  \E j \in BookFrames : Newest(j) /\ \A k \in BookFrames : k <= j
    BY <1>3, <1>5
  <1>6. PICK j \in BookFrames : \A k \in BookFrames : k <= j  BY <1>1, <1>3, LastBookFrame
  <1>7. j \in DOMAIN out /\ i \in DOMAIN out /\ j \in Nat /\ i \in Nat
    <2>1. j \in DOMAIN out /\ i \in DOMAIN out  BY <1>3 DEF BookFrames
    <2> QED BY <2>1, <1>1, OutParts
  <1>8. out[j][1] # 0
    <2>1. ~Sending
      <3>1. task # None => task.step \in {"check", "snapshot", "send"}  BY TaskFacts
      <3> QED BY <3>1 DEF Sending, Busy
    <2>2. Latest(f)  BY DEF Latest
    <2>3. out[j][1] = 0 => j < i  BY <2>1, <2>2, <1>3, <1>4 DEF StreamSound, OwnFramesOK
    <2>4. i <= j  BY <1>3, <1>6
    <2> QED BY <2>3, <2>4, <1>7
  <1>9. PICK g : g = out[j][1]  OBVIOUS
  <1>10. g \in DOMAIN fwd
    <2>1. g \in 0..Len(fwd) /\ g # 0  BY <1>7, <1>8, <1>9 DEF StreamSound, QueueOK
    <2>2. Len(fwd) \in Nat /\ DOMAIN fwd = 1..Len(fwd)  BY ForwarderFacts
    <2> QED BY <2>1, <2>2
  <1>11. PlaceOK(g) /\ fwd[g].from \in Nat /\ fwd[g].pos \in Nat  BY <1>10, ForwarderFacts
  <1>12. j \in Frames(g) /\ j \in Of(g) /\ out[j][2] = "book"  BY <1>9 DEF Frames, Of, BookFrames
  <1>13. fwd[g].chan = "book"  BY <1>11, <1>12 DEF PlaceOK
  <1>14. PICK p \in fwd[g].from..fwd[g].pos - 1 : TRUE  BY <1>11, <1>12 DEF PlaceOK
  <1>15. fwd[g].from <= Len(s)
    <2>1. fwd[g].pos <= Len(s) + 1  BY <1>11, <1>13 DEF PlaceOK
    <2> QED BY <2>1, <1>1, <1>11, <1>14
  <1>16. PICK m \in LastOf(g) : m \in BookFrames /\ out[m][3] = v
    BY <1>10, <1>13, <1>15, CaughtUp DEF v
  <1>17. m = j
    <2>1. j <= m  BY <1>12 DEF LastOf
    <2>2. m <= j  BY <1>6, <1>16
    <2>3. m \in DOMAIN out  BY <1>16 DEF BookFrames
    <2>4. m \in Nat  BY <2>3, <1>1, OutParts
    <2> QED BY <2>1, <2>2, <2>4, <1>7
  <1>18. Newest(j)  BY <1>2, <1>16, <1>17 DEF Newest
  <1> QED BY <1>6, <1>18

(* The inductive invariant holds in every behaviour of handlers/ws.rs and  *)
(* ws/hub.rs.                                                              *)
THEOREM StreamIsSound == Spec => []StreamSound
  BY StreamInit, StreamNext, PTL DEF Spec

(* Hub and connection task keep their state well formed, and no forwarder  *)
(* of orders or fills runs on a connection without a token, whatever the   *)
(* order of subscribe messages (handle_client_message's check).            *)
THEOREM StreamSafe == Spec => []StreamInv
  <1>1. StreamSound => StreamInv  BY DEF StreamSound
  <1> QED BY <1>1, StreamIsSound, PTL

(* spawn_forwarder never skips a frame without queueing GAP_TOO_LARGE,     *)
(* for any channel capacity.                                               *)
THEOREM GapsAreAnnounced == Spec => []NoSilentGap
  <1>1. StreamSound => NoSilentGap  BY DEF StreamSound
  <1> QED BY <1>1, StreamIsSound, PTL

(* Once the forwarders of an open connection have caught up with a delta   *)
(* published after the client joined, the highest numbered book frame it   *)
(* was sent is the newest book; and so is the last book frame, if it has   *)
(* not subscribed once more since.  Neither a snapshot that was overtaken  *)
(* while it was awaited (handlers/ws.rs, send_book_snapshot), a replay, a  *)
(* forwarder left over from an earlier subscription nor a lag changes it.  *)
THEOREM QuietClientsAreCurrent == Spec => []QuietClientCurrent
  BY SoundIsCurrent, StreamIsSound, PTL
=============================================================================
