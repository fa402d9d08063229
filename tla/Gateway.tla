------------------------------ MODULE Gateway -------------------------------
(***************************************************************************)
(* The two middlewares every request of the API passes: the rate limiter,  *)
(* which counts in Redis, and the check of HMAC-signed requests, with its  *)
(* clock window, its API keys in Postgres and its replay marks in Redis.   *)
(*                                                                         *)
(* A request reads the clock, and gives way before each call to Redis or   *)
(* Postgres: its time stamp is older than the state it meets.  Redis may   *)
(* stop answering: the limiter then lets everything pass and the replay    *)
(* check nothing.  A signature is what its header says: the key, the time  *)
(* stamp, and how the digits are written, for the verification decodes     *)
(* upper and lower case alike.  Requests that do not verify are refused    *)
(* without a trace and are not modelled, nor two signatures whose first    *)
(* twelve digits agree, nor an API that is configured without Redis.       *)
(***************************************************************************)
EXTENDS Naturals, Integers, FiniteSets, FiniteSetsExt

CONSTANTS
  Clients,       \* what a limit is counted for: an address or a user
  Tiers,         \* classes of endpoints
  Bucketed,      \* the tiers whose key carries the number of the window
  Limit,         \* requests per window
  Window,        \* length of a window, in ticks
  Grace,         \* what PEXPIRE adds to the window
  Requests,      \* requests that may be in flight together
  Keys,          \* API keys
  Spellings,     \* ways to write hexadecimal digits
  Signatures,    \* headers of signed requests that clients send, perhaps repeatedly
  Workloads,     \* sets of <<tier, signed>>: the clients of a behaviour keep to one
  MaxSkew,       \* MAX_SKEW_MS
  ReplayTtl,     \* REPLAY_TTL_SECS
  MaxTime,       \* bound of the clock, and ...
  Horizon        \* ... for each workload, if its exploration ends earlier

ASSUME GatewayAssumption ==
  /\ Bucketed \subseteq Tiers
  /\ {Limit, Window} \subseteq Nat \ {0}
  /\ {Grace, MaxSkew, ReplayTtl, MaxTime} \subseteq Nat
  /\ IsFiniteSet(Requests) /\ Requests # {}
  /\ Signatures \subseteq [key : Keys, ts : Nat, hex : Spellings]
  /\ Workloads \subseteq SUBSET (Tiers \X BOOLEAN) /\ Horizon \in [Workloads -> Nat]

(* A mark outlives the window of time stamps on both sides of the clock:   *)
(* ten seconds, twice the five of the skew.                                *)
ASSUME MarksOutliveWindow == 2 * MaxSkew <= ReplayTtl

VARIABLES
  now,
  redisUp,    \* Redis answers
  slots,      \* the sorted set of every rate-limit key: how often each time stamp
  apiKeys,    \* the api_keys table
  replay,     \* hmac_replay marks: when each one lapses (-1: not set)
  req,        \* requests on their way
  workload,   \* what the clients of this behaviour ask for
  \* What happened, for the properties only:
  admitted,   \* requests the limiter counted and let pass in time, per time stamp
  accepted    \* signed requests that were let pass: checked at, marked at

vars == <<now, redisUp, slots, apiKeys, replay, req, workload, admitted, accepted>>

Times == 0 .. MaxTime
Idle == [pc |-> "idle"]
NoSignature == [key |-> "none", ts |-> 0, hex |-> "none"]

(* The key of a request: the tier and the client, and in a bucketed tier the *)
(* number of the window its time stamp falls into.                           *)
WindowBucket(at) == at \div Window
RlKey(tier, who, at) == <<tier, who, IF tier \in Bucketed THEN WindowBucket(at) ELSE 0>>
RlKeys == {RlKey(tier, who, at) : tier \in Tiers, who \in Clients, at \in Times}

NoStamps == [t \in Times |-> 0]
Count(stamps) == SumFunctionOnSet(stamps, Times)

Init ==
  /\ now = 0 /\ redisUp = TRUE
  /\ slots = [k \in RlKeys |-> [stamps |-> NoStamps, lapses |-> 0]]
  /\ apiKeys = [k \in Keys |-> "absent"]
  /\ replay = [s \in Signatures |-> -1]
  /\ req = [r \in Requests |-> Idle] /\ workload \in Workloads
  /\ admitted = [c \in Tiers \X Clients |-> NoStamps]
  /\ accepted = {}

Tick ==
  /\ now < MaxTime /\ now < Horizon[workload] /\ now' = now + 1
  /\ UNCHANGED <<redisUp, slots, apiKeys, replay, req, admitted, accepted, workload>>

RedisFails ==
  /\ redisUp /\ redisUp' = FALSE
  /\ UNCHANGED <<now, slots, apiKeys, replay, req, admitted, accepted, workload>>

RedisReturns ==
  /\ ~redisUp /\ redisUp' = TRUE
  /\ UNCHANGED <<now, slots, apiKeys, replay, req, admitted, accepted, workload>>

Goto(r, pc) == req' = [req EXCEPT ![r].pc = pc]
End(r) == req' = [req EXCEPT ![r] = Idle]
At(r, pc) == req[r].pc = pc

-----------------------------------------------------------------------------
(* rate_limit_middleware reads the clock and classifies the request. *)
Arrive(r, tier, who, sig) ==
  /\ req[r] = Idle
  /\ <<tier, sig \in Signatures>> \in workload
  /\ req' = [req EXCEPT ![r] =
       [pc |-> "limit", tier |-> tier, who |-> who, at |-> now, sig |-> sig, checked |-> 0,
        late |-> sig \in Signatures /\ apiKeys[sig.key] = "revoked"]]
  /\ UNCHANGED <<now, redisUp, slots, apiKeys, replay, admitted, accepted, workload>>

(* Mutant of Kept: the window is a tick too short. *)
KeptShort(k, at) ==
  [t \in Times |->
     IF now > slots[k].lapses \/ t <= at - Window + 1 THEN 0 ELSE slots[k].stamps[t]]

(* The script is atomic: it drops what is older than a window before the time *)
(* stamp of this request, and adds the stamp unless the set is full.  Redis   *)
(* forgets the whole set when nothing was added for a window and a second.    *)
Kept(k, at) ==
  [t \in Times |->
     IF now > slots[k].lapses \/ t <= at - Window THEN 0 ELSE slots[k].stamps[t]]

(* Mutant of SlidingWindow: the limit admits one more. *)
SlidingWindowOneMore(k, at) ==
  LET kept == Kept(k, at)
      added == Count(kept) <= Limit
      after == IF added THEN [kept EXCEPT ![at] = @ + 1] ELSE kept
  IN [added |-> added,
      entry |-> [stamps |-> after,
                 lapses |-> IF added THEN now + Window + Grace ELSE slots[k].lapses]]

SlidingWindow(k, at) ==
  LET kept == Kept(k, at)
      added == Count(kept) < Limit
      after == IF added THEN [kept EXCEPT ![at] = @ + 1] ELSE kept
  IN [added |-> added,
      entry |-> [stamps |-> after,
                 lapses |-> IF added THEN now + Window + Grace ELSE slots[k].lapses]]

(* The request was not held up between its clock and Redis for longer than   *)
(* the second that PEXPIRE adds: after that the set may be forgotten, and    *)
(* the request is not counted together with the earlier ones of its window.  *)
InTime(r) == now - req[r].at <= Grace

(* The limiter's clock is not used any more. *)
AfterLimit(r) ==
  IF req[r].sig \in Signatures
  THEN req' = [req EXCEPT ![r].pc = "skew", ![r].at = 0]
  ELSE End(r)

CheckRateLimit(r) ==
  /\ At(r, "limit") /\ redisUp
  /\ LET k == RlKey(req[r].tier, req[r].who, req[r].at)
         outcome == SlidingWindow(k, req[r].at) IN
     /\ slots' = [slots EXCEPT ![k] = outcome.entry]
     /\ \/ /\ outcome.added
           /\ admitted' = IF ~InTime(r) THEN admitted
                          ELSE [admitted EXCEPT ![<<req[r].tier, req[r].who>>][req[r].at] = @ + 1]
           /\ AfterLimit(r)
        \/ ~outcome.added /\ End(r) /\ UNCHANGED admitted       \* 429
  /\ UNCHANGED <<now, redisUp, apiKeys, replay, accepted, workload>>

RateLimitFailsOpen(r) ==
  /\ At(r, "limit") /\ ~redisUp
  /\ AfterLimit(r)
  /\ UNCHANGED <<now, redisUp, slots, apiKeys, replay, admitted, accepted, workload>>

-----------------------------------------------------------------------------
(* hmac_auth_middleware: the clock is read a second time. *)
InWindow(ts) == now - ts <= MaxSkew /\ ts - now <= MaxSkew

CheckSkew(r) ==
  /\ At(r, "skew")
  /\ \/ InWindow(req[r].sig.ts)
        /\ req' = [req EXCEPT ![r].pc = "find_key", ![r].checked = now]
     \/ ~InWindow(req[r].sig.ts) /\ End(r)                      \* SIG_TIMESTAMP
  /\ UNCHANGED <<now, redisUp, slots, apiKeys, replay, admitted, accepted, workload>>

(* Mutant of KeyFound: revoked_at is not looked at. *)
KeyFoundRevoked(k) == apiKeys[k] # "absent"

KeyFound(k) == apiKeys[k] = "active"

(* The row and the secret are fetched by two queries, each of keys that are *)
(* not revoked; the answer may come later than the key lives.               *)
FindApiKey(r) ==
  /\ At(r, "find_key")
  /\ \/ KeyFound(req[r].sig.key) /\ Goto(r, "secret")
     \/ ~KeyFound(req[r].sig.key) /\ End(r)            \* SIG_INVALID
  /\ UNCHANGED <<now, redisUp, slots, apiKeys, replay, admitted, accepted, workload>>

DecryptSecret(r) ==
  /\ At(r, "secret")
  /\ \/ KeyFound(req[r].sig.key) /\ Goto(r, "replay")
     \/ ~KeyFound(req[r].sig.key) /\ End(r)
  /\ UNCHANGED <<now, redisUp, slots, apiKeys, replay, admitted, accepted, workload>>

(* Mutant of Marked: the mark lapses a tick early. *)
MarkedShort(s) == replay[s] >= 0 /\ now < replay[s]

Marked(s) == replay[s] >= 0 /\ now <= replay[s]

(* SET NX EX of the key and the text of the header; an error of Redis      *)
(* counts as a mark that is already there.                                 *)
CheckReplay(r) ==
  /\ At(r, "replay") /\ End(r)
  /\ LET s == req[r].sig IN
     \/ /\ redisUp /\ ~Marked(s)
        /\ replay' = [replay EXCEPT ![s] = now + ReplayTtl]
        /\ accepted' = accepted \cup {[sig |-> s, nth |-> Cardinality({a \in accepted : a.sig = s}),
                                       checked |-> req[r].checked, marked |-> now]}
     \/ /\ ~redisUp \/ Marked(s)                                \* SIG_REPLAY
        /\ UNCHANGED <<replay, accepted>>
  /\ UNCHANGED <<now, redisUp, slots, apiKeys, admitted, workload>>

(* A query fails: the request is answered with 500. *)
DbFails(r) ==
  /\ \/ At(r, "find_key") \/ At(r, "secret")
  /\ End(r)
  /\ UNCHANGED <<now, redisUp, slots, apiKeys, replay, admitted, accepted, workload>>

-----------------------------------------------------------------------------
CreateApiKey(k) ==
  /\ apiKeys[k] = "absent"
  /\ apiKeys' = [apiKeys EXCEPT ![k] = "active"]
  /\ UNCHANGED <<now, redisUp, slots, replay, req, admitted, accepted, workload>>

RevokeApiKey(k) ==
  /\ apiKeys[k] = "active"
  /\ apiKeys' = [apiKeys EXCEPT ![k] = "revoked"]
  /\ UNCHANGED <<now, redisUp, slots, replay, req, admitted, accepted, workload>>

Next ==
  \/ Tick \/ RedisFails \/ RedisReturns
  \/ \E k \in Keys : CreateApiKey(k) \/ RevokeApiKey(k)
  \/ \E r \in Requests :
       \/ \E tier \in Tiers, who \in Clients, sig \in Signatures \cup {NoSignature} :
            Arrive(r, tier, who, sig)
       \/ CheckRateLimit(r) \/ RateLimitFailsOpen(r)
       \/ CheckSkew(r) \/ FindApiKey(r) \/ DecryptSecret(r) \/ CheckReplay(r) \/ DbFails(r)

Spec == Init /\ [][Next]_vars

-----------------------------------------------------------------------------
InFlight ==
  [pc : {"limit", "skew", "find_key", "secret", "replay"}, tier : Tiers, who : Clients,
   at : Times, sig : Signatures \cup {NoSignature}, checked : Times, late : BOOLEAN]

(* The counters, the marks and the requests on their way are well formed, and *)
(* no rate-limit set holds more than the limit.                               *)
GatewayTypeOK ==
  /\ now \in Times /\ redisUp \in BOOLEAN
  /\ slots \in [RlKeys -> [stamps : [Times -> 0 .. Limit], lapses : Nat]]
  /\ apiKeys \in [Keys -> {"absent", "active", "revoked"}]
  /\ replay \in [Signatures -> Int]
  /\ req \in [Requests -> InFlight \cup {Idle}]

AdmittedIn(tier, who, from, to) ==
  SumFunctionOnSet(admitted[<<tier, who>>], {t \in Times : from <= t /\ t <= to})

(* Fixed buckets: in any stretch as long as a window, however the requests     *)
(* overtake each other between their clock and Redis, a client gets at most    *)
(* twice the limit through in time, and within one bucket never more than the  *)
(* limit.                                                                      *)
BucketsAdmitTwice ==
  \A tier \in Bucketed, who \in Clients, t \in Times :
    /\ AdmittedIn(tier, who, t - Window + 1, t) <= 2 * Limit
    /\ t % Window = 0 => AdmittedIn(tier, who, t, t + Window - 1) <= Limit

(* One sliding set: among the requests that reach Redis in time, the limit     *)
(* holds for every stretch as long as a window, except for requests whose time *)
(* stamp was overtaken on the way; they are fewer than can be in flight.       *)
SlidingAdmitsLimit ==
  \A tier \in Tiers \ Bucketed, who \in Clients, t \in Times :
    AdmittedIn(tier, who, t - Window + 1, t) <= Limit + Cardinality(Requests) - 1

(* Both kinds of limit hold, and the counters stay in shape. *)
LimitsHold == GatewayTypeOK /\ BucketsAdmitTwice /\ SlidingAdmitsLimit

(* Replay: the same header is let pass a second time only when the second      *)
(* request took longer from the clock check to the mark than the first one     *)
(* did.  So handlers that are not held up accept every header once, and a      *)
(* signature as often as there are ways to write its first twelve digits.      *)
ReplayNeedsDelay ==
  \A a, b \in accepted :
    a.sig = b.sig /\ a.nth < b.nth => b.marked - b.checked > a.marked - a.checked

(* A request signed with a key that was revoked before it arrived never gets   *)
(* as far as the replay check.                                                 *)
RevokedKeyRefused == \A r \in Requests : At(r, "replay") => ~req[r].late

-----------------------------------------------------------------------------
(* A statement of the repository that the code does not meet.  PRD 459 has the *)
(* server "block replay" of a signature: whatever the digits look like, it     *)
(* would take a delay to have one accepted twice.                              *)
SignatureNeedsDelay ==
  \A a, b \in accepted :
    /\ a # b /\ a.sig.key = b.sig.key /\ a.sig.ts = b.sig.ts
    => a.marked - a.checked # b.marked - b.checked
=============================================================================
