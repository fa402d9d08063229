---------------------------- MODULE GatewayProofs ---------------------------
(***************************************************************************)
(* For any number of clients, keys, signatures and requests in flight: a   *)
(* key revoked before a request arrives refuses it, a signature passes a   *)
(* second time only through a handler that was held up for longer, and no  *)
(* client gets more requests through in a window than the limits allow,    *)
(* however its requests overtake each other on the way to Redis.           *)
(***************************************************************************)
EXTENDS Gateway, Sums

Within(ts, at) == at - ts <= MaxSkew /\ ts - at <= MaxSkew

(* What a request on its way has passed. *)
RequestOK(h, keys, time) ==
  /\ h.pc # "limit" => h.sig \in Signatures
  /\ h.late => /\ h.sig \in Signatures /\ keys[h.sig.key] = "revoked"
               /\ h.pc \notin {"secret", "replay"}
  /\ h.pc \in {"find_key", "secret", "replay"} =>
       Within(h.sig.ts, h.checked) /\ h.checked <= time

RequestsOK == \A r \in Requests : req[r] # Idle => RequestOK(req[r], apiKeys, now)

Acceptance == [sig : Signatures, nth : Nat, checked : Times, marked : Times]

Group(acc, s) == {a \in acc : a.sig = s}

(* An accepted request came in its window, its mark still covers it, and   *)
(* its number is below that of the next one with its signature.            *)
AcceptedOK(acc, marks, time) ==
  \A a \in acc :
    /\ Within(a.sig.ts, a.checked) /\ a.checked <= a.marked /\ a.marked <= time
    /\ a.marked + ReplayTtl <= marks[a.sig]
    /\ a.nth < Cardinality(Group(acc, a.sig))

Shapes ==
  /\ now \in Times
  /\ apiKeys \in [Keys -> {"absent", "active", "revoked"}]
  /\ replay \in [Signatures -> Int]
  /\ req \in [Requests -> InFlight \cup {Idle}]
  /\ accepted \subseteq Acceptance /\ IsFiniteSet(accepted)

GatewayInv ==
  Shapes /\ RequestsOK /\ AcceptedOK(accepted, replay, now) /\ ReplayNeedsDelay

-----------------------------------------------------------------------------
LEMMA Constants ==
  /\ MaxSkew \in Nat /\ ReplayTtl \in Nat /\ MaxTime \in Nat /\ 2 * MaxSkew <= ReplayTtl
  /\ \A s \in Signatures : s.key \in Keys /\ s.ts \in Nat
  /\ Times \subseteq Nat /\ 0 \in Times
  <1>1. {Grace, MaxSkew, ReplayTtl, MaxTime} \subseteq Nat
    BY GatewayAssumption
  <1>2. \A s \in Signatures : s \in [key : Keys, ts : Nat, hex : Spellings]  BY GatewayAssumption
  <1> QED BY <1>1, <1>2, MarksOutliveWindow DEF Times

LEMMA InFlightIsNotIdle ==
  /\ Idle \notin InFlight
  /\ \A h \in InFlight \cup {Idle} : h.pc # "idle" <=> h \in InFlight
  BY DEF InFlight, Idle

LEMMA Here ==
  ASSUME GatewayInv, NEW r \in Requests, req[r].pc # "idle"
  PROVE  req[r] \in InFlight /\ req[r] # Idle /\ RequestOK(req[r], apiKeys, now)
  BY InFlightIsNotIdle DEF GatewayInv, Shapes, RequestsOK

(* A request moves; keys are only ever revoked and the clock only runs on. *)
LEMMA RequestMoves ==
  ASSUME GatewayInv, NEW r \in Requests, NEW h \in InFlight \cup {Idle},
         UNCHANGED <<now, apiKeys>>, h # Idle => RequestOK(h, apiKeys, now),
         req' = [req EXCEPT ![r] = h]
  PROVE  req' \in [Requests -> InFlight \cup {Idle}] /\ RequestsOK'
  <1>1. req \in [Requests -> InFlight \cup {Idle}]  BY DEF GatewayInv, Shapes
  <1>2. req'[r] = h /\ \A q \in Requests : q # r => req'[q] = req[q]  BY <1>1
  <1>3. \A q \in Requests : req'[q] # Idle => RequestOK(req'[q], apiKeys', now')
    BY <1>2 DEF GatewayInv, RequestsOK
  <1> QED BY <1>1, <1>3 DEF RequestsOK

LEMMA GatewayInit == Init => GatewayInv
  <1> SUFFICES ASSUME Init PROVE GatewayInv  OBVIOUS
  <1>1. Shapes  BY Constants, FS_EmptySet DEF Init, Shapes
  <1>2. RequestsOK  BY DEF Init, RequestsOK
  <1>3. AcceptedOK(accepted, replay, now) /\ ReplayNeedsDelay
    BY DEF Init, AcceptedOK, ReplayNeedsDelay
  <1> QED BY <1>1, <1>2, <1>3 DEF GatewayInv

(* Steps that accept nothing. *)
LEMMA OnlyRequestMoves ==
  ASSUME GatewayInv, UNCHANGED <<now, apiKeys, replay, accepted>>,
         NEW r \in Requests, NEW h \in InFlight \cup {Idle},
         h # Idle => RequestOK(h, apiKeys, now), req' = [req EXCEPT ![r] = h]
  PROVE  GatewayInv'
  <1>1. req' \in [Requests -> InFlight \cup {Idle}] /\ RequestsOK'  BY RequestMoves
  <1>2. Shapes'  BY <1>1 DEF GatewayInv, Shapes
  <1> QED BY <1>1, <1>2 DEF GatewayInv, ReplayNeedsDelay

LEMMA Ends ==
  ASSUME GatewayInv, UNCHANGED <<now, apiKeys, replay, accepted>>, NEW r \in Requests, End(r)
  PROVE  GatewayInv'
  BY OnlyRequestMoves DEF End

LEMMA GoesOn ==
  ASSUME GatewayInv, UNCHANGED <<now, apiKeys, replay, accepted>>, NEW r \in Requests,
         req[r].pc # "idle", NEW pc \in {"limit", "skew", "find_key", "secret", "replay"}, Goto(r, pc),
         RequestOK([req[r] EXCEPT !.pc = pc], apiKeys, now)
  PROVE  GatewayInv'
  <1> DEFINE h == [req[r] EXCEPT !.pc = pc]
  <1>1. req[r] \in InFlight  BY Here
  <1>2. h \in InFlight  BY <1>1 DEF InFlight
  <1>3. req' = [req EXCEPT ![r] = h]  BY DEF Goto, GatewayInv, Shapes
  <1>4. RequestOK(h, apiKeys, now)  OBVIOUS
  <1> HIDE DEF h
  <1> QED BY <1>2, <1>3, <1>4, OnlyRequestMoves

LEMMA Arrives ==
  ASSUME GatewayInv, NEW r \in Requests, NEW tier \in Tiers, NEW who \in Clients,
         NEW sig \in Signatures \cup {NoSignature}, Arrive(r, tier, who, sig)
  PROVE  GatewayInv'
  <1> DEFINE h == [pc |-> "limit", tier |-> tier, who |-> who, at |-> now, sig |-> sig,
                   checked |-> 0, late |-> sig \in Signatures /\ apiKeys[sig.key] = "revoked"]
  <1>1. now \in Times /\ 0 \in Times  BY Constants DEF GatewayInv, Shapes
  <1>2. h \in InFlight  BY <1>1 DEF InFlight
  <1>3. RequestOK(h, apiKeys, now)  BY DEF RequestOK
  <1>4. req' = [req EXCEPT ![r] = h] /\ UNCHANGED <<now, apiKeys, replay, accepted>>
    BY DEF Arrive
  <1> HIDE DEF h
  <1> QED BY <1>2, <1>3, <1>4, OnlyRequestMoves

LEMMA Limits ==
  ASSUME GatewayInv, NEW r \in Requests, CheckRateLimit(r) \/ RateLimitFailsOpen(r)
  PROVE  GatewayInv'
  <1>1. UNCHANGED <<now, apiKeys, replay, accepted>> /\ req[r].pc = "limit"
    BY DEF CheckRateLimit, RateLimitFailsOpen, At
  <1>2. AfterLimit(r) \/ End(r)  BY DEF CheckRateLimit, RateLimitFailsOpen
  <1>3. CASE req[r].sig \in Signatures /\ req' = [req EXCEPT ![r].pc = "skew", ![r].at = 0]
    <2> DEFINE h == [req[r] EXCEPT !.pc = "skew", !.at = 0]
    <2>1. req[r] \in InFlight /\ RequestOK(req[r], apiKeys, now)  BY <1>1, Here
    <2>2. h \in InFlight  BY <2>1, Constants DEF InFlight
    <2>3. RequestOK(h, apiKeys, now)  BY <1>3, <2>1 DEF RequestOK, InFlight
    <2>4. req' = [req EXCEPT ![r] = h]  BY <1>3 DEF GatewayInv, Shapes
    <2> HIDE DEF h
    <2> QED BY <1>1, <2>2, <2>3, <2>4, OnlyRequestMoves
  <1> QED BY <1>1, <1>2, <1>3, Ends DEF AfterLimit

LEMMA ChecksSkew ==
  ASSUME GatewayInv, NEW r \in Requests, CheckSkew(r)
  PROVE  GatewayInv'
  <1>1. UNCHANGED <<now, apiKeys, replay, accepted>> /\ req[r].pc = "skew"
    BY DEF CheckSkew, At
  <1>2. req[r] \in InFlight /\ RequestOK(req[r], apiKeys, now)  BY <1>1, Here
  <1>3. CASE InWindow(req[r].sig.ts)
             /\ req' = [req EXCEPT ![r].pc = "find_key", ![r].checked = now]
    <2> DEFINE h == [req[r] EXCEPT !.pc = "find_key", !.checked = now]
    <2>1. now \in Times /\ now \in Nat  BY Constants DEF GatewayInv, Shapes
    <2>2. h \in InFlight  BY <1>2, <2>1 DEF InFlight
    <2>3. h.pc = "find_key" /\ h.checked = now /\ h.sig = req[r].sig /\ h.late = req[r].late
      BY <1>2 DEF InFlight
    <2>4. req' = [req EXCEPT ![r] = h]  BY <1>3 DEF GatewayInv, Shapes
    <2> HIDE DEF h
    <2>5. RequestOK(h, apiKeys, now)
      BY <1>1, <1>2, <1>3, <2>1, <2>3 DEF RequestOK, InWindow, Within
    <2> QED BY <1>1, <2>2, <2>4, <2>5, OnlyRequestMoves
  <1> QED BY <1>1, <1>3, Ends DEF CheckSkew

LEMMA ChecksKey ==
  ASSUME GatewayInv, NEW r \in Requests, FindApiKey(r) \/ DecryptSecret(r) \/ DbFails(r)
  PROVE  GatewayInv'
  <1>1. UNCHANGED <<now, apiKeys, replay, accepted>> /\ req[r].pc \in {"find_key", "secret"}
    BY DEF FindApiKey, DecryptSecret, DbFails, At
  <1>2. req[r] \in InFlight /\ RequestOK(req[r], apiKeys, now)  BY <1>1, Here
  <1>3. ASSUME NEW pc \in {"secret", "replay"}, apiKeys[req[r].sig.key] = "active", Goto(r, pc)
        PROVE  GatewayInv'
    <2>1. RequestOK([req[r] EXCEPT !.pc = pc], apiKeys, now)
      <3> DEFINE h == [req[r] EXCEPT !.pc = pc]
      <3>1. h.pc = pc /\ h.checked = req[r].checked /\ h.sig = req[r].sig /\ h.late = req[r].late
        BY <1>2 DEF InFlight
      <3> HIDE DEF h
      <3>2. RequestOK(h, apiKeys, now)  BY <1>1, <1>2, <1>3, <3>1 DEF RequestOK
      <3> QED BY <3>2 DEF h
    <2> QED BY <1>1, <1>3, <2>1, GoesOn
  <1> QED BY <1>1, <1>3, Ends DEF FindApiKey, DecryptSecret, DbFails, KeyFound

LEMMA TimePasses ==
  ASSUME GatewayInv, now' \in Times, now <= now', UNCHANGED <<apiKeys, replay, accepted, req>>
  PROVE  GatewayInv'
  <1>1. now \in Nat /\ now' \in Nat  BY Constants DEF GatewayInv, Shapes
  <1>2. Shapes'  BY DEF GatewayInv, Shapes
  <1>3. RequestsOK'
    <2> SUFFICES ASSUME NEW r \in Requests, req[r] # Idle PROVE RequestOK(req[r], apiKeys, now')
      BY DEF RequestsOK
    <2>1. req[r] \in InFlight /\ RequestOK(req[r], apiKeys, now)
      BY InFlightIsNotIdle DEF GatewayInv, RequestsOK, Shapes
    <2>2. req[r].checked \in Nat  BY <2>1, Constants DEF InFlight
    <2> QED BY <1>1, <2>1, <2>2 DEF RequestOK
  <1>4. AcceptedOK(accepted, replay, now')
    <2>1. \A a \in accepted : a.marked \in Nat  BY Constants DEF GatewayInv, Shapes, Acceptance
    <2> QED BY <1>1, <2>1 DEF AcceptedOK, GatewayInv
  <1> QED BY <1>2, <1>3, <1>4 DEF GatewayInv, ReplayNeedsDelay

LEMMA KeysChange ==
  ASSUME GatewayInv, NEW k \in Keys, CreateApiKey(k) \/ RevokeApiKey(k)
  PROVE  GatewayInv'
  <1>1. UNCHANGED <<now, replay, accepted, req>>  BY DEF CreateApiKey, RevokeApiKey
  <1>2. apiKeys' \in [Keys -> {"absent", "active", "revoked"}]
    BY DEF CreateApiKey, RevokeApiKey, GatewayInv, Shapes
  <1>3. \A j \in Keys : apiKeys[j] = "revoked" => apiKeys'[j] = "revoked"
    BY DEF CreateApiKey, RevokeApiKey, GatewayInv, Shapes
  <1>4. Shapes'  BY <1>1, <1>2 DEF GatewayInv, Shapes
  <1>5. RequestsOK'
    <2> SUFFICES ASSUME NEW r \in Requests, req[r] # Idle PROVE RequestOK(req[r], apiKeys', now)
      BY <1>1 DEF RequestsOK
    <2>1. RequestOK(req[r], apiKeys, now)  BY DEF GatewayInv, RequestsOK
    <2> QED BY <1>3, <2>1, Constants DEF RequestOK
  <1> QED BY <1>1, <1>4, <1>5 DEF GatewayInv, ReplayNeedsDelay

-----------------------------------------------------------------------------
(* A signature is accepted. *)

LEMMA Accepts ==
  ASSUME GatewayInv, NEW r \in Requests, At(r, "replay"), End(r), UNCHANGED <<now, apiKeys>>,
         ~Marked(req[r].sig), replay' = [replay EXCEPT ![req[r].sig] = now + ReplayTtl],
         accepted' = accepted \cup
           {[sig |-> req[r].sig, nth |-> Cardinality({a \in accepted : a.sig = req[r].sig}),
             checked |-> req[r].checked, marked |-> now]}
  PROVE  GatewayInv'
  <1>1. req[r] \in InFlight /\ RequestOK(req[r], apiKeys, now)  BY Here DEF At
  <1>2. PICK s \in Signatures : s = req[r].sig  BY <1>1 DEF RequestOK, At
  <1>3. PICK c \in Times : c = req[r].checked  BY <1>1 DEF InFlight
  <1>4. Within(s.ts, c) /\ c <= now  BY <1>1, <1>2, <1>3 DEF RequestOK, At
  <1>5. now \in Times /\ now \in Nat /\ c \in Nat /\ s.ts \in Nat /\ s.key \in Keys
        /\ MaxSkew \in Nat /\ ReplayTtl \in Nat /\ 2 * MaxSkew <= ReplayTtl
    BY Constants DEF GatewayInv, Shapes
  <1>6. replay \in [Signatures -> Int] /\ accepted \subseteq Acceptance /\ IsFiniteSet(accepted)
    BY DEF GatewayInv, Shapes
  <1> DEFINE n == Cardinality(Group(accepted, s))
             b == [sig |-> s, nth |-> n, checked |-> c, marked |-> now]
  <1>7. IsFiniteSet(Group(accepted, s)) /\ n \in Nat
    <2>1. Group(accepted, s) \in SUBSET accepted  BY DEF Group
    <2> QED BY <1>6, <2>1, FS_Subset, FS_CardinalityType
  <1>8. b \in Acceptance /\ b.sig = s /\ b.nth = n /\ b.checked = c /\ b.marked = now
    BY <1>2, <1>3, <1>5, <1>7 DEF Acceptance
  <1>9. accepted' = accepted \cup {b}  BY <1>2, <1>3 DEF Group
  <1> HIDE DEF b
  <1>10. replay' \in [Signatures -> Int] /\ replay'[s] = now + ReplayTtl
         /\ \A t \in Signatures : t # s => replay'[t] = replay[t]
    BY <1>2, <1>5, <1>6
  <1>11. accepted' \subseteq Acceptance /\ IsFiniteSet(accepted')
    <2>1. IsFiniteSet(accepted \cup {b})  BY <1>6, FS_AddElement
    <2> QED BY <1>6, <1>8, <1>9, <2>1
  <1>12. req' \in [Requests -> InFlight \cup {Idle}] /\ RequestsOK'
    BY RequestMoves DEF End
  <1>13. Shapes'  BY <1>5, <1>10, <1>11, <1>12 DEF Shapes, GatewayInv
  <1>14. ASSUME NEW a \in accepted
         PROVE  /\ a \in Acceptance /\ a.marked \in Nat /\ a.checked \in Nat /\ a.nth \in Nat
                /\ a.sig \in Signatures
                /\ Within(a.sig.ts, a.checked) /\ a.checked <= a.marked /\ a.marked <= now
                /\ a.marked + ReplayTtl <= replay[a.sig]
                /\ a.nth < Cardinality(Group(accepted, a.sig))
    BY <1>6, Constants DEF Acceptance, GatewayInv, AcceptedOK
  <1>15. ASSUME NEW a \in accepted, a.sig = s PROVE a.nth < n /\ a.marked + ReplayTtl < now
    <2>1. a.nth < n  BY <1>14, <1>15
    <2>2. replay[s] \in Int /\ a.marked + ReplayTtl <= replay[s] /\ a.marked \in Nat
      BY <1>6, <1>14, <1>15
    <2>3. replay[s] < now  BY <1>2, <1>5, <2>2 DEF Marked
    <2> QED BY <1>5, <2>1, <2>2, <2>3
  <1>16. b \notin Group(accepted, s)  BY <1>7, <1>8, <1>15 DEF Group
  <1>17. Group(accepted', s) = Group(accepted, s) \cup {b}  BY <1>8, <1>9 DEF Group
  <1>18. Cardinality(Group(accepted', s)) = n + 1
    BY <1>7, <1>16, <1>17, FS_AddElement
  <1>19. \A t : t # s => Group(accepted', t) = Group(accepted, t)  BY <1>8, <1>9 DEF Group
  <1>20. AcceptedOK(accepted', replay', now')
    <2> SUFFICES ASSUME NEW a \in accepted'
                 PROVE  /\ Within(a.sig.ts, a.checked) /\ a.checked <= a.marked /\ a.marked <= now'
                        /\ a.marked + ReplayTtl <= replay'[a.sig]
                        /\ a.nth < Cardinality(Group(accepted', a.sig))
      BY DEF AcceptedOK
    <2>1. CASE a = b
      BY <1>4, <1>5, <1>7, <1>8, <1>10, <1>18, <2>1
    <2>2. CASE a # b /\ a.sig = s
      <3>1. a \in accepted  BY <1>9, <2>2
      <3>2. a.nth < n /\ a.nth \in Nat /\ a.marked \in Nat  BY <1>14, <1>15, <2>2, <3>1
      <3>3. a.nth < Cardinality(Group(accepted', a.sig))  BY <1>7, <1>18, <2>2, <3>2
      <3>4. a.marked + ReplayTtl <= replay'[a.sig]
        BY <1>5, <1>10, <1>14, <2>2, <3>1, <3>2
      <3> QED BY <1>14, <3>1, <3>3, <3>4
    <2>3. CASE a # b /\ a.sig # s
      <3>1. a \in accepted  BY <1>9, <2>3
      <3> QED BY <1>10, <1>14, <1>19, <2>3, <3>1
    <2> QED BY <2>1, <2>2, <2>3
  <1>21. ReplayNeedsDelay'
    <2> SUFFICES ASSUME NEW x \in accepted', NEW y \in accepted', x.sig = y.sig, x.nth < y.nth
                 PROVE  y.marked - y.checked > x.marked - x.checked
      BY DEF ReplayNeedsDelay
    <2>1. CASE x \in accepted /\ y \in accepted  BY <2>1 DEF GatewayInv, ReplayNeedsDelay
    <2>2. CASE x \in accepted /\ y = b
      <3>1. x.sig = s  BY <1>8, <2>2
      <3>2. x.marked + ReplayTtl < now /\ Within(s.ts, x.checked)
            /\ x.marked \in Nat /\ x.checked \in Nat
        BY <1>14, <1>15, <2>2, <3>1
      <3>3. now - c > x.marked - x.checked  BY <1>4, <1>5, <3>2 DEF Within
      <3> QED BY <1>8, <2>2, <3>3
    <2>3. CASE x = b /\ y \in accepted
      <3>1. y.nth < n /\ y.nth \in Nat  BY <1>8, <1>14, <1>15, <2>3
      <3> QED BY <1>7, <1>8, <2>3, <3>1
    <2>4. CASE x = b /\ y = b  BY <1>7, <1>8, <2>4
    <2> QED BY <1>9, <2>1, <2>2, <2>3, <2>4
  <1> QED BY <1>12, <1>13, <1>20, <1>21 DEF GatewayInv

LEMMA GatewayStep == GatewayInv /\ [Next]_vars => GatewayInv'
  <1> SUFFICES ASSUME GatewayInv, [Next]_vars PROVE GatewayInv'  OBVIOUS
  <1>1. now \in Times /\ now \in Nat /\ MaxTime \in Nat  BY Constants DEF GatewayInv, Shapes
  <1>2. CASE Tick
    <2>1. now' \in Times /\ now <= now'  BY <1>1, <1>2 DEF Tick, Times
    <2> QED BY <1>2, <2>1, TimePasses DEF Tick
  <1>3. CASE RedisFails \/ RedisReturns \/ UNCHANGED vars
    <2>1. now <= now' /\ now' \in Times  BY <1>1, <1>3 DEF RedisFails, RedisReturns, vars
    <2> QED BY <1>3, <2>1, TimePasses DEF RedisFails, RedisReturns, vars
  <1>4. ASSUME NEW r \in Requests, CheckReplay(r) PROVE GatewayInv'
    <2>1. CASE UNCHANGED <<replay, accepted>>  BY <1>4, <2>1, Ends DEF CheckReplay
    <2> QED BY <1>4, <2>1, Accepts DEF CheckReplay
  <1> QED BY <1>2, <1>3, <1>4, KeysChange, Arrives, Limits, ChecksSkew, ChecksKey DEF Next

LEMMA GatewayAlways == Spec => []GatewayInv
  BY GatewayInit, GatewayStep, PTL DEF Spec

(* hmac_auth_middleware: because the mark of a signature header outlives   *)
(* the window of time stamps, a repetition of the header passes            *)
(* check_replay only when it was held up between its clock check and its   *)
(* mark, for longer than the request it repeats.  A header that writes the *)
(* digits of the signature in another way has a mark of its own.           *)
THEOREM ReplaySafe == Spec => []ReplayNeedsDelay
  <1>1. GatewayInv => ReplayNeedsDelay  BY DEF GatewayInv
  <1> QED BY <1>1, GatewayAlways, PTL

(* The two queries of hmac_auth_middleware look for keys that are not      *)
(* revoked: a key revoked before the request arrived lets nothing reach    *)
(* the replay check, whatever is created or revoked in between.            *)
THEOREM RevokedSafe == Spec => []RevokedKeyRefused
  <1>1. GatewayInv => RevokedKeyRefused
    <2> SUFFICES ASSUME GatewayInv, NEW r \in Requests, At(r, "replay") PROVE ~req[r].late
      BY DEF RevokedKeyRefused
    <2>1. RequestOK(req[r], apiKeys, now)  BY Here DEF At
    <2> QED BY <2>1 DEF RequestOK, At
  <1> QED BY <1>1, GatewayAlways, PTL
-----------------------------------------------------------------------------
(* The limits.  What a client got through in a stretch of time is at most  *)
(* what the set in Redis still holds of it, until the set forgets: a later *)
(* request drops what is a window older than itself, or Redis the whole.   *)

Stretch(a) == {t \in Times : a <= t /\ t <= a + Window - 1}
Starts == (1 - Window) .. MaxTime
Bucket(u) == {t \in Times : WindowBucket(t) = WindowBucket(u)}

Got(c, S) == SumFunctionOnSet(admitted[c], S)

(* The set still holds everything the client got through with a stamp of S. *)
Held(k, c, S) == \A t \in S : admitted[c][t] <= slots[k].stamps[t]

(* The requests of a client that may still be counted in a stretch. *)
Waiting(tier, who, S) ==
  {r \in Requests : At(r, "limit") /\ req[r].tier = tier /\ req[r].who = who /\ req[r].at \in S}

(* A set holds no more than the limit, no stamps of the future, and no     *)
(* stamp that is due to lapse before its window and the grace are over.    *)
SlotOK(slot, time) ==
  /\ Count(slot.stamps) <= Limit
  /\ \A t \in Times : slot.stamps[t] > 0 => t <= time /\ t + Window + Grace <= slot.lapses

Slot == [stamps : [Times -> Nat], lapses : Nat]

SlotsOK ==
  /\ slots \in [RlKeys -> Slot] /\ \A k \in RlKeys : SlotOK(slots[k], now)
  /\ admitted \in [Tiers \X Clients -> [Times -> Nat]]
  /\ redisUp \in BOOLEAN
  /\ \A r \in Requests : At(r, "limit") => req[r].at <= now

(* A bucket: until its last request in time, nothing of it is forgotten. *)
BucketOK(tier, who, u) ==
  /\ Got(<<tier, who>>, Bucket(u)) <= Limit
  /\ now <= u + Grace => Held(RlKey(tier, who, u), <<tier, who>>, Bucket(u))

(* A stretch of a sliding set: it is still held; or it is over, and what   *)
(* is on its way is counted in; or no request can be counted in time.      *)
SlideOK(tier, who, a) ==
  \/ Held(RlKey(tier, who, 0), <<tier, who>>, Stretch(a))
  \/ /\ now >= a + Window
     /\ Got(<<tier, who>>, Stretch(a)) + Cardinality(Waiting(tier, who, Stretch(a)))
          <= Limit + Cardinality(Requests) - 1
  \/ /\ now >= a + Window + Grace
     /\ Got(<<tier, who>>, Stretch(a)) <= Limit + Cardinality(Requests) - 1

LimitInv ==
  /\ SlotsOK
  /\ \A tier \in Bucketed, who \in Clients, u \in Times : BucketOK(tier, who, u)
  /\ \A tier \in Tiers \ Bucketed, who \in Clients, a \in Starts : SlideOK(tier, who, a)

LEMMA LimitConstants ==
  /\ Limit \in Nat \ {0} /\ Window \in Nat \ {0} /\ Grace \in Nat
  /\ Times \subseteq Nat /\ IsFiniteSet(Times) /\ Bucketed \subseteq Tiers
  /\ IsFiniteSet(Requests) /\ Cardinality(Requests) \in Nat \ {0}
  <1>1. Limit \in Nat \ {0} /\ Window \in Nat \ {0} /\ Grace \in Nat /\ Bucketed \subseteq Tiers
        /\ IsFiniteSet(Requests) /\ Requests # {}
    BY GatewayAssumption
  <1>2. MaxTime \in Nat /\ Times \subseteq Nat  BY Constants
  <1>3. IsFiniteSet(Times)  BY <1>2, FS_Interval DEF Times
  <1>4. Cardinality(Requests) \in Nat \ {0}  BY <1>1, FS_CardinalityType, FS_EmptySet
  <1> QED BY <1>1, <1>2, <1>3, <1>4

LEMMA QuotientIs ==
  ASSUME NEW w \in Nat \ {0}, NEW u \in Nat, NEW p \in Int, w * p <= u, u < w * p + w
  PROVE  u \div w = p
  OBVIOUS

LEMMA Multiple ==
  ASSUME NEW w \in Nat \ {0}, NEW u \in Nat, u % w = 0
  PROVE  u = w * (u \div w)
  OBVIOUS

(* A bucket begins at a multiple of the window and is a window long. *)
LEMMA BucketBounds ==
  ASSUME NEW t \in Times
  PROVE  /\ WindowBucket(t) \in Int /\ Window * WindowBucket(t) \in Int
         /\ Window * WindowBucket(t) <= t /\ t < Window * WindowBucket(t) + Window
  <1>1. t \in Nat /\ Window \in Nat \ {0}  BY LimitConstants
  <1>2. ASSUME NEW w \in Nat \ {0}, NEW u \in Nat
        PROVE  u \div w \in Int /\ w * (u \div w) \in Int /\ w * (u \div w) <= u /\ u < w * (u \div w) + w
    OBVIOUS
  <1> QED BY <1>1, <1>2 DEF WindowBucket

LEMMA InBucket ==
  ASSUME NEW t \in Times, NEW q \in Int, Window * q <= t, t < Window * q + Window
  PROVE  WindowBucket(t) = q
  <1>1. t \in Nat /\ Window \in Nat \ {0}  BY LimitConstants
  <1> QED BY <1>1, QuotientIs DEF WindowBucket

LEMMA SameBucket ==
  ASSUME NEW t \in Times, NEW u \in Times, WindowBucket(t) = WindowBucket(u)
  PROVE  u - t < Window
  <1>1. t \in Nat /\ u \in Nat /\ Window \in Nat  BY LimitConstants
  <1>2. PICK x \in Int : x = Window * WindowBucket(t)  BY BucketBounds
  <1>3. x <= t /\ u < x + Window  BY <1>2, BucketBounds
  <1> QED BY <1>1, <1>2, <1>3

(* A stretch as long as a window lies in the bucket of its end and the one *)
(* before; it is a bucket when it begins at a multiple of the window.      *)
LEMMA StretchInBuckets ==
  ASSUME NEW t \in Times, NEW x \in Times, t - Window + 1 <= x, x <= t
  PROVE  WindowBucket(x) = WindowBucket(t) \/ WindowBucket(x) = WindowBucket(t) - 1
  <1>1. t \in Nat /\ x \in Nat /\ Window \in Nat \ {0}  BY LimitConstants
  <1>2. PICK q \in Int : q = WindowBucket(t)  BY BucketBounds
  <1>3. Window * q <= t /\ t < Window * q + Window /\ Window * q \in Int  BY <1>2, BucketBounds
  <1>4. Window * (q - 1) = Window * q - Window /\ q - 1 \in Int  BY <1>1, <1>2
  <1>5. CASE Window * q <= x  BY <1>1, <1>2, <1>3, <1>5, InBucket
  <1>6. CASE x < Window * q
    <2>1. Window * (q - 1) <= x /\ x < Window * (q - 1) + Window  BY <1>1, <1>3, <1>4, <1>6
    <2> QED BY <1>2, <1>4, <2>1, InBucket
  <1> QED BY <1>1, <1>3, <1>5, <1>6

LEMMA StretchIsBucket ==
  ASSUME NEW t \in Times, t % Window = 0, NEW x \in Times, t <= x, x <= t + Window - 1
  PROVE  WindowBucket(x) = WindowBucket(t)
  <1>1. t \in Nat /\ x \in Nat /\ Window \in Nat \ {0}  BY LimitConstants
  <1>3. t = Window * WindowBucket(t)  BY <1>1, Multiple DEF WindowBucket
  <1>4. WindowBucket(t) \in Int  BY BucketBounds
  <1>5. Window * WindowBucket(t) <= x /\ x < Window * WindowBucket(t) + Window  BY <1>1, <1>3
  <1> QED BY <1>4, <1>5, InBucket

-----------------------------------------------------------------------------
(* The script. *)

LEMMA FiniteTimes ==
  /\ \A S \in SUBSET Times : IsFiniteSet(S)
  /\ \A u : Bucket(u) \in SUBSET Times /\ Stretch(u) \in SUBSET Times
  <1>1. \A S \in SUBSET Times : IsFiniteSet(S)  BY LimitConstants, FS_Subset
  <1> QED BY <1>1 DEF Bucket, Stretch

LEMMA KeptIs ==
  ASSUME SlotsOK, now \in Nat, NEW k \in RlKeys, NEW at \in Times
  PROVE  /\ Kept(k, at) \in [Times -> Nat]
         /\ \A t \in Times : Kept(k, at)[t] <= slots[k].stamps[t]
         /\ \A t \in Times : now <= slots[k].lapses /\ t > at - Window =>
                               Kept(k, at)[t] = slots[k].stamps[t]
         /\ Count(Kept(k, at)) \in Nat /\ Count(Kept(k, at)) <= Limit
  <1>1. slots[k] \in Slot /\ SlotOK(slots[k], now)  BY DEF SlotsOK
  <1>2. slots[k].stamps \in [Times -> Nat] /\ slots[k].lapses \in Nat  BY <1>1 DEF Slot
  <1> DEFINE old == slots[k].stamps
             kept == Kept(k, at)
  <1>3. kept \in [Times -> Nat]  BY <1>2 DEF Kept
  <1>4. ASSUME NEW t \in Times PROVE kept[t] = 0 \/ kept[t] = old[t]  BY <1>2 DEF Kept
  <1>5. \A t \in Times : kept[t] <= old[t]  BY <1>2, <1>3, <1>4
  <1>6. ASSUME NEW t \in Times, now <= slots[k].lapses, t > at - Window PROVE kept[t] = old[t]
    <2>1. at \in Nat /\ t \in Nat /\ Window \in Nat  BY LimitConstants
    <2>2. ~(t <= at - Window)  BY <1>6, <2>1
    <2>3. ~(now > slots[k].lapses)  BY <1>2, <1>6
    <2> QED BY <1>2, <2>2, <2>3 DEF Kept
  <1> HIDE DEF kept
  <1>7. Count(kept) \in Nat /\ Count(old) \in Nat
    BY <1>2, <1>3, LimitConstants, SumPart DEF Count
  <1>8. Count(kept) <= Count(old)
    <2>1. \A t \in Times : kept[t] \in Int /\ old[t] \in Int /\ kept[t] <= old[t]  BY <1>2, <1>3, <1>5
    <2> QED BY <2>1, LimitConstants, SumMonotone DEF Count
  <1>9. Count(kept) <= Limit  BY <1>1, <1>7, <1>8, LimitConstants DEF SlotOK
  <1> QED BY <1>3, <1>5, <1>6, <1>7, <1>9 DEF kept

(* The set after the script: what was kept, and the stamp if it was added. *)
LEMMA ScriptIs ==
  ASSUME SlotsOK, now \in Nat, NEW k \in RlKeys, NEW at \in Times, at <= now
  PROVE  LET o == SlidingWindow(k, at) IN
         /\ o.added \in BOOLEAN
         /\ o.entry \in Slot /\ SlotOK(o.entry, now)
         /\ \A t \in Times : t # at => o.entry.stamps[t] = Kept(k, at)[t]
         /\ o.entry.stamps[at] = Kept(k, at)[at] + (IF o.added THEN 1 ELSE 0)
         /\ o.added => Count(Kept(k, at)) < Limit
  <1>1. slots[k] \in Slot /\ SlotOK(slots[k], now)  BY DEF SlotsOK
  <1>2. slots[k].stamps \in [Times -> Nat] /\ slots[k].lapses \in Nat  BY <1>1 DEF Slot
  <1>3. PICK kept : kept = Kept(k, at)  OBVIOUS
  <1>4. /\ kept \in [Times -> Nat] /\ \A t \in Times : kept[t] <= slots[k].stamps[t]
        /\ Count(kept) \in Nat /\ Count(kept) <= Limit
    BY <1>3, KeptIs
  <1>5. Limit \in Nat /\ Window \in Nat /\ Grace \in Nat /\ Times \subseteq Nat /\ IsFiniteSet(Times)
    BY LimitConstants
  <1>6. CASE Count(kept) < Limit
    <2> DEFINE new == [kept EXCEPT ![at] = @ + 1]
    <2>1. SlidingWindow(k, at) =
            [added |-> TRUE, entry |-> [stamps |-> new, lapses |-> now + Window + Grace]]
      BY <1>3, <1>6 DEF SlidingWindow
    <2>2. new \in [Times -> Nat] /\ new[at] = kept[at] + 1 /\ \A t \in Times : t # at => new[t] = kept[t]
      BY <1>4
    <2>3. now + Window + Grace \in Nat  BY <1>5
    <2> HIDE DEF new
    <2>4. Count(new) <= Limit
      <3>1. SumFunctionOnSet(new, Times) = SumFunctionOnSet(kept, Times) + (new[at] - kept[at])
        <4>1. \A t \in Times : kept[t] \in Int /\ new[t] \in Int  BY <1>4, <2>2
        <4>2. \A t \in Times \ {at} : kept[t] = new[t]  BY <2>2
        <4> QED BY <1>5, <4>1, <4>2, SumChange
      <3>2. new[at] - kept[at] = 1  BY <1>4, <2>2
      <3> QED BY <1>4, <1>5, <1>6, <3>1, <3>2 DEF Count
    <2>5. ASSUME NEW t \in Times, new[t] > 0
          PROVE  t <= now /\ t + Window + Grace <= now + Window + Grace
      <3>1. t <= now
        <4>1. CASE t # at
          <5>1. slots[k].stamps[t] > 0  BY <1>2, <1>4, <2>2, <2>5, <4>1
          <5> QED BY <1>1, <5>1 DEF SlotOK
        <4> QED BY <4>1
      <3> QED BY <1>5, <3>1
    <2>6. SlotOK([stamps |-> new, lapses |-> now + Window + Grace], now)
      BY <2>4, <2>5 DEF SlotOK
    <2> QED BY <1>3, <1>6, <2>1, <2>2, <2>3, <2>6 DEF Slot
  <1>7. CASE ~(Count(kept) < Limit)
    <2>1. SlidingWindow(k, at) =
            [added |-> FALSE, entry |-> [stamps |-> kept, lapses |-> slots[k].lapses]]
      <3>1. (Count(kept) < Limit) = FALSE  BY <1>7
      <3> QED BY <1>3, <3>1 DEF SlidingWindow
    <2>2. \A t \in Times : kept[t] > 0 => slots[k].stamps[t] > 0  BY <1>2, <1>4
    <2>3. SlotOK([stamps |-> kept, lapses |-> slots[k].lapses], now)
      BY <1>1, <1>4, <2>2 DEF SlotOK
    <2>4. kept[at] + 0 = kept[at]  BY <1>4
    <2> QED BY <1>2, <1>3, <1>4, <2>1, <2>3, <2>4 DEF Slot
  <1> QED BY <1>6, <1>7

-----------------------------------------------------------------------------
(* Steps that do not run the script. *)

LEMMA GotIsNat ==
  ASSUME SlotsOK, NEW c \in Tiers \X Clients, NEW S \in SUBSET Times
  PROVE  Got(c, S) \in Nat
  <1>1. \A t \in Times : admitted[c][t] \in Nat  BY DEF SlotsOK
  <1> QED BY <1>1, LimitConstants, SumPart DEF Got

LEMMA FewerWait ==
  ASSUME NEW V \in SUBSET Requests, NEW W \in SUBSET V
  PROVE  Cardinality(W) \in Nat /\ Cardinality(V) \in Nat /\ Cardinality(W) <= Cardinality(V)
  <1>1. IsFiniteSet(V)  BY LimitConstants, FS_Subset
  <1> QED BY <1>1, FS_Subset, FS_CardinalityType

LEMMA LimitInit == Init => LimitInv
  <1> SUFFICES ASSUME Init PROVE LimitInv  OBVIOUS
  <1>1. NoStamps \in [Times -> Nat] /\ \A t \in Times : NoStamps[t] = 0  BY DEF NoStamps
  <1>2. ASSUME NEW S \in SUBSET Times PROVE SumFunctionOnSet(NoStamps, S) = 0
    <2>1. IsFiniteSet(S) /\ \A t \in S : NoStamps[t] = 0  BY <1>1, FiniteTimes
    <2>2. SumFunctionOnSet(NoStamps, S) = Cardinality(S) * 0  BY <2>1, SumConst
    <2>3. Cardinality(S) \in Nat  BY <2>1, FS_CardinalityType
    <2> QED BY <2>2, <2>3
  <1>3. slots = [k \in RlKeys |-> [stamps |-> NoStamps, lapses |-> 0]] /\ now = 0
        /\ admitted = [c \in Tiers \X Clients |-> NoStamps] /\ redisUp = TRUE
        /\ \A r \in Requests : req[r] = Idle
    BY DEF Init
  <1>4. SlotOK([stamps |-> NoStamps, lapses |-> 0], 0)
    BY <1>1, <1>2, LimitConstants DEF SlotOK, Count
  <1>5. \A r \in Requests : ~At(r, "limit")  BY <1>3 DEF At, Idle
  <1>6. SlotsOK  BY <1>1, <1>3, <1>4, <1>5 DEF SlotsOK, Slot
  <1>7. ASSUME NEW c \in Tiers \X Clients, NEW k \in RlKeys, NEW S \in SUBSET Times
        PROVE  Held(k, c, S) /\ Got(c, S) = 0
    <2>1. admitted[c] = NoStamps /\ slots[k].stamps = NoStamps  BY <1>3
    <2> QED BY <1>1, <1>2, <2>1 DEF Held, Got
  <1>8. ASSUME NEW tier \in Bucketed, NEW who \in Clients, NEW u \in Times
        PROVE  BucketOK(tier, who, u)
    <2>1. <<tier, who>> \in Tiers \X Clients /\ RlKey(tier, who, u) \in RlKeys
      BY LimitConstants DEF RlKeys
    <2> QED BY <1>7, <2>1, FiniteTimes, LimitConstants DEF BucketOK
  <1>9. ASSUME NEW tier \in Tiers \ Bucketed, NEW who \in Clients, NEW a \in Starts
        PROVE  SlideOK(tier, who, a)
    <2>1. <<tier, who>> \in Tiers \X Clients /\ RlKey(tier, who, 0) \in RlKeys
      BY Constants DEF RlKeys
    <2> QED BY <1>7, <2>1, FiniteTimes DEF SlideOK
  <1> QED BY <1>6, <1>8, <1>9 DEF LimitInv

LEMMA StartsAre == \A a \in Starts : a \in Int
  BY LimitConstants, Constants DEF Starts

LEMMA AtIsTime ==
  ASSUME GatewayInv, NEW r \in Requests, At(r, "limit")
  PROVE  /\ req[r].at \in Times /\ req[r].at \in Nat /\ req[r].tier \in Tiers /\ req[r].who \in Clients
         /\ req[r] \in InFlight
  <1>1. req[r] \in InFlight  BY Here DEF At
  <1> QED BY <1>1, Constants DEF InFlight

(* Whoever comes late to a stretch that is over does not wait in it. *)
LEMMA LimitFrame ==
  ASSUME GatewayInv, LimitInv, UNCHANGED <<slots, admitted>>, redisUp' \in BOOLEAN,
         now' \in Nat, now <= now',
         \A r \in Requests : req'[r].pc = "limit" => req'[r] = req[r] \/ req'[r].at = now'
  PROVE  LimitInv'
  <1>1. now \in Nat  BY Constants DEF GatewayInv, Shapes
  <1>2. SlotsOK  BY DEF LimitInv
  <1>3. Window \in Nat /\ Grace \in Nat /\ Limit \in Nat /\ Cardinality(Requests) \in Nat /\ Times \subseteq Nat
    BY LimitConstants
  <1>4. SlotsOK'
    <2>1. \A k \in RlKeys : SlotOK(slots[k], now')
      BY <1>1, <1>2, <1>3 DEF SlotsOK, SlotOK
    <2>2. ASSUME NEW r \in Requests, req'[r].pc = "limit" PROVE req'[r].at <= now'
      <3>1. CASE req'[r] = req[r]
        <4>1. At(r, "limit")  BY <2>2, <3>1 DEF At
        <4>2. req[r].at <= now /\ req[r].at \in Nat  BY <1>2, <4>1, AtIsTime DEF SlotsOK
        <4> QED BY <1>1, <3>1, <4>2
      <3> QED BY <2>2, <3>1
    <2> QED BY <1>2, <2>1, <2>2 DEF SlotsOK, At
  <1>5. ASSUME NEW tier \in Bucketed, NEW who \in Clients, NEW u \in Times
        PROVE  BucketOK(tier, who, u)'
    <2>1. BucketOK(tier, who, u)  BY DEF LimitInv
    <2>2. u \in Nat  BY <1>3
    <2> QED BY <1>1, <1>3, <2>1, <2>2 DEF BucketOK, Got, Held
  <1>6. ASSUME NEW tier \in Tiers \ Bucketed, NEW who \in Clients, NEW a \in Starts
        PROVE  SlideOK(tier, who, a)'
    <2>1. SlideOK(tier, who, a)  BY DEF LimitInv
    <2>2. a \in Int  BY StartsAre
    <2> DEFINE S == Stretch(a)
               c == <<tier, who>>
               V == Waiting(tier, who, S)
    <2>3. c \in Tiers \X Clients /\ S \in SUBSET Times /\ Got(c, S) \in Nat
      BY <1>2, FiniteTimes, GotIsNat
    <2>4. Got(c, S)' = Got(c, S)  BY DEF Got
    <2>5. CASE Held(RlKey(tier, who, 0), c, S)  BY <2>5 DEF SlideOK, Held
    <2>6. CASE /\ now >= a + Window
               /\ Got(c, S) + Cardinality(V) <= Limit + Cardinality(Requests) - 1
      <3>1. V' \subseteq V
        <4> SUFFICES ASSUME NEW r \in Requests, r \in V' PROVE r \in V  BY DEF Waiting
        <4>1. req'[r].pc = "limit" /\ req'[r].at \in S  BY DEF Waiting, At
        <4>2. req'[r].at # now'
          BY <1>1, <1>3, <2>2, <2>6, <4>1 DEF Stretch
        <4>3. req'[r] = req[r]  BY <4>1, <4>2
        <4> QED BY <4>3 DEF Waiting, At
      <3>2. V \in SUBSET Requests  BY DEF Waiting
      <3>3. PICK x, y : x = Cardinality(V) /\ y = Cardinality(V')  OBVIOUS
      <3>4. x \in Nat /\ y \in Nat /\ y <= x  BY <3>1, <3>2, <3>3, FewerWait
      <3>5. now' >= a + Window  BY <1>1, <1>3, <2>2, <2>6
      <3>6. Got(c, S)' + y <= Limit + Cardinality(Requests) - 1
        BY <1>3, <2>3, <2>4, <2>6, <3>3, <3>4
      <3> QED BY <3>3, <3>5, <3>6 DEF SlideOK
    <2>7. CASE /\ now >= a + Window + Grace
               /\ Got(c, S) <= Limit + Cardinality(Requests) - 1
      <3>1. now' >= a + Window + Grace  BY <1>1, <1>3, <2>2, <2>7
      <3> QED BY <2>4, <2>7, <3>1 DEF SlideOK
    <2> QED BY <2>1, <2>5, <2>6, <2>7 DEF SlideOK
  <1> QED BY <1>4, <1>5, <1>6 DEF LimitInv

-----------------------------------------------------------------------------
(* A request runs the script. *)

(* What the step of a request does to the set of its key and the counts. *)
Scripted(r, tier, who, at, added) ==
  LET k == RlKey(tier, who, at)
      c == <<tier, who>> IN
  /\ tier \in Tiers /\ who \in Clients /\ at \in Times /\ at <= now /\ added \in BOOLEAN
  /\ req[r].pc = "limit" /\ req[r].tier = tier /\ req[r].who = who /\ req[r].at = at
  /\ slots'[k] \in Slot /\ \A j \in RlKeys \ {k} : slots'[j] = slots[j]
  /\ \A t \in Times \ {at} : slots'[k].stamps[t] = Kept(k, at)[t]
  /\ slots'[k].stamps[at] = Kept(k, at)[at] + (IF added THEN 1 ELSE 0)
  /\ added => Count(Kept(k, at)) < Limit
  /\ \A d \in Tiers \X Clients, t \in Times : d # c \/ t # at => admitted'[d][t] = admitted[d][t]
  /\ \/ admitted'[c][at] = admitted[c][at]
     \/ added /\ now - at <= Grace /\ admitted'[c][at] = admitted[c][at] + 1
  /\ req'[r].pc # "limit" /\ \A q \in Requests \ {r} : req'[q] = req[q]
  /\ now' = now

LEMMA ScriptRuns ==
  ASSUME GatewayInv, LimitInv, NEW r \in Requests, CheckRateLimit(r)
  PROVE  /\ SlotsOK'
         /\ \E tier, who, at, added : Scripted(r, tier, who, at, added)
  <1>1. now \in Nat /\ now' = now /\ redisUp' = redisUp /\ redisUp = TRUE /\ req[r].pc = "limit"
    BY Constants DEF GatewayInv, Shapes, CheckRateLimit, At, LimitInv, SlotsOK
  <1>2. SlotsOK  BY DEF LimitInv
  <1>3. PICK tier \in Tiers, who \in Clients, at \in Times :
          tier = req[r].tier /\ who = req[r].who /\ at = req[r].at
    BY <1>1, AtIsTime DEF At
  <1>4. PICK k : k = RlKey(tier, who, at)  OBVIOUS
  <1>5. k \in RlKeys  BY <1>4 DEF RlKeys
  <1>6. PICK c : c = <<tier, who>>  OBVIOUS
  <1>7. c \in Tiers \X Clients  BY <1>6
  <1>8. at <= now  BY <1>1, <1>2, <1>3 DEF SlotsOK, At
  <1>9. PICK o : o = SlidingWindow(k, at)  OBVIOUS
  <1>10. /\ o.added \in BOOLEAN /\ o.entry \in Slot /\ SlotOK(o.entry, now)
         /\ \A t \in Times : t # at => o.entry.stamps[t] = Kept(k, at)[t]
         /\ o.entry.stamps[at] = Kept(k, at)[at] + (IF o.added THEN 1 ELSE 0)
         /\ o.added => Count(Kept(k, at)) < Limit
    BY <1>1, <1>2, <1>5, <1>8, <1>9, ScriptIs
  <1>11. slots' = [slots EXCEPT ![k] = o.entry]
    BY <1>3, <1>4, <1>9 DEF CheckRateLimit
  <1>12. \/ o.added /\ AfterLimit(r)
            /\ admitted' = IF ~InTime(r) THEN admitted ELSE [admitted EXCEPT ![c][at] = @ + 1]
         \/ End(r) /\ admitted' = admitted
    BY <1>3, <1>4, <1>6, <1>9 DEF CheckRateLimit
  <1>13. slots \in [RlKeys -> Slot] /\ admitted \in [Tiers \X Clients -> [Times -> Nat]]
    BY <1>2 DEF SlotsOK
  <1>14. slots' \in [RlKeys -> Slot] /\ slots'[k] = o.entry /\ \A j \in RlKeys \ {k} : slots'[j] = slots[j]
    BY <1>5, <1>10, <1>11, <1>13
  <1>15. \A j \in RlKeys : SlotOK(slots'[j], now)  BY <1>2, <1>10, <1>14 DEF SlotsOK
  <1>16. /\ admitted' \in [Tiers \X Clients -> [Times -> Nat]]
         /\ \A d \in Tiers \X Clients, t \in Times : d # c \/ t # at => admitted'[d][t] = admitted[d][t]
         /\ \/ admitted'[c][at] = admitted[c][at]
            \/ o.added /\ now - at <= Grace /\ admitted'[c][at] = admitted[c][at] + 1
    <2>1. CASE admitted' = admitted  BY <1>13, <2>1
    <2>2. CASE o.added /\ InTime(r) /\ admitted' = [admitted EXCEPT ![c][at] = @ + 1]
      <3>1. now - at <= Grace  BY <1>3, <2>2 DEF InTime
      <3>2. admitted[c] \in [Times -> Nat] /\ admitted[c][at] + 1 \in Nat  BY <1>7, <1>13
      <3> QED BY <1>7, <1>13, <2>2, <3>1, <3>2
    <2> QED BY <1>12, <2>1, <2>2
  <1>17. req'[r].pc # "limit" /\ \A q \in Requests \ {r} : req'[q] = req[q]
    <2>1. req \in [Requests -> InFlight \cup {Idle}]  BY DEF GatewayInv, Shapes
    <2>2. End(r) \/ req' = [req EXCEPT ![r].pc = "skew", ![r].at = 0]  BY <1>12 DEF AfterLimit
    <2>3. CASE End(r)  BY <2>1, <2>3 DEF End, Idle
    <2>4. CASE req' = [req EXCEPT ![r].pc = "skew", ![r].at = 0]
      <3>1. req[r] \in InFlight  BY <1>1, AtIsTime DEF At
      <3>2. req'[r] = [req[r] EXCEPT !.pc = "skew", !.at = 0] /\ \A q \in Requests \ {r} : req'[q] = req[q]
        BY <2>1, <2>4
      <3> QED BY <3>1, <3>2 DEF InFlight
    <2> QED BY <2>2, <2>3, <2>4
  <1>18. \A q \in Requests : req'[q].pc = "limit" => req'[q].at <= now'
    BY <1>1, <1>2, <1>17 DEF SlotsOK, At
  <1>19. SlotsOK'  BY <1>1, <1>14, <1>15, <1>16, <1>18 DEF SlotsOK, At
  <1>20. Scripted(r, tier, who, at, o.added)
    BY <1>1, <1>3, <1>4, <1>6, <1>8, <1>10, <1>14, <1>16, <1>17 DEF Scripted
  <1> QED BY <1>19, <1>20

(* Redis forgets a set only when every stamp in it is a window and the     *)
(* grace old.                                                              *)
LEMMA LapsedIsOld ==
  ASSUME SlotsOK, now \in Nat, NEW k \in RlKeys, now > slots[k].lapses,
         NEW t \in Times, slots[k].stamps[t] > 0
  PROVE  now > t + Window + Grace
  <1>1. slots[k] \in Slot /\ SlotOK(slots[k], now)  BY DEF SlotsOK
  <1>2. slots[k].lapses \in Nat /\ t \in Nat /\ Window \in Nat /\ Grace \in Nat
    BY <1>1, LimitConstants DEF Slot
  <1> QED BY <1>1, <1>2 DEF SlotOK

(* A set that holds everything of S and keeps it holds the new stamp too. *)
LEMMA StillHeld ==
  ASSUME SlotsOK, SlotsOK', NEW r, NEW tier, NEW who, NEW at, NEW added,
         Scripted(r, tier, who, at, added), NEW S \in SUBSET Times,
         \A t \in S : admitted[<<tier, who>>][t] <= Kept(RlKey(tier, who, at), at)[t], now \in Nat
  PROVE  /\ \A t \in S : admitted'[<<tier, who>>][t] <= slots'[RlKey(tier, who, at)].stamps[t]
  <1>1. PICK k, c : k = RlKey(tier, who, at) /\ c = <<tier, who>>  OBVIOUS
  <1>2. k \in RlKeys /\ c \in Tiers \X Clients /\ at \in Times  BY <1>1 DEF Scripted, RlKeys
  <1>3. Kept(k, at) \in [Times -> Nat]  BY <1>2, KeptIs
  <1>4. admitted[c] \in [Times -> Nat]  BY <1>2 DEF SlotsOK
  <1>5. ASSUME NEW t \in S PROVE admitted'[c][t] <= slots'[k].stamps[t]
    <2>1. t \in Times /\ Kept(k, at)[t] \in Nat /\ admitted[c][t] \in Nat /\ admitted[c][t] <= Kept(k, at)[t]
      BY <1>1, <1>3, <1>4
    <2>2. CASE t # at  BY <1>1, <1>2, <2>1, <2>2 DEF Scripted
    <2>3. CASE t = at
      <3>1. slots'[k].stamps[t] = Kept(k, at)[t] + (IF added THEN 1 ELSE 0)
        BY <1>1, <2>3 DEF Scripted
      <3>2. admitted'[c][t] = admitted[c][t] \/ (added /\ admitted'[c][t] = admitted[c][t] + 1)
        BY <1>1, <2>3 DEF Scripted
      <3> QED BY <2>1, <3>1, <3>2
    <2> QED BY <2>2, <2>3
  <1> QED BY <1>1, <1>5

(* The sum over a stretch that the new stamp is not part of stays. *)
LEMMA GotStays ==
  ASSUME NEW r, NEW tier, NEW who, NEW at, NEW added, Scripted(r, tier, who, at, added),
         NEW d \in Tiers \X Clients, NEW S \in SUBSET Times, d # <<tier, who>> \/ at \notin S
  PROVE  Got(d, S)' = Got(d, S) /\ \A t \in S : admitted'[d][t] = admitted[d][t]
  <1>1. \A t \in S : admitted'[d][t] = admitted[d][t]  BY DEF Scripted
  <1>2. IsFiniteSet(S)  BY FiniteTimes
  <1>3. SumFunctionOnSet(admitted'[d], S) = SumFunctionOnSet(admitted[d], S)
    BY <1>1, <1>2, SumSame
  <1> QED BY <1>1, <1>3 DEF Got

(* Over one that it is part of it grows by one, or stays. *)
LEMMA GotGrows ==
  ASSUME SlotsOK, SlotsOK', NEW r, NEW tier, NEW who, NEW at, NEW added,
         Scripted(r, tier, who, at, added), NEW S \in SUBSET Times, at \in S
  PROVE  \/ Got(<<tier, who>>, S)' = Got(<<tier, who>>, S)
         \/ added /\ now - at <= Grace /\ Got(<<tier, who>>, S)' = Got(<<tier, who>>, S) + 1
  <1>1. PICK c : c = <<tier, who>>  OBVIOUS
  <1>2. c \in Tiers \X Clients  BY <1>1 DEF Scripted
  <1>3. IsFiniteSet(S)  BY FiniteTimes
  <1>4. admitted[c] \in [Times -> Nat] /\ admitted'[c] \in [Times -> Nat]  BY <1>2 DEF SlotsOK
  <1>5. \A t \in S : admitted[c][t] \in Int /\ admitted'[c][t] \in Int  BY <1>4
  <1>6. \A t \in S \ {at} : admitted[c][t] = admitted'[c][t]  BY <1>1, <1>2 DEF Scripted
  <1>7. SumFunctionOnSet(admitted'[c], S)
          = SumFunctionOnSet(admitted[c], S) + (admitted'[c][at] - admitted[c][at])
    BY <1>3, <1>5, <1>6, SumChange
  <1>8. SumFunctionOnSet(admitted[c], S) \in Int  BY <1>3, <1>5, SumTake
  <1>9. \/ admitted'[c][at] = admitted[c][at]
        \/ added /\ now - at <= Grace /\ admitted'[c][at] = admitted[c][at] + 1
    BY <1>1 DEF Scripted
  <1>10. admitted[c][at] \in Int  BY <1>5
  <1>11. CASE admitted'[c][at] = admitted[c][at]  BY <1>1, <1>7, <1>8, <1>10, <1>11 DEF Got
  <1>12. CASE added /\ now - at <= Grace /\ admitted'[c][at] = admitted[c][at] + 1
    BY <1>1, <1>7, <1>8, <1>10, <1>12 DEF Got
  <1> QED BY <1>9, <1>11, <1>12

(* What is held is at most what the set counts. *)
LEMMA HeldCounts ==
  ASSUME SlotsOK, NEW c \in Tiers \X Clients, NEW S \in SUBSET Times, NEW f \in [Times -> Nat],
         \A t \in S : admitted[c][t] <= f[t]
  PROVE  Got(c, S) <= Count(f)
  <1>1. IsFiniteSet(S) /\ IsFiniteSet(Times)  BY FiniteTimes, LimitConstants
  <1>2. admitted[c] \in [Times -> Nat]  BY DEF SlotsOK
  <1>3. \A t \in S : admitted[c][t] \in Int /\ f[t] \in Int /\ admitted[c][t] <= f[t]  BY <1>2
  <1>4. SumFunctionOnSet(admitted[c], S) <= SumFunctionOnSet(f, S)  BY <1>1, <1>3, SumMonotone
  <1>5. SumFunctionOnSet(f, S) <= SumFunctionOnSet(f, Times) /\ SumFunctionOnSet(f, S) \in Nat
        /\ SumFunctionOnSet(f, Times) \in Nat
    BY <1>1, SumPart
  <1>6. SumFunctionOnSet(admitted[c], S) \in Nat  BY GotIsNat DEF Got
  <1> QED BY <1>4, <1>5, <1>6 DEF Got, Count

(* A bucket: its requests are less than a window apart, so none drops the  *)
(* stamp of another, and none that comes in time finds the set forgotten.  *)
LEMMA BucketStep ==
  ASSUME GatewayInv, LimitInv, SlotsOK', NEW r, NEW tier, NEW who, NEW at, NEW added,
         Scripted(r, tier, who, at, added),
         NEW tier2 \in Bucketed, NEW who2 \in Clients, NEW u \in Times
  PROVE  BucketOK(tier2, who2, u)'
  <1>1. SlotsOK /\ now \in Nat /\ now' = now  BY Constants DEF GatewayInv, Shapes, LimitInv, Scripted
  <1>2. BucketOK(tier2, who2, u)  BY DEF LimitInv
  <1>3. PICK k, j, c, d : /\ k = RlKey(tier, who, at) /\ c = <<tier, who>>
                          /\ j = RlKey(tier2, who2, u) /\ d = <<tier2, who2>>
    OBVIOUS
  <1>4. PICK S : S = Bucket(u)  OBVIOUS
  <1>5. /\ tier \in Tiers /\ who \in Clients /\ at \in Times /\ k \in RlKeys /\ c \in Tiers \X Clients
        /\ j \in RlKeys /\ d \in Tiers \X Clients /\ S \in SUBSET Times
    BY <1>3, <1>4, LimitConstants, FiniteTimes DEF Scripted, RlKeys
  <1>6. Got(d, S) <= Limit /\ (now <= u + Grace => \A t \in S : admitted[d][t] <= slots[j].stamps[t])
    BY <1>2, <1>3, <1>4 DEF BucketOK, Held
  <1>7. SUFFICES /\ Got(d, S)' <= Limit
                 /\ now <= u + Grace => \A t \in S : admitted'[d][t] <= slots'[j].stamps[t]
    BY <1>1, <1>3, <1>4 DEF BucketOK, Held
  <1>8. CASE j # k
    <2>1. d # c \/ at \notin S  BY <1>3, <1>4, <1>8 DEF RlKey, Bucket
    <2>2. Got(d, S)' = Got(d, S) /\ \A t \in S : admitted'[d][t] = admitted[d][t]
      BY <1>3, <1>5, <2>1, GotStays
    <2>3. slots'[j] = slots[j]  BY <1>3, <1>5, <1>8 DEF Scripted
    <2> QED BY <1>6, <2>2, <2>3
  <1>9. CASE j = k
    <2>1. tier = tier2 /\ who = who2 /\ WindowBucket(at) = WindowBucket(u)
      BY <1>3, <1>9 DEF RlKey
    <2>2. d = c /\ at \in S /\ S = Bucket(at)  BY <1>3, <1>4, <1>5, <2>1 DEF Bucket
    <2>3. Window \in Nat /\ Grace \in Nat /\ Limit \in Nat /\ Times \subseteq Nat  BY LimitConstants
    <2>4. Kept(k, at) \in [Times -> Nat] /\ Count(Kept(k, at)) \in Nat  BY <1>1, <1>5, KeptIs
    <2>5. ASSUME NEW v \in S, now <= v + Grace, \A t \in S : admitted[c][t] <= slots[k].stamps[t]
          PROVE  \A t \in S : admitted[c][t] <= Kept(k, at)[t]
      <3> SUFFICES ASSUME NEW t \in S PROVE admitted[c][t] <= Kept(k, at)[t]  OBVIOUS
      <3>1. t \in Times /\ v \in Times /\ t \in Nat /\ v \in Nat /\ at \in Nat  BY <1>5, <2>3
      <3>2. WindowBucket(t) = WindowBucket(at) /\ WindowBucket(t) = WindowBucket(v)
        BY <2>2 DEF Bucket
      <3>3. at - t < Window /\ v - t < Window  BY <1>5, <3>1, <3>2, SameBucket
      <3>4. slots[k].stamps \in [Times -> Nat] /\ slots[k].lapses \in Nat /\ admitted[c] \in [Times -> Nat]
        BY <1>1, <1>5 DEF SlotsOK, Slot
      <3>5. CASE now <= slots[k].lapses
        <4>1. t > at - Window  BY <2>3, <3>1, <3>3
        <4>2. Kept(k, at)[t] = slots[k].stamps[t]  BY <1>1, <1>5, <3>1, <3>5, <4>1, KeptIs
        <4> QED BY <2>5, <4>2
      <3>6. CASE now > slots[k].lapses
        <4>1. ~(slots[k].stamps[t] > 0)
          <5>1. ~(now > t + Window + Grace)  BY <1>1, <2>3, <2>5, <3>1, <3>3
          <5> QED BY <1>1, <1>5, <3>1, <3>6, <5>1, LapsedIsOld
        <4>2. admitted[c][t] = 0  BY <2>5, <3>1, <3>4, <4>1
        <4> QED BY <2>4, <3>1, <4>2
      <3> QED BY <1>1, <3>4, <3>5, <3>6
    <2>6. ASSUME now <= u + Grace PROVE \A t \in S : admitted'[d][t] <= slots'[j].stamps[t]
      <3>1. u \in S  BY <1>4 DEF Bucket
      <3>2. \A t \in S : admitted[c][t] <= Kept(k, at)[t]  BY <1>6, <1>9, <2>2, <2>5, <2>6, <3>1
      <3> QED BY <1>1, <1>3, <1>5, <1>9, <2>2, <3>2, StillHeld
    <2>7. Got(d, S)' <= Limit
      <3>1. CASE Got(c, S)' = Got(c, S)  BY <1>6, <2>2, <3>1
      <3>2. CASE added /\ now - at <= Grace /\ Got(c, S)' = Got(c, S) + 1
        <4>1. now <= at + Grace  BY <1>1, <1>5, <2>3, <3>2
        <4>2. BucketOK(tier, who, at)  BY <1>5, <2>1 DEF LimitInv
        <4>3. \A t \in S : admitted[c][t] <= slots[k].stamps[t]
          BY <1>3, <2>2, <4>1, <4>2 DEF BucketOK, Held
        <4>4. \A t \in S : admitted[c][t] <= Kept(k, at)[t]  BY <2>2, <2>5, <4>1, <4>3
        <4>5. Got(c, S) <= Count(Kept(k, at))  BY <1>1, <1>5, <2>4, <4>4, HeldCounts
        <4>6. Count(Kept(k, at)) < Limit  BY <1>3, <3>2 DEF Scripted
        <4>7. Got(c, S) \in Nat  BY <1>1, <1>5, GotIsNat
        <4> QED BY <2>2, <2>3, <2>4, <3>2, <4>5, <4>6, <4>7
      <3> QED BY <1>1, <1>3, <1>5, <2>2, <3>1, <3>2, GotGrows
    <2> QED BY <2>6, <2>7
  <1> QED BY <1>8, <1>9

(* A sliding set: the request that drops a stamp of the stretch is past it *)
(* and does not wait in it, so at most one less than all requests do.      *)
LEMMA SlideStep ==
  ASSUME GatewayInv, LimitInv, SlotsOK', NEW r \in Requests, NEW tier, NEW who, NEW at, NEW added,
         Scripted(r, tier, who, at, added),
         NEW tier2 \in Tiers \ Bucketed, NEW who2 \in Clients, NEW a \in Starts
  PROVE  SlideOK(tier2, who2, a)'
  <1>1. SlotsOK /\ now \in Nat /\ now' = now  BY Constants DEF GatewayInv, Shapes, LimitInv, Scripted
  <1>2. SlideOK(tier2, who2, a)  BY DEF LimitInv
  <1>3. PICK k, j, c, d : /\ k = RlKey(tier, who, at) /\ c = <<tier, who>>
                          /\ j = RlKey(tier2, who2, 0) /\ d = <<tier2, who2>>
    OBVIOUS
  <1>4. PICK S : S = Stretch(a)  OBVIOUS
  <1>5. /\ tier \in Tiers /\ who \in Clients /\ at \in Times /\ k \in RlKeys /\ c \in Tiers \X Clients
        /\ j \in RlKeys /\ d \in Tiers \X Clients /\ S \in SUBSET Times
    BY <1>3, <1>4, Constants, FiniteTimes DEF Scripted, RlKeys
  <1>6. PICK V, W : V = Waiting(tier2, who2, S) /\ W = Waiting(tier2, who2, S)'  OBVIOUS
  <1>7. V \in SUBSET Requests /\ W \in SUBSET V /\ r \notin W /\ (r \in V <=> d = c /\ at \in S)
    BY <1>3, <1>6 DEF Waiting, At, Scripted
  <1>8. PICK x, y, g, h, n : x = Cardinality(V) /\ y = Cardinality(W) /\ g = Got(d, S) /\ h = Got(d, S)'
                             /\ n = Limit + Cardinality(Requests) - 1
    OBVIOUS
  <1>9. x \in Nat /\ y \in Nat /\ y <= x /\ g \in Nat /\ n \in Nat /\ Limit \in Nat /\ n >= Limit
    BY <1>1, <1>5, <1>7, <1>8, FewerWait, GotIsNat, LimitConstants
  <1>10. Window \in Nat \ {0} /\ Grace \in Nat /\ Times \subseteq Nat /\ a \in Int /\ at \in Nat
    BY LimitConstants, StartsAre, <1>5
  <1>11. \/ \A t \in S : admitted[d][t] <= slots[j].stamps[t]
         \/ now >= a + Window /\ g + x <= n
         \/ now >= a + Window + Grace /\ g <= n
    BY <1>2, <1>3, <1>4, <1>6, <1>8 DEF SlideOK, Held
  <1>12. SUFFICES \/ \A t \in S : admitted'[d][t] <= slots'[j].stamps[t]
                  \/ now >= a + Window /\ h + y <= n
                  \/ now >= a + Window + Grace /\ h <= n
    BY <1>1, <1>3, <1>4, <1>6, <1>8 DEF SlideOK, Held
  <1>13. CASE d # c
    <2>1. h = g /\ \A t \in S : admitted'[d][t] = admitted[d][t]
      BY <1>3, <1>5, <1>8, <1>13, GotStays
    <2>2. j # k  BY <1>3, <1>13 DEF RlKey
    <2>3. slots'[j] = slots[j]  BY <1>3, <1>5, <2>2 DEF Scripted
    <2> QED BY <1>9, <1>11, <2>1, <2>3
  <1>14. CASE d = c
    <2>1. j = k  BY <1>3, <1>14 DEF RlKey
    <2>2. h = g \/ (at \in S /\ now - at <= Grace /\ h = g + 1)
      <3>1. CASE at \in S  BY <1>1, <1>3, <1>5, <1>8, <1>14, <3>1, GotGrows
      <3>2. CASE at \notin S  BY <1>3, <1>5, <1>8, <1>14, <3>2, GotStays
      <3> QED BY <3>1, <3>2
    <2>3. at \in S => y + 1 <= x
      <3> SUFFICES ASSUME at \in S PROVE y + 1 <= x  OBVIOUS
      <3>1. r \in V /\ IsFiniteSet(V)  BY <1>7, <1>14, LimitConstants, FS_Subset
      <3>2. W \in SUBSET (V \ {r}) /\ V \ {r} \in SUBSET Requests  BY <1>7
      <3>3. Cardinality(V \ {r}) = x - 1  BY <1>8, <3>1, FS_RemoveElement
      <3>4. y <= Cardinality(V \ {r})  BY <1>8, <3>2, FewerWait
      <3> QED BY <1>9, <3>3, <3>4
    <2>4. at \in S => a <= at /\ at <= a + Window - 1  BY <1>4 DEF Stretch
    <2>5. CASE now >= a + Window + Grace /\ g <= n
      <3>1. h = g  BY <1>1, <1>10, <2>2, <2>4, <2>5
      <3> QED BY <2>5, <3>1
    <2>6. CASE now >= a + Window /\ g + x <= n
      <3>1. h + y <= n  BY <1>9, <2>2, <2>3, <2>6
      <3> QED BY <2>6, <3>1
    <2>7. CASE \A t \in S : admitted[d][t] <= slots[j].stamps[t]
      <3>1. slots[k].stamps \in [Times -> Nat] /\ slots[k].lapses \in Nat /\ Count(slots[k].stamps) <= Limit
            /\ admitted[c] \in [Times -> Nat]
        BY <1>1, <1>5 DEF SlotsOK, Slot, SlotOK
      <3>2. g <= Limit
        <4>1. Got(c, S) <= Count(slots[k].stamps)
          BY <1>1, <1>5, <1>14, <2>1, <2>7, <3>1, HeldCounts
        <4>2. Count(slots[k].stamps) \in Nat  BY <3>1, LimitConstants, SumPart DEF Count
        <4> QED BY <1>8, <1>9, <1>14, <3>1, <4>1, <4>2
      <3>3. Kept(k, at) \in [Times -> Nat]  BY <1>1, <1>5, KeptIs
      <3>4. CASE \A t \in S : admitted[c][t] <= Kept(k, at)[t]
        BY <1>1, <1>3, <1>5, <1>14, <2>1, <3>4, StillHeld
      <3>5. ASSUME NEW t \in S, ~(admitted[c][t] <= Kept(k, at)[t])
            PROVE  \/ now >= a + Window /\ h + y <= n
                   \/ now >= a + Window + Grace /\ h <= n
        <4>1. t \in Times /\ t \in Nat /\ a <= t /\ Kept(k, at)[t] \in Nat /\ admitted[c][t] \in Nat
              /\ slots[k].stamps[t] \in Nat
          BY <1>4, <1>5, <1>10, <3>1, <3>3 DEF Stretch
        <4>2. slots[k].stamps[t] > 0 /\ Kept(k, at)[t] # slots[k].stamps[t]
          BY <1>14, <2>1, <2>7, <3>5, <4>1
        <4>3. CASE now > slots[k].lapses
          <5>1. now > t + Window + Grace  BY <1>1, <1>5, <4>1, <4>2, <4>3, LapsedIsOld
          <5>2. now >= a + Window + Grace  BY <1>1, <1>10, <4>1, <5>1
          <5>3. h = g  BY <1>1, <1>10, <2>2, <2>4, <5>2
          <5> QED BY <1>9, <3>2, <5>2, <5>3
        <4>4. CASE now <= slots[k].lapses
          <5>1. ~(t > at - Window)  BY <1>1, <1>5, <4>1, <4>2, <4>4, KeptIs
          <5>2. at >= a + Window  BY <1>10, <4>1, <5>1
          <5>3. at \notin S /\ at <= now  BY <1>10, <2>4, <5>2 DEF Scripted
          <5>4. h = g  BY <2>2, <5>3
          <5>5. now >= a + Window  BY <1>1, <1>10, <5>2, <5>3
          <5>6. y <= Cardinality(Requests) - 1
            <6>1. W \in SUBSET (Requests \ {r}) /\ Requests \ {r} \in SUBSET Requests  BY <1>7
            <6>2. Cardinality(Requests \ {r}) = Cardinality(Requests) - 1
              BY LimitConstants, FS_RemoveElement
            <6> QED BY <1>8, <6>1, <6>2, FewerWait
          <5> QED BY <1>8, <1>9, <3>2, <5>4, <5>5, <5>6, LimitConstants
        <4> QED BY <1>1, <3>1, <4>3, <4>4
      <3> QED BY <3>4, <3>5
    <2> QED BY <1>11, <2>5, <2>6, <2>7
  <1> QED BY <1>13, <1>14

LEMMA LimitStep == GatewayInv /\ LimitInv /\ [Next]_vars => LimitInv'
  <1> SUFFICES ASSUME GatewayInv, LimitInv, [Next]_vars PROVE LimitInv'  OBVIOUS
  <1>1. now \in Nat /\ redisUp \in BOOLEAN  BY Constants DEF GatewayInv, Shapes, LimitInv, SlotsOK
  <1>2. req \in [Requests -> InFlight \cup {Idle}]  BY DEF GatewayInv, Shapes
  <1>3. ASSUME NEW r \in Requests, CheckRateLimit(r) PROVE LimitInv'
    <2>1. SlotsOK'  BY <1>3, ScriptRuns
    <2>2. PICK tier, who, at, added : Scripted(r, tier, who, at, added)  BY <1>3, ScriptRuns
    <2>3. \A tier2 \in Bucketed, who2 \in Clients, u \in Times : BucketOK(tier2, who2, u)'
      BY <2>1, <2>2, BucketStep
    <2>4. \A tier2 \in Tiers \ Bucketed, who2 \in Clients, a \in Starts : SlideOK(tier2, who2, a)'
      BY <2>1, <2>2, SlideStep
    <2> QED BY <2>1, <2>3, <2>4 DEF LimitInv
  <1>4. ASSUME UNCHANGED req, UNCHANGED <<slots, admitted>>, redisUp' \in BOOLEAN,
               now' \in Nat, now <= now'
        PROVE  LimitInv'
    BY <1>4, LimitFrame
  <1>5. CASE Tick  BY <1>1, <1>4, <1>5 DEF Tick
  <1>6. CASE RedisFails \/ RedisReturns \/ UNCHANGED vars
    <2>1. UNCHANGED <<now, slots, req, admitted>>  BY <1>6 DEF RedisFails, RedisReturns, vars
    <2>2. redisUp' \in BOOLEAN  BY <1>1, <1>6 DEF RedisFails, RedisReturns, vars
    <2> QED BY <1>1, <1>4, <2>1, <2>2
  <1>7. ASSUME NEW k \in Keys, CreateApiKey(k) \/ RevokeApiKey(k) PROVE LimitInv'
    BY <1>1, <1>4, <1>7 DEF CreateApiKey, RevokeApiKey
  <1>8. ASSUME NEW r \in Requests, NEW h, req' = [req EXCEPT ![r] = h],
               h.pc = "limit" => h.at = now, UNCHANGED <<now, redisUp, slots, admitted>>
        PROVE  LimitInv'
    <2>1. \A q \in Requests : req'[q].pc = "limit" => req'[q] = req[q] \/ req'[q].at = now'
      BY <1>2, <1>8
    <2> QED BY <1>1, <1>8, <2>1, LimitFrame
  <1>9. ASSUME NEW r \in Requests, End(r), UNCHANGED <<now, redisUp, slots, admitted>>
        PROVE  LimitInv'
    BY <1>8, <1>9 DEF End, Idle
  <1>10. ASSUME NEW r \in Requests, req[r].pc # "idle", NEW pc \in {"skew", "secret", "replay"},
                Goto(r, pc), UNCHANGED <<now, redisUp, slots, admitted>>
         PROVE  LimitInv'
    <2> DEFINE h == [req[r] EXCEPT !.pc = pc]
    <2>1. h.pc = pc  BY <1>10, Here DEF InFlight
    <2>2. req' = [req EXCEPT ![r] = h]  BY <1>2, <1>10 DEF Goto
    <2> HIDE DEF h
    <2> QED BY <1>8, <1>10, <2>1, <2>2
  <1>11. ASSUME NEW r \in Requests, NEW tier \in Tiers, NEW who \in Clients,
                NEW sig \in Signatures \cup {NoSignature}, Arrive(r, tier, who, sig)
         PROVE  LimitInv'
    <2>1. PICK h : h = [pc |-> "limit", tier |-> tier, who |-> who, at |-> now, sig |-> sig,
                        checked |-> 0, late |-> sig \in Signatures /\ apiKeys[sig.key] = "revoked"]
      OBVIOUS
    <2>2. req' = [req EXCEPT ![r] = h] /\ UNCHANGED <<now, redisUp, slots, admitted>>
      BY <1>11, <2>1 DEF Arrive
    <2>3. h.at = now  BY <2>1
    <2> QED BY <1>8, <2>2, <2>3
  <1>12. ASSUME NEW r \in Requests, RateLimitFailsOpen(r) PROVE LimitInv'
    <2>1. End(r) \/ req' = [req EXCEPT ![r].pc = "skew", ![r].at = 0]
      BY <1>12 DEF RateLimitFailsOpen, AfterLimit
    <2>2. req[r].pc # "idle" /\ UNCHANGED <<now, redisUp, slots, admitted>>
      BY <1>12 DEF RateLimitFailsOpen, At
    <2>3. CASE req' = [req EXCEPT ![r].pc = "skew", ![r].at = 0]
      <3> DEFINE h == [req[r] EXCEPT !.pc = "skew", !.at = 0]
      <3>1. req[r] \in InFlight  BY <2>2, Here
      <3>2. h.pc = "skew"  BY <3>1 DEF InFlight
      <3>3. req' = [req EXCEPT ![r] = h]  BY <1>2, <2>3
      <3> HIDE DEF h
      <3> QED BY <1>8, <2>2, <3>2, <3>3
    <2> QED BY <1>9, <2>1, <2>2, <2>3
  <1>13. ASSUME NEW r \in Requests, CheckSkew(r) PROVE LimitInv'
    <2>1. CASE req' = [req EXCEPT ![r].pc = "find_key", ![r].checked = now]
      <3> DEFINE h == [req[r] EXCEPT !.pc = "find_key", !.checked = now]
      <3>1. req[r] \in InFlight  BY <1>13, Here DEF CheckSkew, At
      <3>2. h.pc = "find_key"  BY <3>1 DEF InFlight
      <3>3. req' = [req EXCEPT ![r] = h]  BY <1>2, <2>1
      <3> HIDE DEF h
      <3> QED BY <1>8, <1>13, <3>2, <3>3 DEF CheckSkew
    <2> QED BY <1>9, <1>13, <2>1 DEF CheckSkew
  <1>14. ASSUME NEW r \in Requests, FindApiKey(r) \/ DecryptSecret(r) \/ DbFails(r) PROVE LimitInv'
    BY <1>9, <1>10, <1>14 DEF FindApiKey, DecryptSecret, DbFails, At
  <1>15. ASSUME NEW r \in Requests, CheckReplay(r) PROVE LimitInv'
    BY <1>9, <1>15 DEF CheckReplay
  <1> QED BY <1>3, <1>5, <1>6, <1>7, <1>11, <1>12, <1>13, <1>14, <1>15 DEF Next

LEMMA LimitAlways == Spec => [](GatewayInv /\ LimitInv)
  <1>1. Init => GatewayInv /\ LimitInv  BY GatewayInit, LimitInit
  <1>2. (GatewayInv /\ LimitInv) /\ [Next]_vars => (GatewayInv /\ LimitInv)'
    BY GatewayStep, LimitStep
  <1> QED BY <1>1, <1>2, PTL DEF Spec

LEMMA TypesFollow == GatewayInv /\ LimitInv => GatewayTypeOK
  <1> SUFFICES ASSUME GatewayInv, LimitInv PROVE GatewayTypeOK  OBVIOUS
  <1>1. SlotsOK  BY DEF LimitInv
  <1>2. ASSUME NEW k \in RlKeys PROVE slots[k] \in [stamps : [Times -> 0 .. Limit], lapses : Nat]
    <2>1. slots[k] \in Slot /\ Count(slots[k].stamps) <= Limit  BY <1>1 DEF SlotsOK, SlotOK
    <2>2. slots[k].stamps \in [Times -> Nat]  BY <2>1 DEF Slot
    <2>3. ASSUME NEW t \in Times PROVE slots[k].stamps[t] <= Limit
      <3> DEFINE f == slots[k].stamps
      <3>1. f[t] \in Nat /\ \A u \in Times : f[u] \in Nat  BY <2>2
      <3>2. SumFunctionOnSet(f, Times) = f[t] + SumFunctionOnSet(f, Times \ {t})
        <4>1. \A u \in Times : f[u] \in Int  BY <3>1
        <4> QED BY <4>1, LimitConstants, SumTake
      <3>3. SumFunctionOnSet(f, Times \ {t}) \in Nat /\ SumFunctionOnSet(f, Times) \in Nat
        <4>1. Times \ {t} \in SUBSET Times  OBVIOUS
        <4> QED BY <3>1, <4>1, LimitConstants, SumPart
      <3> QED BY <2>1, <3>1, <3>2, <3>3, LimitConstants DEF Count
    <2>4. slots[k].stamps \in [Times -> 0 .. Limit]  BY <2>2, <2>3, LimitConstants
    <2> QED BY <2>1, <2>4 DEF Slot
  <1>3. slots \in [RlKeys -> [stamps : [Times -> 0 .. Limit], lapses : Nat]]
    BY <1>1, <1>2 DEF SlotsOK
  <1> QED BY <1>1, <1>3 DEF GatewayTypeOK, GatewayInv, Shapes, SlotsOK

LEMMA BucketsFollow == LimitInv => BucketsAdmitTwice
  <1> SUFFICES ASSUME LimitInv, NEW tier \in Bucketed, NEW who \in Clients, NEW t \in Times
               PROVE  /\ AdmittedIn(tier, who, t - Window + 1, t) <= 2 * Limit
                      /\ t % Window = 0 => AdmittedIn(tier, who, t, t + Window - 1) <= Limit
    BY DEF BucketsAdmitTwice
  <1>1. SlotsOK /\ \A u \in Times : Got(<<tier, who>>, Bucket(u)) <= Limit
    BY DEF LimitInv, BucketOK
  <1>2. PICK c : c = <<tier, who>>  OBVIOUS
  <1>3. c \in Tiers \X Clients /\ admitted[c] \in [Times -> Nat]
    BY <1>1, <1>2, LimitConstants DEF SlotsOK
  <1>4. Limit \in Nat /\ Window \in Nat /\ Times \subseteq Nat /\ IsFiniteSet(Times)  BY LimitConstants
  <1>5. ASSUME NEW S \in SUBSET Times, NEW T \in SUBSET S
        PROVE  Got(c, T) \in Nat /\ Got(c, S) \in Nat /\ Got(c, T) <= Got(c, S)
    <2>1. IsFiniteSet(S) /\ \A x \in S : admitted[c][x] \in Nat  BY <1>3, FiniteTimes
    <2> QED BY <2>1, SumPart DEF Got
  <1>6. AdmittedIn(tier, who, t - Window + 1, t) <= 2 * Limit
    <2> DEFINE T == {x \in Times : t - Window + 1 <= x /\ x <= t}
               A == T \cap Bucket(t)
               B == T \ A
    <2>1. A \in SUBSET Bucket(t) /\ Bucket(t) \in SUBSET Times /\ B \in SUBSET Times /\ A \in SUBSET Times
      BY FiniteTimes
    <2>2. Got(c, A) <= Limit /\ Got(c, A) \in Nat
      <3>1. Got(c, Bucket(t)) <= Limit  BY <1>1, <1>2
      <3> QED BY <1>4, <1>5, <2>1, <3>1
    <2>3. Got(c, B) <= Limit /\ Got(c, B) \in Nat
      <3>1. CASE B = {}
        <4>1. Got(c, B) = 0  BY <3>1, SumEmpty DEF Got
        <4> QED BY <1>4, <4>1
      <3>2. CASE B # {}
        <4>1. PICK x \in B : TRUE  BY <3>2
        <4>2. ASSUME NEW z \in B PROVE z \in Times /\ WindowBucket(z) = WindowBucket(t) - 1
          <5>1. z \in Times /\ t - Window + 1 <= z /\ z <= t /\ WindowBucket(z) # WindowBucket(t)
            BY DEF Bucket
          <5> QED BY <5>1, StretchInBuckets
        <4>3. x \in Times /\ B \in SUBSET Bucket(x) /\ Bucket(x) \in SUBSET Times
          BY <4>1, <4>2, FiniteTimes DEF Bucket
        <4>4. Got(c, Bucket(x)) <= Limit  BY <1>1, <1>2, <4>3
        <4> QED BY <1>4, <1>5, <4>3, <4>4
      <3> QED BY <3>1, <3>2
    <2>4. T = A \cup B  OBVIOUS
    <2>5. Got(c, A \cup B) \in Nat /\ Got(c, A \cup B) <= Got(c, A) + Got(c, B)
      <3>1. IsFiniteSet(A) /\ IsFiniteSet(B)  BY <2>1, FiniteTimes
      <3>2. \A x \in A \cup B : admitted[c][x] \in Nat  BY <1>3, <2>1
      <3> HIDE DEF A, B
      <3> QED BY <3>1, <3>2, SumUnion DEF Got
    <2>6. AdmittedIn(tier, who, t - Window + 1, t) = Got(c, T)  BY <1>2 DEF AdmittedIn, Got
    <2> HIDE DEF T, A, B
    <2> QED BY <1>4, <2>2, <2>3, <2>4, <2>5, <2>6
  <1>7. ASSUME t % Window = 0 PROVE AdmittedIn(tier, who, t, t + Window - 1) <= Limit
    <2> DEFINE T == {x \in Times : t <= x /\ x <= t + Window - 1}
    <2>1. T \in SUBSET Bucket(t) /\ Bucket(t) \in SUBSET Times
      BY <1>7, StretchIsBucket, FiniteTimes DEF Bucket
    <2>2. Got(c, Bucket(t)) <= Limit  BY <1>1, <1>2
    <2>3. AdmittedIn(tier, who, t, t + Window - 1) = Got(c, T)  BY <1>2 DEF AdmittedIn, Got
    <2> HIDE DEF T
    <2> QED BY <1>4, <1>5, <2>1, <2>2, <2>3
  <1> QED BY <1>6, <1>7

LEMMA SlidesFollow == LimitInv => SlidingAdmitsLimit
  <1> SUFFICES ASSUME LimitInv, NEW tier \in Tiers \ Bucketed, NEW who \in Clients, NEW t \in Times
               PROVE  AdmittedIn(tier, who, t - Window + 1, t) <= Limit + Cardinality(Requests) - 1
    BY DEF SlidingAdmitsLimit
  <1>1. SlotsOK  BY DEF LimitInv
  <1>2. PICK a : a = t - Window + 1  OBVIOUS
  <1>3. PICK R : R = Cardinality(Requests)  OBVIOUS
  <1>4. R \in Nat \ {0} /\ Limit \in Nat /\ Window \in Nat \ {0} /\ t \in Nat /\ MaxTime \in Nat
        /\ t <= MaxTime
    BY <1>3, LimitConstants, Constants DEF Times
  <1>5. a \in Starts  BY <1>2, <1>4 DEF Starts
  <1>6. SlideOK(tier, who, a)  BY <1>5 DEF LimitInv
  <1>7. PICK c, k, S : c = <<tier, who>> /\ k = RlKey(tier, who, 0) /\ S = Stretch(a)  OBVIOUS
  <1>8. c \in Tiers \X Clients /\ k \in RlKeys /\ S \in SUBSET Times
    BY <1>7, FiniteTimes, Constants DEF RlKeys
  <1>9. PICK g : g = Got(c, S)  OBVIOUS
  <1>10. g \in Nat  BY <1>1, <1>8, <1>9, GotIsNat
  <1>11. S = {x \in Times : t - Window + 1 <= x /\ x <= t}
    <2>1. a + Window - 1 = t  BY <1>2, <1>4
    <2> QED BY <1>2, <1>7, <2>1 DEF Stretch
  <1>12. AdmittedIn(tier, who, t - Window + 1, t) = g
    BY <1>7, <1>9, <1>11 DEF AdmittedIn, Got
  <1>13. g <= Limit + R - 1
    <2>1. CASE Held(k, c, S)
      <3>1. slots[k].stamps \in [Times -> Nat] /\ Count(slots[k].stamps) <= Limit
        BY <1>1, <1>8 DEF SlotsOK, Slot, SlotOK
      <3>2. g <= Count(slots[k].stamps)  BY <1>1, <1>8, <1>9, <2>1, <3>1, HeldCounts DEF Held
      <3>3. Count(slots[k].stamps) \in Nat  BY <3>1, LimitConstants, SumPart DEF Count
      <3> QED BY <1>4, <1>10, <3>1, <3>2, <3>3
    <2>2. CASE g + Cardinality(Waiting(tier, who, S)) <= Limit + R - 1
      <3>1. Cardinality(Waiting(tier, who, S)) \in Nat
        <4>1. Waiting(tier, who, S) \in SUBSET Requests  BY DEF Waiting
        <4> QED BY <4>1, FewerWait
      <3> QED BY <1>4, <1>10, <2>2, <3>1
    <2> QED BY <1>3, <1>6, <1>7, <1>9, <2>1, <2>2 DEF SlideOK
  <1> QED BY <1>3, <1>12, <1>13

(* rate_limit_middleware and the Lua script, for any limit, window, grace  *)
(* and number of requests in flight: no set in Redis holds more than the   *)
(* limit; in the bucketed tiers a client gets at most the limit through in *)
(* a bucket and twice the limit in any stretch as long as a window; in the *)
(* sliding tiers the limit, and fewer more than can be in flight together. *)
THEOREM LimitsSafe == Spec => []LimitsHold
  <1>1. GatewayInv /\ LimitInv => LimitsHold
    BY TypesFollow, BucketsFollow, SlidesFollow DEF LimitsHold
  <1> QED BY <1>1, LimitAlways, PTL
=============================================================================
