--------------------------- MODULE SessionsProofs ---------------------------
(***************************************************************************)
(* For any number of users, addresses, handlers in flight, tokens and for  *)
(* any limits: the tables stay well formed, a frozen user gets no token,   *)
(* an enabled second factor was proved, a session family has one working   *)
(* token, and the attempt limits are overshot by the handlers in flight    *)
(* only.                                                                   *)
(***************************************************************************)
EXTENDS Sessions, FiniteSetTheorems, TLAPS

(* The states a handler of each kind goes through. *)
PcOf(op) ==
  CASE op = "login"   -> {"find_user", "verify_password", "mint"}
    [] op = "signup"  -> {"create_user", "mint"}
    [] op = "refresh" -> {"reuse", "expired", "load_user", "rotate", "mint"}
    [] op = "setup"   -> {"store_secret"}
    [] op = "verify"  -> {"load_secret", "check_code", "enable"}
    [] OTHER          -> {"load_secret", "check_code", "disable"}

(* A handler is where its kind can be, and holds a token row if and only   *)
(* if it refreshes.                                                        *)
HandlerOK(h, ts) ==
  /\ h.pc \in PcOf(h.op)
  /\ h.op = "refresh" => h.tok \in DOMAIN ts /\ h.fam = ts[h.tok].family
  /\ h.op # "refresh" => h.fam = 0

HandlersOK == \A r \in Requests : req[r] # Idle => HandlerOK(req[r], tokens)

(* Families are named after one of their tokens. *)
FamiliesOK ==
  /\ \A t \in DOMAIN tokens : tokens[t].family \in 1..Len(tokens)
  /\ killed \subseteq 1..Len(tokens)

TypeInv == SessionsTypeOK /\ HandlersOK /\ FamiliesOK

-----------------------------------------------------------------------------
(* The two ways in which a handler moves, and the three in which the       *)
(* tokens change.                                                          *)

LEMMA BusyIsNotIdle ==
  /\ Idle \notin Busy
  /\ \A h \in Busy \cup {Idle} : h.pc # "idle" <=> h # Idle
  /\ \A h \in Busy \cup {Idle} : h # Idle <=> h \in Busy
  BY DEF Busy, Idle

(* The tokens us are ts, some of them revoked. *)
SomeRevoked(ts, us) ==
  /\ us \in Seq(Token) /\ Len(us) = Len(ts)
  /\ \A t \in DOMAIN ts :
       /\ us[t].family = ts[t].family
       /\ ts[t].revoked => us[t].revoked

LEMMA RevokeOne ==
  ASSUME tokens \in Seq(Token), NEW t \in DOMAIN tokens, RevokeRefreshToken(t)
  PROVE  /\ SomeRevoked(tokens, tokens')
         /\ tokens'[t].revoked
         /\ \A s \in DOMAIN tokens : s # t => tokens'[s] = tokens[s]
  <1>0. tokens \in [1..Len(tokens) -> Token]  OBVIOUS
  <1>1. tokens' \in [1..Len(tokens) -> Token]
    BY <1>0 DEF RevokeRefreshToken, Token
  <1>2. tokens' \in Seq(Token) /\ Len(tokens') = Len(tokens)  BY <1>1
  <1> QED BY <1>2 DEF RevokeRefreshToken, SomeRevoked, Token

LEMMA RevokeFamily ==
  ASSUME tokens \in Seq(Token), NEW f, RevokeRefreshFamily(f)
  PROVE  /\ SomeRevoked(tokens, tokens')
         /\ \A t \in DOMAIN tokens : tokens[t].family = f => tokens'[t].revoked
         /\ \A t \in DOMAIN tokens : tokens[t].family # f => tokens'[t] = tokens[t]
  <1>0. tokens \in [1..Len(tokens) -> Token]  OBVIOUS
  <1>1. tokens' \in [1..Len(tokens) -> Token]
    BY <1>0 DEF RevokeRefreshFamily, Token
  <1>2. tokens' \in Seq(Token) /\ Len(tokens') = Len(tokens)  BY <1>1
  <1> QED BY <1>2 DEF RevokeRefreshFamily, SomeRevoked, Token

LEMMA MintOne ==
  ASSUME TypeInv, NEW r \in Requests, Mint(r)
  PROVE  LET n == Len(tokens) + 1 IN
         /\ tokens' \in Seq(Token) /\ Len(tokens') = n
         /\ \A t \in DOMAIN tokens : tokens'[t] = tokens[t]
         /\ tokens'[n].family = IF req[r].fam = 0 THEN n ELSE req[r].fam
         /\ ~tokens'[n].revoked
  <1>1. req[r] \in Busy /\ RefreshTtl \in Nat
    BY BusyIsNotIdle, SessionsAssumption DEF Mint, At, TypeInv, SessionsTypeOK
  <1>2. [user |-> req[r].user, revoked |-> FALSE, expires |-> now + RefreshTtl,
         family |-> IF req[r].fam = 0 THEN Len(tokens) + 1 ELSE req[r].fam] \in Token
    BY <1>1 DEF Busy, Token, TypeInv, SessionsTypeOK
  <1> QED BY <1>2 DEF Mint, TypeInv, SessionsTypeOK

(* The rows ts are still there, in the same families. *)
FamiliesKept(ts, us) ==
  /\ us \in Seq(Token) /\ Len(ts) <= Len(us)
  /\ \A t \in DOMAIN ts : us[t].family = ts[t].family

LEMMA MoveOK ==
  ASSUME TypeInv, FamiliesKept(tokens, tokens'), NEW r \in Requests,
         NEW h \in Busy \cup {Idle}, h # Idle => HandlerOK(h, tokens'),
         req' = [req EXCEPT ![r] = h]
  PROVE  req' \in [Requests -> Busy \cup {Idle}] /\ HandlersOK'
  <1>1. req' \in [Requests -> Busy \cup {Idle}]  BY DEF TypeInv, SessionsTypeOK
  <1>2. ASSUME NEW q \in Requests, req'[q] # Idle PROVE HandlerOK(req'[q], tokens')
    <2>1. CASE q = r  BY <2>1, <1>2 DEF TypeInv, SessionsTypeOK
    <2>2. CASE q # r
      <3>1. req'[q] = req[q]  BY <2>2 DEF TypeInv, SessionsTypeOK
      <3>2. HandlerOK(req[q], tokens)  BY <3>1, <1>2 DEF TypeInv, HandlersOK
      <3>3. tokens \in Seq(Token)  BY DEF TypeInv, SessionsTypeOK
      <3>4. DOMAIN tokens \subseteq DOMAIN tokens'  BY <3>3 DEF FamiliesKept
      <3> QED BY <3>1, <3>2, <3>4 DEF HandlerOK, FamiliesKept
    <2> QED BY <2>1, <2>2
  <1> QED BY <1>1, <1>2 DEF HandlersOK

(* A handler in flight is a record; what it says of itself is typed. *)
LEMMA BusyHere ==
  ASSUME TypeInv, NEW r \in Requests, req[r].pc # "idle"
  PROVE  req[r] \in Busy /\ req[r] # Idle /\ HandlerOK(req[r], tokens)
  BY BusyIsNotIdle DEF TypeInv, SessionsTypeOK, HandlersOK

LEMMA TokensSame ==
  ASSUME TypeInv, UNCHANGED tokens
  PROVE  FamiliesKept(tokens, tokens')
  BY DEF TypeInv, SessionsTypeOK, FamiliesKept

(* What a new handler is. *)
LEMMA BeginOK ==
  ASSUME TypeInv, UNCHANGED tokens, NEW r \in Requests, NEW op, NEW pc,
         NEW u \in Users, NEW ip \in Ips, NEW tok \in Nat, NEW fam \in Nat,
         op \in {"signup", "login", "refresh", "setup", "verify", "disable"}, pc \in PcOf(op),
         IF op = "refresh" THEN tok \in DOMAIN tokens /\ fam = tokens[tok].family ELSE fam = 0,
         Begin(r, op, pc, u, ip, tok, fam)
  PROVE  req' \in [Requests -> Busy \cup {Idle}] /\ HandlersOK'
  <1> DEFINE h == [pc |-> pc, op |-> op, user |-> u, ip |-> ip, at |-> now,
        seen |-> "none", totp |-> FALSE, tok |-> tok, fam |-> fam, secret |-> 0,
        late |-> users[u].status = "frozen"]
  <1>1. pc \in {"find_user", "verify_password", "create_user", "mint",
         "reuse", "expired", "load_user", "rotate",
         "store_secret", "load_secret", "check_code", "enable", "disable"}
    BY DEF PcOf
  <1>2. now \in Nat  BY DEF TypeInv, SessionsTypeOK
  <1>3. h \in Busy  BY <1>1, <1>2 DEF Busy, AccountStatus
  <1>4. HandlerOK(h, tokens')  BY DEF HandlerOK
  <1>5. req' = [req EXCEPT ![r] = h]  BY DEF Begin
  <1> HIDE DEF h
  <1> QED BY <1>3, <1>4, <1>5, MoveOK, TokensSame

LEMMA EndOK ==
  ASSUME TypeInv, FamiliesKept(tokens, tokens'), NEW r \in Requests, End(r)
  PROVE  req' \in [Requests -> Busy \cup {Idle}] /\ HandlersOK'
  BY MoveOK DEF End

LEMMA GotoOK ==
  ASSUME TypeInv, FamiliesKept(tokens, tokens'), NEW r \in Requests, req[r].pc # "idle",
         NEW pc, pc \in PcOf(req[r].op), Goto(r, pc)
  PROVE  req' \in [Requests -> Busy \cup {Idle}] /\ HandlersOK'
  <1> DEFINE h == [req[r] EXCEPT !.pc = pc]
  <1>1. req[r] \in Busy /\ HandlerOK(req[r], tokens)  BY BusyHere
  <1>2. pc \in {"find_user", "verify_password", "create_user", "mint",
         "reuse", "expired", "load_user", "rotate",
         "store_secret", "load_secret", "check_code", "enable", "disable"}
    BY DEF PcOf
  <1>3. h \in Busy  BY <1>1, <1>2 DEF Busy
  <1>4. DOMAIN tokens \subseteq DOMAIN tokens'
    BY DEF FamiliesKept, TypeInv, SessionsTypeOK
  <1>5. h.op = req[r].op /\ h.tok = req[r].tok /\ h.fam = req[r].fam /\ h.pc = pc
    BY <1>1 DEF Busy
  <1>6. HandlerOK(h, tokens')  BY <1>1, <1>4, <1>5 DEF HandlerOK, FamiliesKept
  <1>7. req' = [req EXCEPT ![r] = h]  BY DEF Goto, TypeInv, SessionsTypeOK
  <1> HIDE DEF h
  <1> QED BY <1>3, <1>6, <1>7, MoveOK

-----------------------------------------------------------------------------
(* Well-formed tables, counters and handlers. *)

LEMMA CountersOK ==
  ASSUME TypeInv
  PROVE  /\ Prune(byEmail) \in [Users -> Entry] /\ Prune(byIp) \in [Ips -> Entry]
         /\ \A e \in Entry, at \in Nat : Record(e, at) \in Entry
         /\ NoEntry \in Entry
  <1>1. NoEntry \in Entry  BY DEF NoEntry, Entry
  <1>2. byEmail \in [Users -> Entry] /\ byIp \in [Ips -> Entry]  BY DEF TypeInv, SessionsTypeOK
  <1>3. Prune(byEmail) \in [Users -> Entry] /\ Prune(byIp) \in [Ips -> Entry]
    BY <1>1, <1>2 DEF Prune
  <1>4. \A e \in Entry, at \in Nat : Record(e, at) \in Entry  BY DEF Record, Entry
  <1> QED BY <1>1, <1>3, <1>4

LEMMA InitType == Init => TypeInv
  <1> SUFFICES ASSUME Init PROVE TypeInv  OBVIOUS
  <1>1. NoEntry \in Entry  BY DEF NoEntry, Entry
  <1>2. tokens = <<>> /\ DOMAIN tokens = {} /\ tokens \in Seq(Token)  BY DEF Init
  <1>3. \A r \in Requests : req[r] = Idle  BY DEF Init
  <1>4. SessionsTypeOK  BY <1>1, <1>2 DEF Init, SessionsTypeOK, AccountStatus
  <1> QED BY <1>2, <1>3, <1>4 DEF Init, TypeInv, HandlersOK, FamiliesOK

(* Nothing but the handlers, the counters, the clock changes. *)
LEMMA TablesKept ==
  ASSUME TypeInv, UNCHANGED <<tables, killed, proved, secrets>>,
         byEmail' \in [Users -> Entry], byIp' \in [Ips -> Entry], now' \in Nat,
         req' \in [Requests -> Busy \cup {Idle}], HandlersOK'
  PROVE  TypeInv'
  BY DEF TypeInv, SessionsTypeOK, FamiliesOK, tables

LEMMA LoginType ==
  ASSUME TypeInv, NEW r \in Requests,
         \/ \E u \in Users, ip \in Ips : LoginBegin(r, u, ip)
         \/ LoginFindUser(r) \/ LoginFails(r) \/ LoginSucceeds(r)
  PROVE  TypeInv'
  <1>1. now \in Nat /\ byEmail \in [Users -> Entry] /\ byIp \in [Ips -> Entry]
    BY DEF TypeInv, SessionsTypeOK
  <1>2. ASSUME NEW u \in Users, NEW ip \in Ips, LoginBegin(r, u, ip) PROVE TypeInv'
    <2>1. UNCHANGED <<tables, now, history>>  BY <1>2 DEF LoginBegin
    <2>2. UNCHANGED tokens  BY <2>1 DEF tables
    <2>3. req' \in [Requests -> Busy \cup {Idle}] /\ HandlersOK'
      <3>1. CASE UNCHANGED req  BY <2>2, <3>1 DEF TypeInv, SessionsTypeOK, HandlersOK
      <3>2. CASE Begin(r, "login", "find_user", u, ip, 0, 0)
        <4>1. "find_user" \in PcOf("login")  BY DEF PcOf
        <4> QED BY <2>2, <3>2, <4>1, BeginOK
      <3> QED BY <1>2, <3>1, <3>2 DEF LoginBegin
    <2> QED BY <1>1, <1>2, <2>1, <2>3, CountersOK, TablesKept DEF LoginBegin, history
  <1>3. CASE LoginFindUser(r)
    <2> DEFINE h == [req[r] EXCEPT !.pc = "verify_password", !.seen = users[req[r].user].status,
                                   !.totp = users[req[r].user].totp]
    <2>1. UNCHANGED <<tables, attempts, now, history>>  BY <1>3 DEF LoginFindUser
    <2>2. req[r] \in Busy /\ HandlerOK(req[r], tokens) /\ req[r].pc = "find_user"
      BY <1>3, BusyHere DEF LoginFindUser, At
    <2>3. req[r].op = "login"  BY <2>2 DEF HandlerOK, PcOf, Busy
    <2>4. users[req[r].user] \in [status : AccountStatus, totp : BOOLEAN, secret : Nat]
      BY <2>2 DEF TypeInv, SessionsTypeOK, Busy
    <2>5. h \in Busy /\ h.op = "login" /\ h.pc = "verify_password" /\ h.fam = req[r].fam
      BY <2>2, <2>3, <2>4 DEF Busy
    <2>6. HandlerOK(h, tokens')  BY <2>2, <2>3, <2>5 DEF HandlerOK, PcOf
    <2>7. req' = [req EXCEPT ![r] = h]  BY <1>3 DEF LoginFindUser, TypeInv, SessionsTypeOK
    <2> HIDE DEF h
    <2>8. FamiliesKept(tokens, tokens')  BY <2>1, TokensSame DEF tables
    <2>9. req' \in [Requests -> Busy \cup {Idle}] /\ HandlersOK'
      BY <2>5, <2>6, <2>7, <2>8, MoveOK
    <2> QED BY <1>1, <2>1, <2>9, TablesKept DEF history, attempts
  <1>4. CASE LoginFails(r)
    <2>1. UNCHANGED <<tables, now, history>>  BY <1>4 DEF LoginFails
    <2>2. req[r] \in Busy  BY <1>4, BusyHere DEF LoginFails, At
    <2>3. byEmail' \in [Users -> Entry] /\ byIp' \in [Ips -> Entry]
      BY <1>1, <1>4, <2>2, CountersOK DEF LoginFails, Busy
    <2>4. FamiliesKept(tokens, tokens')  BY <2>1, TokensSame DEF tables
    <2> QED BY <1>1, <1>4, <2>1, <2>3, <2>4, EndOK, TablesKept DEF LoginFails, history
  <1>5. CASE LoginSucceeds(r)
    <2>1. UNCHANGED <<tables, now, history>>  BY <1>5 DEF LoginSucceeds
    <2>2. req[r] \in Busy /\ HandlerOK(req[r], tokens) /\ req[r].pc = "verify_password"
      BY <1>5, BusyHere DEF LoginSucceeds, At
    <2>3. byEmail' \in [Users -> Entry] /\ byIp' \in [Ips -> Entry]
      BY <1>1, <1>5, CountersOK DEF LoginSucceeds
    <2>4. FamiliesKept(tokens, tokens')  BY <2>1, TokensSame DEF tables
    <2>5. "mint" \in PcOf(req[r].op)  BY <2>2 DEF HandlerOK, PcOf, Busy
    <2>6. req' \in [Requests -> Busy \cup {Idle}] /\ HandlersOK'
      BY <1>5, <2>2, <2>4, <2>5, EndOK, GotoOK DEF LoginSucceeds
    <2> QED BY <1>1, <2>1, <2>3, <2>6, TablesKept DEF history
  <1> QED BY <1>2, <1>3, <1>4, <1>5

LEMMA SignupType ==
  ASSUME TypeInv, NEW r \in Requests,
         \/ \E u \in Users, ip \in Ips : SignupBegin(r, u, ip)
         \/ CreateUser(r) \/ Mint(r)
  PROVE  TypeInv'
  <1>1. now \in Nat /\ byEmail \in [Users -> Entry] /\ byIp \in [Ips -> Entry]
    BY DEF TypeInv, SessionsTypeOK
  <1>2. ASSUME NEW u \in Users, NEW ip \in Ips, SignupBegin(r, u, ip) PROVE TypeInv'
    <2>1. UNCHANGED <<tables, attempts, now, history>>  BY <1>2 DEF SignupBegin
    <2>2. UNCHANGED tokens /\ "create_user" \in PcOf("signup")  BY <2>1 DEF tables, PcOf
    <2>3. req' \in [Requests -> Busy \cup {Idle}] /\ HandlersOK'
      BY <1>2, <2>2, BeginOK DEF SignupBegin
    <2> QED BY <1>1, <2>1, <2>3, TablesKept DEF history, attempts
  <1>3. CASE CreateUser(r)
    <2>1. UNCHANGED <<tokens, attempts, now, history>>  BY <1>3 DEF CreateUser
    <2>2. req[r] \in Busy /\ HandlerOK(req[r], tokens) /\ req[r].pc = "create_user"
      BY <1>3, BusyHere DEF CreateUser, At
    <2>3. "mint" \in PcOf(req[r].op)  BY <2>2 DEF HandlerOK, PcOf, Busy
    <2>4. FamiliesKept(tokens, tokens')  BY <2>1, TokensSame
    <2>5. req' \in [Requests -> Busy \cup {Idle}] /\ HandlersOK'
      BY <1>3, <2>2, <2>3, <2>4, EndOK, GotoOK DEF CreateUser
    <2>6. users' \in [Users -> [status : AccountStatus, totp : BOOLEAN, secret : Nat]]
      <3>1. users \in [Users -> [status : AccountStatus, totp : BOOLEAN, secret : Nat]]
            /\ req[r].user \in Users /\ "active" \in AccountStatus
        BY <2>2 DEF TypeInv, SessionsTypeOK, Busy, AccountStatus
      <3>2. CASE users' = [users EXCEPT ![req[r].user].status = "active"]  BY <3>1, <3>2
      <3> QED BY <1>3, <3>1, <3>2 DEF CreateUser
    <2> QED BY <2>1, <2>5, <2>6 DEF TypeInv, SessionsTypeOK, FamiliesOK, history, attempts
  <1>4. CASE Mint(r)
    <2> DEFINE n == Len(tokens) + 1
    <2>1. UNCHANGED <<users, attempts, now, history>>  BY <1>4 DEF Mint
    <2>2. /\ tokens' \in Seq(Token) /\ Len(tokens') = n
          /\ \A t \in DOMAIN tokens : tokens'[t] = tokens[t]
          /\ tokens'[n].family = IF req[r].fam = 0 THEN n ELSE req[r].fam
      BY <1>4, MintOne
    <2>3. tokens \in Seq(Token)  BY DEF TypeInv, SessionsTypeOK
    <2>4. FamiliesKept(tokens, tokens')  BY <2>2, <2>3 DEF FamiliesKept
    <2>5. req' \in [Requests -> Busy \cup {Idle}] /\ HandlersOK'
      BY <1>4, <2>4, EndOK DEF Mint
    <2>6. req[r] \in Busy /\ HandlerOK(req[r], tokens) /\ req[r].pc = "mint"
      BY <1>4, BusyHere DEF Mint, At
    <2>7. req[r].fam = 0 \/ req[r].fam \in 1..Len(tokens)
      BY <2>6 DEF HandlerOK, TypeInv, FamiliesOK
    <2>8. FamiliesOK'
      BY <2>1, <2>2, <2>3, <2>7 DEF TypeInv, FamiliesOK, history
    <2> QED BY <2>1, <2>2, <2>5, <2>8 DEF TypeInv, SessionsTypeOK, history, attempts
  <1> QED BY <1>2, <1>3, <1>4

LEMMA RefreshType ==
  ASSUME TypeInv, NEW r \in Requests,
         \/ \E t \in DOMAIN tokens, ip \in Ips : RefreshFind(r, t, ip)
         \/ RefreshReuse(r) \/ RefreshExpired(r) \/ RefreshLoadUser(r) \/ RefreshRotate(r)
  PROVE  TypeInv'
  <1>1. now \in Nat /\ byEmail \in [Users -> Entry] /\ byIp \in [Ips -> Entry]
        /\ tokens \in Seq(Token) /\ tokens \in [1..Len(tokens) -> Token]
    BY DEF TypeInv, SessionsTypeOK
  <1>2. ASSUME NEW t \in DOMAIN tokens, NEW ip \in Ips, RefreshFind(r, t, ip) PROVE TypeInv'
    <2>1. UNCHANGED <<tables, attempts, now, workload, killed, proved, secrets>>
      BY <1>2 DEF RefreshFind
    <2>2. tokens[t] \in Token /\ t \in Nat  BY <1>1
    <2>3. tokens[t].user \in Users /\ tokens[t].family \in Nat  BY <2>2 DEF Token
    <2> DEFINE pc == IF tokens[t].revoked THEN "reuse"
                     ELSE IF tokens[t].expires <= now THEN "expired" ELSE "load_user"
    <2>4. pc \in PcOf("refresh")  BY DEF PcOf
    <2>5. Begin(r, "refresh", pc, tokens[t].user, ip, t, tokens[t].family)
      BY <1>2 DEF RefreshFind
    <2>6. UNCHANGED tokens  BY <2>1 DEF tables
    <2> HIDE DEF pc
    <2>7. req' \in [Requests -> Busy \cup {Idle}] /\ HandlersOK'
      BY <2>2, <2>3, <2>4, <2>5, <2>6, BeginOK
    <2> QED BY <1>1, <2>1, <2>7, TablesKept DEF attempts
  <1>3. CASE RefreshReuse(r)
    <2>1. UNCHANGED <<users, attempts, now, workload, raced, proved, secrets>>
      BY <1>3 DEF RefreshReuse
    <2>2. req[r] \in Busy /\ HandlerOK(req[r], tokens) /\ req[r].pc = "reuse"
      BY <1>3, BusyHere DEF RefreshReuse, At
    <2>3. req[r].op = "refresh"  BY <2>2 DEF HandlerOK, PcOf, Busy
    <2>4. req[r].fam \in 1..Len(tokens)  BY <2>2, <2>3 DEF HandlerOK, TypeInv, FamiliesOK
    <2>5. SomeRevoked(tokens, tokens')  BY <1>1, <1>3, RevokeFamily DEF RefreshReuse
    <2>6. FamiliesKept(tokens, tokens')  BY <1>1, <2>5 DEF SomeRevoked, FamiliesKept
    <2>7. req' \in [Requests -> Busy \cup {Idle}] /\ HandlersOK'
      BY <1>3, <2>6, EndOK DEF RefreshReuse
    <2>8. killed' = killed \cup {req[r].fam}  BY <1>3 DEF RefreshReuse
    <2>9. FamiliesOK' /\ tokens' \in Seq(Token) /\ killed' \subseteq Nat
      <3>1. DOMAIN tokens' = DOMAIN tokens /\ Len(tokens') = Len(tokens)
        BY <1>1, <2>5 DEF SomeRevoked
      <3>2. killed' \subseteq Nat /\ killed' \subseteq 1..Len(tokens)
        <4>1. killed \subseteq 1..Len(tokens) /\ Len(tokens) \in Nat
          BY <1>1 DEF TypeInv, FamiliesOK
        <4>2. \A k \in killed' : k \in 1..Len(tokens)  BY <2>4, <2>8, <4>1
        <4> QED BY <4>1, <4>2
      <3> QED BY <2>5, <3>1, <3>2 DEF TypeInv, FamiliesOK, SomeRevoked
    <2> QED BY <2>1, <2>7, <2>9 DEF TypeInv, SessionsTypeOK, attempts
  <1>4. CASE RefreshExpired(r) \/ RefreshRotate(r)
    <2>1. UNCHANGED <<users, attempts, now, history>> /\ RevokeRefreshToken(req[r].tok)
      BY <1>4 DEF RefreshExpired, RefreshRotate
    <2>2. req[r] \in Busy /\ HandlerOK(req[r], tokens) /\ req[r].pc \in {"expired", "rotate"}
      BY <1>4, BusyHere DEF RefreshExpired, RefreshRotate, At
    <2>3. req[r].op = "refresh"  BY <2>2 DEF HandlerOK, PcOf, Busy
    <2>4. SomeRevoked(tokens, tokens')
      BY <1>1, <2>1, <2>2, <2>3, RevokeOne DEF HandlerOK
    <2>5. FamiliesKept(tokens, tokens')  BY <1>1, <2>4 DEF SomeRevoked, FamiliesKept
    <2>6. "mint" \in PcOf(req[r].op)  BY <2>3 DEF PcOf
    <2>7. req' \in [Requests -> Busy \cup {Idle}] /\ HandlersOK'
      BY <1>4, <2>2, <2>5, <2>6, EndOK, GotoOK DEF RefreshExpired, RefreshRotate
    <2>8. FamiliesOK' /\ tokens' \in Seq(Token)
      <3>1. DOMAIN tokens' = DOMAIN tokens /\ Len(tokens') = Len(tokens)
        BY <1>1, <2>4 DEF SomeRevoked
      <3> QED BY <2>1, <2>4, <3>1 DEF TypeInv, SessionsTypeOK, FamiliesOK, SomeRevoked, history
    <2> QED BY <2>1, <2>7, <2>8 DEF TypeInv, SessionsTypeOK, attempts, history
  <1>5. CASE RefreshLoadUser(r)
    <2>1. UNCHANGED <<tables, attempts, now, history>>  BY <1>5 DEF RefreshLoadUser
    <2>2. req[r] \in Busy /\ HandlerOK(req[r], tokens) /\ req[r].pc = "load_user"
      BY <1>5, BusyHere DEF RefreshLoadUser, At
    <2>3. "rotate" \in PcOf(req[r].op)  BY <2>2 DEF HandlerOK, PcOf, Busy
    <2>4. FamiliesKept(tokens, tokens')  BY <2>1, TokensSame DEF tables
    <2>5. req' \in [Requests -> Busy \cup {Idle}] /\ HandlersOK'
      BY <1>5, <2>2, <2>3, <2>4, EndOK, GotoOK DEF RefreshLoadUser
    <2> QED BY <1>1, <2>1, <2>5, TablesKept DEF history, attempts
  <1> QED BY <1>2, <1>3, <1>4, <1>5

LEMMA TotpBeginType ==
  ASSUME TypeInv, NEW r \in Requests, NEW u \in Users, NEW ip \in Ips,
         SetupTotp(r, u, ip) \/ VerifyTotp(r, u, ip) \/ DisableTotp(r, u, ip)
  PROVE  TypeInv'
  <1>1. now \in Nat /\ byEmail \in [Users -> Entry] /\ byIp \in [Ips -> Entry]
    BY DEF TypeInv, SessionsTypeOK
  <1>2. PICK op \in TotpOps, pc \in {"store_secret", "load_secret"}, allowed \in BOOLEAN :
          pc \in PcOf(op) /\ TotpBegin(r, op, pc, u, ip, allowed)
    <2>1. users[u].totp \in BOOLEAN  BY DEF TypeInv, SessionsTypeOK
    <2>2. "store_secret" \in PcOf("setup") /\ "load_secret" \in PcOf("verify")
          /\ "load_secret" \in PcOf("disable")
      BY DEF PcOf
    <2> QED BY <2>1, <2>2 DEF SetupTotp, VerifyTotp, DisableTotp, TotpOps
  <1>3. UNCHANGED <<tables, attempts, now, workload, killed, proved, secrets>>
    BY <1>2 DEF TotpBegin
  <1>4. UNCHANGED tokens  BY <1>3 DEF tables
  <1>5. req' \in [Requests -> Busy \cup {Idle}] /\ HandlersOK'
    <2>1. CASE UNCHANGED req  BY <1>4, <2>1 DEF TypeInv, SessionsTypeOK, HandlersOK
    <2>2. CASE Begin(r, op, pc, u, ip, 0, 0)
      <3>1. op # "refresh" /\ op \in {"signup", "login", "refresh", "setup", "verify", "disable"}
        BY DEF TotpOps
      <3> QED BY <1>2, <1>4, <2>2, <3>1, BeginOK
    <2> QED BY <1>2, <2>1, <2>2 DEF TotpBegin
  <1> QED BY <1>1, <1>3, <1>5, TablesKept DEF attempts

LEMMA TotpType ==
  ASSUME TypeInv, NEW r \in Requests,
         StoreTotpSecret(r) \/ LoadTotp(r) \/ CheckCode(r) \/ EnableTotp(r) \/ DisableTotpRow(r)
  PROVE  TypeInv'
  <1> DEFINE User == [status : AccountStatus, totp : BOOLEAN, secret : Nat]
  <1>1. now \in Nat /\ byEmail \in [Users -> Entry] /\ byIp \in [Ips -> Entry]
        /\ users \in [Users -> User] /\ secrets \in Nat /\ proved \in [Users -> Nat]
    BY DEF TypeInv, SessionsTypeOK
  <1>2. req[r] \in Busy /\ HandlerOK(req[r], tokens)
        /\ req[r].pc \in {"store_secret", "load_secret", "check_code", "enable", "disable"}
    BY BusyHere DEF StoreTotpSecret, LoadTotp, CheckCode, EnableTotp, DisableTotpRow, At
  <1>3. req[r].user \in Users /\ req[r].secret \in Nat  BY <1>2 DEF Busy
  <1>4. UNCHANGED <<tokens, attempts, now, workload, killed, raced>>
    BY DEF StoreTotpSecret, LoadTotp, CheckCode, EnableTotp, DisableTotpRow, tables, history
  <1>5. FamiliesKept(tokens, tokens')  BY <1>4, TokensSame
  <1>6. req' \in [Requests -> Busy \cup {Idle}] /\ HandlersOK'
    <2>1. CASE End(r)  BY <1>5, <2>1, EndOK
    <2>2. CASE LoadTotp(r) /\ ~End(r)
      <3> DEFINE h == [req[r] EXCEPT !.pc = "check_code", !.secret = users[req[r].user].secret]
      <3>1. users[req[r].user].secret \in Nat  BY <1>1, <1>3
      <3>2. h \in Busy /\ h.op = req[r].op /\ h.pc = "check_code" /\ h.fam = req[r].fam
            /\ h.tok = req[r].tok
        BY <1>2, <3>1 DEF Busy
      <3>3. req[r].op \in {"verify", "disable"}
        BY <1>2, <2>2 DEF HandlerOK, PcOf, Busy, LoadTotp, At
      <3>4. HandlerOK(h, tokens')  BY <1>2, <3>2, <3>3 DEF HandlerOK, PcOf
      <3>5. req' = [req EXCEPT ![r] = h]  BY <2>2 DEF LoadTotp, TypeInv, SessionsTypeOK
      <3> HIDE DEF h
      <3> QED BY <1>5, <3>2, <3>4, <3>5, MoveOK
    <2>3. CASE CheckCode(r) /\ ~End(r)
      <3> DEFINE pc == IF req[r].op = "verify" THEN "enable" ELSE "disable"
      <3>1. req[r].op \in {"verify", "disable"}
        BY <1>2, <2>3 DEF HandlerOK, PcOf, Busy, CheckCode, At
      <3>2. pc \in PcOf(req[r].op) /\ Goto(r, pc)  BY <2>3, <3>1 DEF PcOf, CheckCode
      <3> HIDE DEF pc
      <3> QED BY <1>2, <1>5, <3>2, GotoOK
    <2> QED BY <2>1, <2>2, <2>3 DEF StoreTotpSecret, EnableTotp, DisableTotpRow
  <1>7. users' \in [Users -> User]
    <2>1. CASE StoreTotpSecret(r)  BY <1>1, <1>3, <2>1 DEF StoreTotpSecret
    <2>2. CASE LoadTotp(r) \/ CheckCode(r)  BY <1>1, <2>2 DEF LoadTotp, CheckCode, tables
    <2>3. CASE EnableTotp(r)  BY <1>1, <1>3, <2>3 DEF EnableTotp
    <2>4. CASE DisableTotpRow(r)
      <3>1. [users[req[r].user] EXCEPT !.totp = FALSE, !.secret = 0] \in User  BY <1>1, <1>3
      <3>2. users' = [users EXCEPT ![req[r].user] =
                        [users[req[r].user] EXCEPT !.totp = FALSE, !.secret = 0]]
        BY <1>1, <1>3, <2>4 DEF DisableTotpRow
      <3> QED BY <1>1, <3>1, <3>2
    <2> QED BY <2>1, <2>2, <2>3, <2>4
  <1>8. secrets' \in Nat /\ proved' \in [Users -> Nat]
    BY <1>1, <1>3 DEF StoreTotpSecret, LoadTotp, CheckCode, EnableTotp, DisableTotpRow, history
  <1> QED BY <1>4, <1>6, <1>7, <1>8 DEF TypeInv, SessionsTypeOK, FamiliesOK, attempts

LEMMA NextType == TypeInv /\ [Next]_vars => TypeInv'
  <1> SUFFICES ASSUME TypeInv, [Next]_vars PROVE TypeInv'  OBVIOUS
  <1>1. CASE UNCHANGED vars
    BY <1>1 DEF vars, TypeInv, SessionsTypeOK, HandlersOK, FamiliesOK
  <1>2. CASE Tick
    BY <1>2 DEF Tick, tables, attempts, history, TypeInv, SessionsTypeOK, HandlersOK, FamiliesOK
  <1>3. ASSUME NEW u \in Users, FreezeUser(u) PROVE TypeInv'
    <2>1. users' \in [Users -> [status : AccountStatus, totp : BOOLEAN, secret : Nat]]
      BY <1>3 DEF FreezeUser, TypeInv, SessionsTypeOK, AccountStatus
    <2> QED BY <1>3, <2>1 DEF FreezeUser, attempts, history, TypeInv, SessionsTypeOK,
                              HandlersOK, FamiliesOK
  <1>4. ASSUME NEW r \in Requests, Arrive(r) PROVE TypeInv'
    BY <1>4, LoginType, SignupType, RefreshType, TotpBeginType DEF Arrive
  <1>5. ASSUME NEW r \in Requests, Step(r) PROVE TypeInv'
    <2>1. CASE DbFails(r)
      <3>1. FamiliesKept(tokens, tokens')  BY <2>1, TokensSame DEF DbFails, tables
      <3>2. req' \in [Requests -> Busy \cup {Idle}] /\ HandlersOK'
        BY <2>1, <3>1, EndOK DEF DbFails
      <3> QED BY <2>1, <3>2, TablesKept DEF DbFails, attempts, history, TypeInv, SessionsTypeOK
    <2> QED BY <1>5, <2>1, LoginType, SignupType, RefreshType, TotpType DEF Step
  <1> QED BY <1>1, <1>2, <1>3, <1>4, <1>5 DEF Next

-----------------------------------------------------------------------------
(* A frozen user gets no token. *)

(* A handler that arrived when its user was frozen: the user still is, and *)
(* the handler has not passed the check of the status.                     *)
LateHandler(h, us) ==
  h.late => /\ us[h.user].status = "frozen"
            /\ h.pc = "verify_password" => h.seen # "active"
            /\ h.pc \notin {"rotate", "mint"}

LateOK == \A r \in Requests : req[r] # Idle => LateHandler(req[r], users)

FreezesStay == \A u \in Users : users[u].status = "frozen" => users'[u].status = "frozen"

LEMMA LateMove ==
  ASSUME TypeInv, LateOK, FreezesStay, NEW r \in Requests,
         NEW h, h # Idle => LateHandler(h, users'), req' = [req EXCEPT ![r] = h]
  PROVE  LateOK'
  <1> SUFFICES ASSUME NEW q \in Requests, req'[q] # Idle PROVE LateHandler(req'[q], users')
    BY DEF LateOK
  <1>1. CASE q = r  BY <1>1 DEF TypeInv, SessionsTypeOK
  <1>2. CASE q # r
    <2>1. req'[q] = req[q]  BY <1>2 DEF TypeInv, SessionsTypeOK
    <2>2. req[q] \in Busy  BY <2>1, BusyIsNotIdle DEF TypeInv, SessionsTypeOK
    <2> QED BY <2>1, <2>2 DEF LateOK, LateHandler, FreezesStay, Busy
  <1> QED BY <1>1, <1>2

LEMMA LateEnd ==
  ASSUME TypeInv, LateOK, FreezesStay, NEW r \in Requests, End(r)
  PROVE  LateOK'
  BY LateMove DEF End

LEMMA LateGoto ==
  ASSUME TypeInv, LateOK, FreezesStay, NEW r \in Requests, NEW pc, Goto(r, pc),
         req[r] # Idle, pc \notin {"rotate", "mint", "verify_password"} \/ ~req[r].late
  PROVE  LateOK'
  <1> DEFINE h == [req[r] EXCEPT !.pc = pc]
  <1>1. req[r] \in Busy /\ LateHandler(req[r], users)
    BY BusyIsNotIdle DEF TypeInv, SessionsTypeOK, LateOK
  <1>2. h.late = req[r].late /\ h.user = req[r].user /\ h.pc = pc /\ h.user \in Users
    BY <1>1 DEF Busy
  <1>3. LateHandler(h, users')  BY <1>1, <1>2 DEF LateHandler, FreezesStay
  <1>4. req' = [req EXCEPT ![r] = h]  BY DEF Goto, TypeInv, SessionsTypeOK
  <1> HIDE DEF h
  <1> QED BY <1>3, <1>4, LateMove

LEMMA LateBegin ==
  ASSUME TypeInv, LateOK, UNCHANGED users, NEW r \in Requests, NEW op, NEW pc,
         NEW u \in Users, NEW ip, NEW tok, NEW fam, pc \notin {"rotate", "mint", "verify_password"},
         Begin(r, op, pc, u, ip, tok, fam)
  PROVE  LateOK'
  <1> DEFINE h == [pc |-> pc, op |-> op, user |-> u, ip |-> ip, at |-> now,
        seen |-> "none", totp |-> FALSE, tok |-> tok, fam |-> fam, secret |-> 0,
        late |-> users[u].status = "frozen"]
  <1>1. LateHandler(h, users')  BY DEF LateHandler
  <1>2. req' = [req EXCEPT ![r] = h]  BY DEF Begin
  <1>3. FreezesStay  BY DEF FreezesStay
  <1> HIDE DEF h
  <1> QED BY <1>1, <1>2, <1>3, LateMove

LEMMA LateSame ==
  ASSUME TypeInv, LateOK, FreezesStay, UNCHANGED req
  PROVE  LateOK'
  <1> SUFFICES ASSUME NEW q \in Requests, req[q] # Idle PROVE LateHandler(req[q], users')
    BY DEF LateOK
  <1>1. req[q] \in Busy  BY BusyIsNotIdle DEF TypeInv, SessionsTypeOK
  <1> QED BY <1>1 DEF LateOK, LateHandler, FreezesStay, Busy

(* No action takes a freeze back. *)
LEMMA NothingUnfreezes == TypeInv /\ [Next]_vars => FreezesStay
  <1> SUFFICES ASSUME TypeInv, [Next]_vars PROVE FreezesStay  OBVIOUS
  <1>1. users \in [Users -> [status : AccountStatus, totp : BOOLEAN, secret : Nat]]
    BY DEF TypeInv, SessionsTypeOK
  <1>2. CASE UNCHANGED users  BY <1>2 DEF FreezesStay
  <1>3. ASSUME NEW u \in Users, FreezeUser(u) PROVE FreezesStay
    BY <1>1, <1>3 DEF FreezeUser, FreezesStay
  <1>4. ASSUME NEW r \in Requests, CreateUser(r) PROVE FreezesStay
    BY <1>1, <1>4 DEF CreateUser, FreezesStay
  <1>5. ASSUME NEW r \in Requests, StoreTotpSecret(r) \/ EnableTotp(r) \/ DisableTotpRow(r)
        PROVE  FreezesStay
    <2>1. \A u \in Users : users'[u].status = users[u].status
      BY <1>1, <1>5 DEF StoreTotpSecret, EnableTotp, DisableTotpRow
    <2> QED BY <2>1 DEF FreezesStay
  <1>6. ASSUME NEW r \in Requests, Arrive(r) PROVE UNCHANGED users
    BY <1>6 DEF Arrive, LoginBegin, SignupBegin, SetupTotp, VerifyTotp, DisableTotp, TotpBegin,
                RefreshFind, tables
  <1>7. ASSUME NEW r \in Requests, Step(r), ~CreateUser(r), ~StoreTotpSecret(r), ~EnableTotp(r),
               ~DisableTotpRow(r)
        PROVE  UNCHANGED users
    BY <1>7 DEF Step, LoginFindUser, LoginFails, LoginSucceeds, Mint, RefreshReuse, RefreshExpired,
                RefreshLoadUser, RefreshRotate, LoadTotp, CheckCode, DbFails, tables
  <1>8. CASE Tick \/ UNCHANGED vars  BY <1>2, <1>8 DEF Tick, vars, tables
  <1> QED BY <1>2, <1>3, <1>4, <1>5, <1>6, <1>7, <1>8 DEF Next

LEMMA LateNext == TypeInv /\ LateOK /\ [Next]_vars => LateOK'
  <1> SUFFICES ASSUME TypeInv, LateOK, [Next]_vars PROVE LateOK'  OBVIOUS
  <1>1. FreezesStay  BY NothingUnfreezes
  <1>2. CASE UNCHANGED req  BY <1>1, <1>2, LateSame
  <1>3. CASE Tick \/ (\E u \in Users : FreezeUser(u)) \/ UNCHANGED vars
    BY <1>2, <1>3 DEF Tick, FreezeUser, vars
  <1>4. ASSUME NEW r \in Requests, Arrive(r) PROVE LateOK'
    <2>1. UNCHANGED users
      BY <1>4 DEF Arrive, LoginBegin, SignupBegin, SetupTotp, VerifyTotp, DisableTotp, TotpBegin,
                  RefreshFind, tables
    <2>2. ASSUME NEW u \in Users, NEW ip \in Ips, LoginBegin(r, u, ip) \/ SignupBegin(r, u, ip)
          PROVE  LateOK'
      BY <1>2, <2>1, <2>2, LateBegin DEF LoginBegin, SignupBegin
    <2>3. ASSUME NEW u \in Users, NEW ip \in Ips,
                 SetupTotp(r, u, ip) \/ VerifyTotp(r, u, ip) \/ DisableTotp(r, u, ip)
          PROVE  LateOK'
      BY <1>2, <2>1, <2>3, LateBegin DEF SetupTotp, VerifyTotp, DisableTotp, TotpBegin
    <2>4. ASSUME NEW t \in DOMAIN tokens, NEW ip \in Ips, RefreshFind(r, t, ip) PROVE LateOK'
      <3> DEFINE pc == IF tokens[t].revoked THEN "reuse"
                       ELSE IF tokens[t].expires <= now THEN "expired" ELSE "load_user"
      <3>1. pc \notin {"rotate", "mint", "verify_password"}  OBVIOUS
      <3>2. Begin(r, "refresh", pc, tokens[t].user, ip, t, tokens[t].family)
        BY <2>4 DEF RefreshFind
      <3>3. tokens[t].user \in Users
        <4>1. tokens \in [1..Len(tokens) -> Token]  BY DEF TypeInv, SessionsTypeOK
        <4> QED BY <4>1 DEF Token
      <3> HIDE DEF pc
      <3> QED BY <2>1, <3>1, <3>2, <3>3, LateBegin
    <2> QED BY <1>4, <2>2, <2>3, <2>4 DEF Arrive
  <1>5. ASSUME NEW r \in Requests, Step(r) PROVE LateOK'
    <2>1. CASE End(r)  BY <1>1, <2>1, LateEnd
    <2>2. req[r] # Idle /\ req[r] \in Busy /\ LateHandler(req[r], users)
      <3>1. req[r] # Idle
        BY <1>5, SMTT(30) DEF Step, LoginFindUser, LoginFails, LoginSucceeds, CreateUser, Mint, RefreshReuse,
             RefreshExpired, RefreshLoadUser, RefreshRotate, StoreTotpSecret, LoadTotp, CheckCode,
             EnableTotp, DisableTotpRow, DbFails, At, Idle
      <3> QED BY <3>1, BusyIsNotIdle DEF TypeInv, SessionsTypeOK, LateOK
    <2>3. CASE LoginFindUser(r)
      <3> DEFINE h == [req[r] EXCEPT !.pc = "verify_password",
                         !.seen = users[req[r].user].status, !.totp = users[req[r].user].totp]
      <3>1. /\ h.late = req[r].late /\ h.user = req[r].user /\ h.pc = "verify_password"
            /\ h.seen = users[req[r].user].status
        BY <2>2 DEF Busy
      <3>2. UNCHANGED users  BY <2>3 DEF LoginFindUser, tables
      <3>3. LateHandler(h, users')  BY <2>2, <3>1, <3>2 DEF LateHandler
      <3>4. req' = [req EXCEPT ![r] = h]  BY <2>3 DEF LoginFindUser, TypeInv, SessionsTypeOK
      <3> HIDE DEF h
      <3> QED BY <1>1, <3>3, <3>4, LateMove
    <2>4. CASE LoginSucceeds(r)
      <3>1. ~req[r].late  BY <2>2, <2>4 DEF LoginSucceeds, At, LateHandler
      <3> QED BY <1>1, <2>1, <2>2, <2>4, <3>1, LateGoto DEF LoginSucceeds
    <2>5. CASE CreateUser(r) /\ ~End(r)
      <3>1. ~req[r].late  BY <2>2, <2>5 DEF CreateUser, LateHandler
      <3> QED BY <1>1, <2>2, <2>5, <3>1, LateGoto DEF CreateUser
    <2>6. CASE RefreshLoadUser(r) /\ ~End(r)
      <3>1. ~req[r].late  BY <2>2, <2>6 DEF RefreshLoadUser, LateHandler
      <3> QED BY <1>1, <2>2, <2>6, <3>1, LateGoto DEF RefreshLoadUser
    <2>7. CASE RefreshRotate(r)
      <3>1. ~req[r].late  BY <2>2, <2>7 DEF RefreshRotate, At, LateHandler
      <3> QED BY <1>1, <2>2, <2>7, <3>1, LateGoto DEF RefreshRotate
    <2>8. CASE LoadTotp(r) /\ ~End(r)
      <3> DEFINE h == [req[r] EXCEPT !.pc = "check_code", !.secret = users[req[r].user].secret]
      <3>1. h.late = req[r].late /\ h.user = req[r].user /\ h.pc = "check_code"
        BY <2>2 DEF Busy
      <3>2. UNCHANGED users  BY <2>8 DEF LoadTotp, tables
      <3>3. LateHandler(h, users')  BY <2>2, <3>1, <3>2 DEF LateHandler
      <3>4. req' = [req EXCEPT ![r] = h]  BY <2>8 DEF LoadTotp, TypeInv, SessionsTypeOK
      <3> HIDE DEF h
      <3> QED BY <1>1, <3>3, <3>4, LateMove
    <2>9. CASE CheckCode(r) /\ ~End(r)
      BY <1>1, <2>2, <2>9, LateGoto DEF CheckCode
    <2> QED BY <1>5, <2>1, <2>3, <2>4, <2>5, <2>6, <2>7, <2>8, <2>9
         DEF Step, LoginFails, Mint, RefreshReuse, RefreshExpired, StoreTotpSecret, EnableTotp,
             DisableTotpRow, DbFails
  <1> QED BY <1>3, <1>4, <1>5 DEF Next

-----------------------------------------------------------------------------
(* An enabled second factor was proved. *)

(* What a handler of the second factor knows of the row of its user. *)
TotpHandler(h, row) ==
  /\ h.op \in {"setup", "verify"} => ~row.totp
  /\ h.pc \in {"check_code", "enable", "disable"} => h.secret # 0 /\ h.secret = row.secret

(* While a user's handlers did not overlap there is one at most, and what  *)
(* it has read is still true.                                              *)
TotpOK ==
  \A u \in Users \ raced :
    /\ \A q, r \in Requests : ChangesTotp(q, u) /\ ChangesTotp(r, u) => q = r
    /\ \A r \in Requests : ChangesTotp(r, u) => TotpHandler(req[r], users[u])
    /\ users[u].totp => users[u].secret # 0 /\ users[u].secret = proved[u]

LEMMA HandlerMoves ==
  ASSUME TypeInv, NEW r \in Requests, NEW h, req' = [req EXCEPT ![r] = h]
  PROVE  req'[r] = h /\ \A q \in Requests : q # r => req'[q] = req[q]
  BY DEF TypeInv, SessionsTypeOK

LEMMA TotpElsewhere ==
  ASSUME TypeInv, TotpOK, NEW r \in Requests, NEW h, h # Idle => h.op \notin TotpOps,
         req' = [req EXCEPT ![r] = h], UNCHANGED proved, raced \subseteq raced',
         \A u \in Users : users'[u].totp = users[u].totp /\ users'[u].secret = users[u].secret
  PROVE  TotpOK'
  <1> SUFFICES ASSUME NEW u \in Users, u \notin raced'
               PROVE  /\ \A p, q \in Requests : ChangesTotp(p, u)' /\ ChangesTotp(q, u)' => p = q
                      /\ \A q \in Requests : ChangesTotp(q, u)' => TotpHandler(req'[q], users'[u])
                      /\ users'[u].totp => users'[u].secret # 0 /\ users'[u].secret = proved'[u]
    BY DEF TotpOK
  <1>1. \A q \in Requests : ChangesTotp(q, u)' => ChangesTotp(q, u) /\ req'[q] = req[q]
    BY HandlerMoves DEF ChangesTotp
  <1> QED BY <1>1 DEF TotpOK, TotpHandler

LEMMA TotpMoves ==
  ASSUME TypeInv, TotpOK, NEW r \in Requests, req[r] # Idle, req[r].op \in TotpOps,
         NEW h, h # Idle => h.op \in TotpOps /\ h.user = req[r].user,
         req' = [req EXCEPT ![r] = h], UNCHANGED raced,
         \A u \in Users : u # req[r].user => users'[u] = users[u] /\ proved'[u] = proved[u],
         req[r].user \notin raced =>
           /\ h # Idle => TotpHandler(h, users'[req[r].user])
           /\ users'[req[r].user].totp =>
                /\ users'[req[r].user].secret # 0
                /\ users'[req[r].user].secret = proved'[req[r].user]
  PROVE  TotpOK'
  <1> SUFFICES ASSUME NEW u \in Users, u \notin raced'
               PROVE  /\ \A p, q \in Requests : ChangesTotp(p, u)' /\ ChangesTotp(q, u)' => p = q
                      /\ \A q \in Requests : ChangesTotp(q, u)' => TotpHandler(req'[q], users'[u])
                      /\ users'[u].totp => users'[u].secret # 0 /\ users'[u].secret = proved'[u]
    BY DEF TotpOK
  <1>1. \A q \in Requests : ChangesTotp(q, u)' => ChangesTotp(q, u)
    BY HandlerMoves DEF ChangesTotp
  <1>2. \A p, q \in Requests : ChangesTotp(p, u)' /\ ChangesTotp(q, u)' => p = q
    BY <1>1 DEF TotpOK
  <1>3. CASE u = req[r].user
    <2>1. ChangesTotp(r, u)  BY <1>3 DEF ChangesTotp
    <2>2. \A q \in Requests : ChangesTotp(q, u)' => q = r  BY <1>1, <2>1 DEF TotpOK
    <2>3. ChangesTotp(r, u)' => req'[r] = h /\ h # Idle  BY HandlerMoves DEF ChangesTotp
    <2> QED BY <1>2, <1>3, <2>2, <2>3
  <1>4. CASE u # req[r].user
    <2>1. \A q \in Requests : ChangesTotp(q, u)' => ChangesTotp(q, u) /\ req'[q] = req[q]
      BY <1>1, <1>4, HandlerMoves DEF ChangesTotp
    <2> QED BY <1>2, <1>4, <2>1 DEF TotpOK
  <1> QED BY <1>3, <1>4

LEMMA TotpBegins ==
  ASSUME TypeInv, TotpOK, NEW r \in Requests, NEW u \in Users, NEW ip \in Ips,
         SetupTotp(r, u, ip) \/ VerifyTotp(r, u, ip) \/ DisableTotp(r, u, ip)
  PROVE  TotpOK'
  <1>1. PICK op \in TotpOps, pc \in {"store_secret", "load_secret"}, allowed \in BOOLEAN :
          /\ TotpBegin(r, op, pc, u, ip, allowed)
          /\ allowed /\ op # "disable" => ~users[u].totp
    <2>1. users[u].totp \in BOOLEAN  BY DEF TypeInv, SessionsTypeOK
    <2> QED BY <2>1 DEF SetupTotp, VerifyTotp, DisableTotp, TotpOps
  <1>2. UNCHANGED <<users, proved>> /\ raced \subseteq raced'  BY <1>1 DEF TotpBegin, tables
  <1>3. CASE UNCHANGED req
    BY <1>2, <1>3 DEF TotpOK, ChangesTotp
  <1>4. CASE allowed /\ Begin(r, op, pc, u, ip, 0, 0)
    <2> DEFINE h == [pc |-> pc, op |-> op, user |-> u, ip |-> ip, at |-> now,
          seen |-> "none", totp |-> FALSE, tok |-> 0, fam |-> 0, secret |-> 0,
          late |-> users[u].status = "frozen"]
    <2>1. req' = [req EXCEPT ![r] = h]  BY <1>4 DEF Begin
    <2>2. h.user = u /\ TotpHandler(h, users[u])
      BY <1>1, <1>4 DEF TotpHandler, TotpOps
    <2> HIDE DEF h
    <2>3. req'[r] = h /\ \A q \in Requests : q # r => req'[q] = req[q]
      BY <2>1, HandlerMoves
    <2> SUFFICES ASSUME NEW v \in Users, v \notin raced'
                 PROVE  /\ \A p, q \in Requests : ChangesTotp(p, v)' /\ ChangesTotp(q, v)' => p = q
                        /\ \A q \in Requests : ChangesTotp(q, v)' => TotpHandler(req'[q], users'[v])
                        /\ users'[v].totp => users'[v].secret # 0 /\ users'[v].secret = proved'[v]
      BY DEF TotpOK
    <2>4. CASE v = u
      <3>1. \A q \in Requests : ~ChangesTotp(q, u)
        BY <1>1, <2>4 DEF TotpBegin
      <3>2. \A q \in Requests : ChangesTotp(q, u)' => q = r
        BY <2>3, <3>1 DEF ChangesTotp
      <3> QED BY <1>2, <2>2, <2>3, <2>4, <3>2 DEF TotpOK
    <2>5. CASE v # u
      <3>1. \A q \in Requests : ChangesTotp(q, v)' => ChangesTotp(q, v) /\ req'[q] = req[q]
        BY <2>2, <2>3, <2>5 DEF ChangesTotp
      <3> QED BY <1>2, <3>1 DEF TotpOK
    <2> QED BY <2>4, <2>5
  <1> QED BY <1>1, <1>3, <1>4 DEF TotpBegin

LEMMA TotpSteps ==
  ASSUME TypeInv, TotpOK, NEW r \in Requests,
         StoreTotpSecret(r) \/ LoadTotp(r) \/ CheckCode(r) \/ EnableTotp(r) \/ DisableTotpRow(r)
  PROVE  TotpOK'
  <1> DEFINE u == req[r].user
  <1>1. req[r] \in Busy /\ req[r] # Idle /\ HandlerOK(req[r], tokens)
        /\ req[r].pc \in {"store_secret", "load_secret", "check_code", "enable", "disable"}
    BY BusyHere DEF StoreTotpSecret, LoadTotp, CheckCode, EnableTotp, DisableTotpRow, At
  <1>2. req[r].op \in TotpOps /\ u \in Users  BY <1>1 DEF HandlerOK, PcOf, Busy, TotpOps
  <1>3. users \in [Users -> [status : AccountStatus, totp : BOOLEAN, secret : Nat]]
        /\ proved \in [Users -> Nat] /\ secrets \in Nat
    BY DEF TypeInv, SessionsTypeOK
  <1>4. UNCHANGED raced
    BY DEF StoreTotpSecret, LoadTotp, CheckCode, EnableTotp, DisableTotpRow, history
  <1>5. u \notin raced => TotpHandler(req[r], users[u])
                          /\ (users[u].totp => users[u].secret # 0 /\ users[u].secret = proved[u])
    BY <1>1, <1>2 DEF TotpOK, ChangesTotp
  <1>6. CASE StoreTotpSecret(r)
    <2>1. req[r].op = "setup"  BY <1>1, <1>6 DEF HandlerOK, PcOf, Busy, StoreTotpSecret, At
    <2>2. req' = [req EXCEPT ![r] = Idle]  BY <1>6 DEF StoreTotpSecret, End
    <2>3. /\ \A v \in Users : v # u => users'[v] = users[v] /\ proved'[v] = proved[v]
          /\ users'[u].totp = users[u].totp
      BY <1>2, <1>3, <1>6 DEF StoreTotpSecret
    <2>4. u \notin raced => ~users'[u].totp  BY <1>5, <2>1, <2>3 DEF TotpHandler
    <2> QED BY <1>1, <1>2, <1>4, <2>2, <2>3, <2>4, TotpMoves
  <1>7. CASE LoadTotp(r)
    <2>1. UNCHANGED <<users, proved>>  BY <1>7 DEF LoadTotp, tables, history
    <2>2. CASE End(r)
      BY <1>1, <1>2, <1>4, <1>5, <2>1, <2>2, TotpMoves DEF End
    <2>3. CASE ~End(r)
      <3> DEFINE h == [req[r] EXCEPT !.pc = "check_code", !.secret = users[u].secret]
      <3>1. /\ h.op = req[r].op /\ h.user = u /\ h.pc = "check_code"
            /\ h.secret = users[u].secret /\ users[u].secret # 0
        BY <1>1, <1>7, <2>3 DEF Busy, LoadTotp
      <3>2. u \notin raced => TotpHandler(h, users'[u])
        BY <1>5, <2>1, <3>1 DEF TotpHandler
      <3>3. req' = [req EXCEPT ![r] = h]  BY <1>7, <2>3 DEF LoadTotp, TypeInv, SessionsTypeOK
      <3> HIDE DEF h
      <3> QED BY <1>1, <1>2, <1>4, <1>5, <2>1, <3>1, <3>2, <3>3, TotpMoves
    <2> QED BY <2>2, <2>3
  <1>8. CASE CheckCode(r)
    <2>1. UNCHANGED <<users, proved>>  BY <1>8 DEF CheckCode, tables, history
    <2>2. CASE End(r)
      BY <1>1, <1>2, <1>4, <1>5, <2>1, <2>2, TotpMoves DEF End
    <2>3. CASE ~End(r)
      <3> DEFINE pc == IF req[r].op = "verify" THEN "enable" ELSE "disable"
                 h  == [req[r] EXCEPT !.pc = pc]
      <3>1. h.op = req[r].op /\ h.user = u /\ h.secret = req[r].secret
        BY <1>1 DEF Busy
      <3>2. u \notin raced => TotpHandler(h, users'[u])
        BY <1>5, <1>8, <2>1, <3>1 DEF TotpHandler, CheckCode, At
      <3>3. req' = [req EXCEPT ![r] = h]
        BY <1>8, <2>3 DEF CheckCode, Goto, TypeInv, SessionsTypeOK
      <3> HIDE DEF h
      <3> QED BY <1>1, <1>2, <1>4, <1>5, <2>1, <3>1, <3>2, <3>3, TotpMoves
    <2> QED BY <2>2, <2>3
  <1>9. CASE EnableTotp(r)
    <2>1. req' = [req EXCEPT ![r] = Idle]  BY <1>9 DEF EnableTotp, End
    <2>2. /\ \A v \in Users : v # u => users'[v] = users[v] /\ proved'[v] = proved[v]
          /\ users'[u].secret = users[u].secret /\ proved'[u] = req[r].secret
      BY <1>2, <1>3, <1>9 DEF EnableTotp
    <2>3. u \notin raced => users'[u].secret # 0 /\ users'[u].secret = proved'[u]
      BY <1>5, <1>9, <2>2 DEF TotpHandler, EnableTotp, At
    <2> QED BY <1>1, <1>2, <1>4, <2>1, <2>2, <2>3, TotpMoves
  <1>10. CASE DisableTotpRow(r)
    <2>1. req' = [req EXCEPT ![r] = Idle]  BY <1>10 DEF DisableTotpRow, End
    <2>2. /\ \A v \in Users : v # u => users'[v] = users[v] /\ proved'[v] = proved[v]
          /\ ~users'[u].totp
      BY <1>2, <1>3, <1>10 DEF DisableTotpRow, history
    <2> QED BY <1>1, <1>2, <1>4, <2>1, <2>2, TotpMoves
  <1> QED BY <1>6, <1>7, <1>8, <1>9, <1>10

-----------------------------------------------------------------------------
(* A step of a handler changes only its own record, and of that only what  *)
(* it has read and where it is.                                            *)
SameHandler(h, g) ==
  h.op = g.op /\ h.user = g.user /\ h.ip = g.ip /\ h.tok = g.tok /\ h.fam = g.fam /\ h.at = g.at

LEMMA StepMoves ==
  ASSUME TypeInv, NEW r \in Requests, Step(r)
  PROVE  /\ req[r] # Idle /\ req[r] \in Busy /\ HandlerOK(req[r], tokens)
         /\ \E h \in Busy \cup {Idle} :
              req' = [req EXCEPT ![r] = h] /\ (h # Idle => SameHandler(h, req[r]))
  <1>1. req[r] # Idle
    BY SMTT(30) DEF Step, LoginFindUser, LoginFails, LoginSucceeds, CreateUser, Mint, RefreshReuse,
           RefreshExpired, RefreshLoadUser, RefreshRotate, StoreTotpSecret, LoadTotp, CheckCode,
           EnableTotp, DisableTotpRow, DbFails, At, Idle
  <1>2. req[r] \in Busy /\ HandlerOK(req[r], tokens)
    BY <1>1, BusyIsNotIdle DEF TypeInv, SessionsTypeOK, HandlersOK
  <1> DEFINE Moved == \E h \in Busy \cup {Idle} :
                        req' = [req EXCEPT ![r] = h] /\ (h # Idle => SameHandler(h, req[r]))
  <1>3. CASE End(r)
    <2>1. req' = [req EXCEPT ![r] = Idle] /\ Idle \in Busy \cup {Idle}  BY <1>3 DEF End
    <2>2. Moved  BY <2>1
    <2> QED BY <1>1, <1>2, <2>2
  <1>4. ASSUME NEW pc, Goto(r, pc)
        PROVE  /\ req' = [req EXCEPT ![r] = [req[r] EXCEPT !.pc = pc]]
               /\ SameHandler([req[r] EXCEPT !.pc = pc], req[r])
    BY <1>2, <1>4 DEF Goto, TypeInv, SessionsTypeOK, SameHandler, Busy
  <1>5. req'[r] \in Busy \cup {Idle}
    <2>1. TypeInv'
      BY LoginType, SignupType, RefreshType, TotpType, NextType DEF Step, Next
    <2> QED BY <2>1 DEF TypeInv, SessionsTypeOK
  <1>6. CASE LoginFindUser(r)
    <2> DEFINE h == [req[r] EXCEPT !.pc = "verify_password",
                       !.seen = users[req[r].user].status, !.totp = users[req[r].user].totp]
    <2>1. SameHandler(h, req[r])  BY <1>2 DEF SameHandler, Busy
    <2>2. req' = [req EXCEPT ![r] = h]  BY <1>6 DEF LoginFindUser, TypeInv, SessionsTypeOK
    <2> HIDE DEF h
    <2>3. h = req'[r]  BY <2>2, HandlerMoves
    <2> QED BY <1>1, <1>2, <1>5, <2>1, <2>2, <2>3
  <1>7. CASE LoadTotp(r) /\ ~End(r)
    <2> DEFINE h == [req[r] EXCEPT !.pc = "check_code", !.secret = users[req[r].user].secret]
    <2>1. SameHandler(h, req[r])  BY <1>2 DEF SameHandler, Busy
    <2>2. req' = [req EXCEPT ![r] = h]  BY <1>7 DEF LoadTotp, TypeInv, SessionsTypeOK
    <2> HIDE DEF h
    <2>3. h = req'[r]  BY <2>2, HandlerMoves
    <2> QED BY <1>1, <1>2, <1>5, <2>1, <2>2, <2>3
  <1>8. ASSUME NEW pc, Goto(r, pc)
        PROVE  \E h \in Busy \cup {Idle} :
                 req' = [req EXCEPT ![r] = h] /\ (h # Idle => SameHandler(h, req[r]))
    <2> DEFINE h == [req[r] EXCEPT !.pc = pc]
    <2>1. req' = [req EXCEPT ![r] = h] /\ SameHandler(h, req[r])  BY <1>4, <1>8
    <2> HIDE DEF h
    <2>2. h = req'[r]  BY <2>1, HandlerMoves
    <2> QED BY <1>5, <2>1, <2>2
  <1>9. \/ End(r) \/ LoginFindUser(r) \/ LoadTotp(r) \/ Goto(r, "mint") \/ Goto(r, "rotate")
        \/ Goto(r, "enable") \/ Goto(r, "disable")
    <2>1. CASE LoginFails(r) \/ Mint(r) \/ RefreshReuse(r) \/ RefreshExpired(r)
               \/ StoreTotpSecret(r) \/ EnableTotp(r) \/ DisableTotpRow(r) \/ DbFails(r)
      BY <2>1 DEF LoginFails, Mint, RefreshReuse, RefreshExpired, StoreTotpSecret, EnableTotp,
                  DisableTotpRow, DbFails
    <2>2. CASE LoginSucceeds(r) \/ CreateUser(r) \/ RefreshLoadUser(r) \/ RefreshRotate(r)
      BY <2>2 DEF LoginSucceeds, CreateUser, RefreshLoadUser, RefreshRotate
    <2>3. CASE CheckCode(r)  BY <2>3 DEF CheckCode
    <2> QED BY <2>1, <2>2, <2>3 DEF Step
  <1> QED BY <1>1, <1>2, <1>3, <1>6, <1>7, <1>8, <1>9

LEMMA TotpNext == TypeInv /\ TotpOK /\ [Next]_vars => TotpOK'
  <1> SUFFICES ASSUME TypeInv, TotpOK, [Next]_vars PROVE TotpOK'  OBVIOUS
  <1>1. users \in [Users -> [status : AccountStatus, totp : BOOLEAN, secret : Nat]]
    BY DEF TypeInv, SessionsTypeOK
  <1>2. CASE UNCHANGED <<req, raced, proved>>
             /\ \A u \in Users : users'[u].totp = users[u].totp /\ users'[u].secret = users[u].secret
    BY <1>2 DEF TotpOK, ChangesTotp, TotpHandler
  <1>3. CASE Tick \/ UNCHANGED vars  BY <1>2, <1>3 DEF Tick, vars, tables, history
  <1>4. ASSUME NEW u \in Users, FreezeUser(u) PROVE TotpOK'
    BY <1>1, <1>2, <1>4 DEF FreezeUser, history
  <1>5. ASSUME NEW r \in Requests, NEW op, NEW pc, NEW u, NEW ip, NEW tok, NEW fam,
               Begin(r, op, pc, u, ip, tok, fam), op \notin TotpOps, UNCHANGED <<users, proved>>,
               raced \subseteq raced'
        PROVE  TotpOK'
    <2> DEFINE h == [pc |-> pc, op |-> op, user |-> u, ip |-> ip, at |-> now,
          seen |-> "none", totp |-> FALSE, tok |-> tok, fam |-> fam, secret |-> 0,
          late |-> users[u].status = "frozen"]
    <2>1. req' = [req EXCEPT ![r] = h] /\ h.op = op  BY <1>5 DEF Begin
    <2> HIDE DEF h
    <2> QED BY <1>5, <2>1, TotpElsewhere
  <1>6. ASSUME NEW r \in Requests, Arrive(r) PROVE TotpOK'
    <2>1. ASSUME NEW u \in Users, NEW ip \in Ips, LoginBegin(r, u, ip) \/ SignupBegin(r, u, ip)
          PROVE  TotpOK'
      <3>1. UNCHANGED <<users, proved, raced>>
        BY <2>1 DEF LoginBegin, SignupBegin, tables, history
      <3>2. "login" \notin TotpOps /\ "signup" \notin TotpOps  BY DEF TotpOps
      <3> QED BY <1>2, <1>5, <2>1, <3>1, <3>2 DEF LoginBegin, SignupBegin
    <2>2. ASSUME NEW t \in DOMAIN tokens, NEW ip \in Ips, RefreshFind(r, t, ip) PROVE TotpOK'
      <3>1. UNCHANGED <<users, proved>> /\ raced \subseteq raced'
        BY <2>2 DEF RefreshFind, tables
      <3>2. "refresh" \notin TotpOps  BY DEF TotpOps
      <3> QED BY <1>5, <2>2, <3>1, <3>2 DEF RefreshFind
    <2> QED BY <1>6, <2>1, <2>2, TotpBegins DEF Arrive
  <1>7. ASSUME NEW r \in Requests, Step(r) PROVE TotpOK'
    <2>1. CASE StoreTotpSecret(r) \/ LoadTotp(r) \/ CheckCode(r) \/ EnableTotp(r)
               \/ DisableTotpRow(r)
      BY <2>1, TotpSteps
    <2>2. CASE DbFails(r)
      BY <2>2, TotpElsewhere DEF DbFails, End, tables, history
    <2>3. CASE LoginFindUser(r) \/ LoginFails(r) \/ LoginSucceeds(r) \/ CreateUser(r) \/ Mint(r)
               \/ RefreshReuse(r) \/ RefreshExpired(r) \/ RefreshLoadUser(r) \/ RefreshRotate(r)
      <3>1. PICK h \in Busy \cup {Idle} :
              req' = [req EXCEPT ![r] = h] /\ (h # Idle => SameHandler(h, req[r]))
        BY <1>7, StepMoves
      <3>2. req[r] \in Busy /\ HandlerOK(req[r], tokens)  BY <1>7, StepMoves
      <3>3. req[r].pc \in {"find_user", "verify_password", "create_user", "mint", "reuse",
                           "expired", "load_user", "rotate"}
        BY <2>3 DEF LoginFindUser, LoginFails, LoginSucceeds, CreateUser, Mint, RefreshReuse,
                    RefreshExpired, RefreshLoadUser, RefreshRotate, At
      <3>4. req[r].op \notin TotpOps  BY <3>2, <3>3 DEF HandlerOK, PcOf, Busy, TotpOps
      <3>5. UNCHANGED <<proved, raced>>
        BY <2>3 DEF LoginFindUser, LoginFails, LoginSucceeds, CreateUser, Mint, RefreshReuse,
                    RefreshExpired, RefreshLoadUser, RefreshRotate, history
      <3>6. \A u \in Users : users'[u].totp = users[u].totp /\ users'[u].secret = users[u].secret
        <4>1. CASE CreateUser(r)  BY <1>1, <4>1 DEF CreateUser
        <4> QED BY <2>3, <4>1 DEF LoginFindUser, LoginFails, LoginSucceeds, Mint, RefreshReuse,
                    RefreshExpired, RefreshLoadUser, RefreshRotate, tables
      <3> QED BY <3>1, <3>4, <3>5, <3>6, TotpElsewhere DEF SameHandler
    <2> QED BY <1>7, <2>1, <2>2, <2>3 DEF Step
  <1> QED BY <1>3, <1>4, <1>6, <1>7 DEF Next

-----------------------------------------------------------------------------
(* Rotation. *)

(* Where a refresh is that found a working token. *)
Trading == {"expired", "load_user", "rotate", "mint"}

(* LiveTokens of a table of tokens, and RefreshesFamily of a handler. *)
Live(ts, f) == {t \in DOMAIN ts : ts[t].family = f /\ ~ts[t].revoked}
Refreshing(h, f) == h # Idle /\ h.op = "refresh" /\ h.fam = f

(* At most one token of family f works, and none once it was killed. *)
OneToken(ts, ks, f) ==
  /\ \A s, t \in Live(ts, f) : s = t
  /\ f \in ks => Live(ts, f) = {}

(* A refresh that found a working token holds the only one. *)
HoldsToken(h, ts, ks, f) ==
  h.pc \in Trading => /\ f \notin ks /\ Live(ts, f) \subseteq {h.tok}
                      /\ h.pc = "mint" => Live(ts, f) = {}

OneRefresh(rq, f) ==
  \A q, r \in Requests : Refreshing(rq[q], f) /\ Refreshing(rq[r], f) => q = r

FamilyOK(f, ts, ks, rq) ==
  /\ OneRefresh(rq, f)
  /\ OneToken(ts, ks, f)
  /\ \A r \in Requests : Refreshing(rq[r], f) => HoldsToken(rq[r], ts, ks, f)

RotationOK == \A f \in Nat : f \notin raced => FamilyOK(f, tokens, killed, req)

LEMMA FamilyOfRefresh ==
  ASSUME TypeInv, NEW r \in Requests, req[r] # Idle, req[r].op = "refresh"
  PROVE  req[r].fam \in Nat /\ req[r].tok \in DOMAIN tokens
         /\ req[r].fam = tokens[req[r].tok].family
  BY BusyIsNotIdle DEF TypeInv, SessionsTypeOK, HandlersOK, HandlerOK, Busy

(* What family f rests on has not changed. *)
LEMMA FamilyUnmoved ==
  ASSUME NEW f, NEW ts, NEW us, NEW ks, NEW ls, NEW rq, NEW sq,
         FamilyOK(f, ts, ks, rq), Live(us, f) = Live(ts, f), f \in ls <=> f \in ks,
         \A q \in Requests : Refreshing(sq[q], f) => sq[q] = rq[q]
  PROVE  FamilyOK(f, us, ls, sq)
  <1>1. \A q \in Requests : Refreshing(sq[q], f) => Refreshing(rq[q], f)
    BY DEF Refreshing
  <1>2. OneRefresh(sq, f)  BY <1>1 DEF FamilyOK, OneRefresh
  <1>3. OneToken(us, ls, f)  BY DEF FamilyOK, OneToken
  <1>4. \A q \in Requests : Refreshing(sq[q], f) => HoldsToken(sq[q], us, ls, f)
    BY <1>1 DEF FamilyOK, HoldsToken
  <1> QED BY <1>2, <1>3, <1>4 DEF FamilyOK

LEMMA RotationElsewhere ==
  ASSUME TypeInv, RotationOK, NEW r \in Requests, NEW h, h # Idle => h.op # "refresh",
         req' = [req EXCEPT ![r] = h], UNCHANGED <<tokens, killed>>, raced \subseteq raced'
  PROVE  RotationOK'
  <1>1. \A f : \A q \in Requests : Refreshing(req'[q], f) => req'[q] = req[q]
    BY HandlerMoves DEF Refreshing
  <1> SUFFICES ASSUME NEW f \in Nat, f \notin raced' PROVE FamilyOK(f, tokens', killed', req')
    BY DEF RotationOK
  <1>2. FamilyOK(f, tokens, killed, req)  BY DEF RotationOK
  <1>3. Live(tokens', f) = Live(tokens, f) /\ (f \in killed' <=> f \in killed)  OBVIOUS
  <1> QED BY <1>1, <1>2, <1>3, FamilyUnmoved

(* A refresh of family f takes a step: what holds of f afterwards has to   *)
(* be shown, the other families are not concerned.                         *)
LEMMA RotationMoves ==
  ASSUME TypeInv, RotationOK, NEW r \in Requests, req[r] # Idle, req[r].op = "refresh",
         NEW h, h # Idle => SameHandler(h, req[r]), req' = [req EXCEPT ![r] = h], UNCHANGED raced,
         \A g \in Nat : g # req[r].fam =>
           Live(tokens', g) = Live(tokens, g) /\ (g \in killed' <=> g \in killed),
         req[r].fam \notin raced =>
           /\ OneToken(tokens', killed', req[r].fam)
           /\ h # Idle => HoldsToken(h, tokens', killed', req[r].fam)
  PROVE  RotationOK'
  <1> DEFINE f0 == req[r].fam
  <1> SUFFICES ASSUME NEW f \in Nat, f \notin raced' PROVE FamilyOK(f, tokens', killed', req')
    BY DEF RotationOK
  <1>0. FamilyOK(f, tokens, killed, req)  BY DEF RotationOK
  <1>1. \A q \in Requests : Refreshing(req'[q], f) => Refreshing(req[q], f)
    BY HandlerMoves DEF Refreshing, SameHandler
  <1>2. OneRefresh(req', f)
    BY <1>0, <1>1 DEF FamilyOK, OneRefresh
  <1>3. CASE f = f0
    <2>1. Refreshing(req[r], f)  BY <1>3 DEF Refreshing
    <2>2. \A q \in Requests : Refreshing(req'[q], f) => q = r
      BY <1>0, <1>1, <2>1 DEF FamilyOK, OneRefresh
    <2>3. Refreshing(req'[r], f) => req'[r] = h /\ h # Idle  BY HandlerMoves DEF Refreshing
    <2> QED BY <1>2, <1>3, <2>2, <2>3 DEF FamilyOK
  <1>4. CASE f # f0
    <2>1. \A q \in Requests : Refreshing(req'[q], f) => req'[q] = req[q]
      BY <1>1, <1>4, HandlerMoves DEF Refreshing, SameHandler
    <2>2. Live(tokens', f) = Live(tokens, f) /\ (f \in killed' <=> f \in killed)  BY <1>4
    <2> QED BY ONLY <1>0, <2>1, <2>2, FamilyUnmoved
  <1> QED BY <1>3, <1>4

LEMMA RotationBegins ==
  ASSUME TypeInv, RotationOK, NEW r \in Requests, NEW t \in DOMAIN tokens, NEW ip \in Ips,
         RefreshFind(r, t, ip)
  PROVE  RotationOK'
  <1> DEFINE f0 == tokens[t].family
             pc == IF tokens[t].revoked THEN "reuse"
                   ELSE IF tokens[t].expires <= now THEN "expired" ELSE "load_user"
             h  == [pc |-> pc, op |-> "refresh", user |-> tokens[t].user, ip |-> ip, at |-> now,
                    seen |-> "none", totp |-> FALSE, tok |-> t, fam |-> f0, secret |-> 0,
                    late |-> users[tokens[t].user].status = "frozen"]
  <1>1. UNCHANGED <<tokens, killed>> /\ raced \subseteq raced'
    BY DEF RefreshFind, tables
  <1>2. req' = [req EXCEPT ![r] = h]  BY DEF RefreshFind, Begin
  <1>3. h.fam = f0 /\ h.tok = t /\ h.pc = pc  OBVIOUS
  <1>4. pc \in Trading => ~tokens[t].revoked /\ pc # "mint"  BY DEF Trading
  <1>5. f0 \notin raced' => \A q \in Requests : ~Refreshing(req[q], f0)
    BY DEF RefreshFind, RefreshesFamily, Refreshing
  <1>7. pc \in Trading => t \in Live(tokens, f0)  BY <1>4 DEF Live
  <1> HIDE DEF h, pc
  <1>8. req'[r] = h /\ \A q \in Requests : q # r => req'[q] = req[q]  BY <1>2, HandlerMoves
  <1> SUFFICES ASSUME NEW f \in Nat, f \notin raced' PROVE FamilyOK(f, tokens', killed', req')
    BY DEF RotationOK
  <1>9. FamilyOK(f, tokens, killed, req)  BY <1>1 DEF RotationOK
  <1>10. CASE f = f0
    <2>1. \A q \in Requests : Refreshing(req'[q], f) => q = r
      BY <1>5, <1>8, <1>10
    <2>2. OneToken(tokens', killed', f)  BY <1>1, <1>9 DEF FamilyOK
    <2>3. HoldsToken(h, tokens', killed', f)
      BY <1>1, <1>3, <1>4, <1>7, <1>10, <2>2 DEF HoldsToken, OneToken
    <2> QED BY <1>8, <2>1, <2>2, <2>3 DEF FamilyOK, OneRefresh
  <1>11. CASE f # f0
    <2>1. \A q \in Requests : Refreshing(req'[q], f) => req'[q] = req[q]
      BY <1>3, <1>8, <1>11 DEF Refreshing
    <2>2. Live(tokens', f) = Live(tokens, f) /\ (f \in killed' <=> f \in killed)  BY <1>1
    <2> QED BY <1>9, <2>1, <2>2, FamilyUnmoved
  <1> QED BY <1>10, <1>11

LEMMA RotationReuse ==
  ASSUME TypeInv, RotationOK, NEW r \in Requests, RefreshReuse(r)
  PROVE  RotationOK'
  <1>1. req[r] \in Busy /\ req[r] # Idle /\ HandlerOK(req[r], tokens) /\ req[r].pc = "reuse"
    BY BusyHere DEF RefreshReuse, At
  <1>2. req[r].op = "refresh"  BY <1>1 DEF HandlerOK, PcOf, Busy
  <1>3. tokens \in Seq(Token)  BY DEF TypeInv, SessionsTypeOK
  <1> DEFINE f0 == req[r].fam
  <1>4. /\ SomeRevoked(tokens, tokens')
        /\ \A t \in DOMAIN tokens : tokens[t].family = f0 => tokens'[t].revoked
        /\ \A t \in DOMAIN tokens : tokens[t].family # f0 => tokens'[t] = tokens[t]
    BY <1>3, RevokeFamily DEF RefreshReuse
  <1>5. DOMAIN tokens' = DOMAIN tokens  BY <1>3, <1>4 DEF SomeRevoked
  <1>6. Live(tokens', f0) = {}  BY <1>4, <1>5 DEF Live, SomeRevoked
  <1>7. \A g \in Nat : g # f0 => Live(tokens', g) = Live(tokens, g)
    <2> SUFFICES ASSUME NEW g \in Nat, g # f0 PROVE Live(tokens', g) = Live(tokens, g)  OBVIOUS
    <2>1. \A t \in DOMAIN tokens : tokens'[t].family = g <=> tokens[t].family = g
      BY <1>4 DEF SomeRevoked
    <2>2. \A t \in DOMAIN tokens : tokens[t].family = g => tokens'[t] = tokens[t]  BY <1>4
    <2> QED BY <1>5, <2>1, <2>2 DEF Live
  <1>8. OneToken(tokens', killed', f0)  BY <1>6 DEF OneToken
  <1>9. req' = [req EXCEPT ![r] = Idle] /\ killed' = killed \cup {f0} /\ UNCHANGED raced
    BY DEF RefreshReuse, End
  <1>10. \A g \in Nat : g # f0 => (g \in killed' <=> g \in killed)  BY <1>9
  <1> HIDE DEF f0
  <1> QED BY <1>1, <1>2, <1>7, <1>8, <1>9, <1>10, RotationMoves DEF f0

LEMMA RotationTradesIn ==
  ASSUME TypeInv, RotationOK, NEW r \in Requests, RefreshExpired(r) \/ RefreshRotate(r)
  PROVE  RotationOK'
  <1>1. req[r] \in Busy /\ req[r] # Idle /\ HandlerOK(req[r], tokens)
        /\ req[r].pc \in {"expired", "rotate"}
    BY BusyHere DEF RefreshExpired, RefreshRotate, At
  <1>2. req[r].op = "refresh"  BY <1>1 DEF HandlerOK, PcOf, Busy
  <1>3. tokens \in Seq(Token)  BY DEF TypeInv, SessionsTypeOK
  <1> DEFINE f0 == req[r].fam
             t0 == req[r].tok
  <1>4. f0 \in Nat /\ t0 \in DOMAIN tokens /\ f0 = tokens[t0].family
    BY <1>1, <1>2, FamilyOfRefresh
  <1>5. UNCHANGED <<killed, raced>>  BY DEF RefreshExpired, RefreshRotate, history
  <1>6. /\ SomeRevoked(tokens, tokens') /\ tokens'[t0].revoked
        /\ \A t \in DOMAIN tokens : t # t0 => tokens'[t] = tokens[t]
    BY <1>3, <1>4, RevokeOne DEF RefreshExpired, RefreshRotate
  <1>7. DOMAIN tokens' = DOMAIN tokens  BY <1>3, <1>6 DEF SomeRevoked
  <1>8. \A t \in Live(tokens', f0) : t \in Live(tokens, f0) /\ t # t0
    BY <1>4, <1>6, <1>7 DEF Live, SomeRevoked
  <1>9. \A g \in Nat : g # f0 => Live(tokens', g) = Live(tokens, g)
    <2> SUFFICES ASSUME NEW g \in Nat, g # f0 PROVE Live(tokens', g) = Live(tokens, g)  OBVIOUS
    <2>1. \A t \in DOMAIN tokens : tokens'[t].family = g <=> tokens[t].family = g
      BY <1>6 DEF SomeRevoked
    <2>2. \A t \in DOMAIN tokens : tokens[t].family = g => tokens'[t] = tokens[t]  BY <1>4, <1>6
    <2> QED BY <1>7, <2>1, <2>2 DEF Live
  <1>10. ASSUME f0 \notin raced PROVE Live(tokens', f0) = {} /\ f0 \notin killed'
    <2>0. Refreshing(req[r], f0)  BY <1>1, <1>2 DEF Refreshing
    <2>1. HoldsToken(req[r], tokens, killed, f0)
      BY <1>4, <1>10, <2>0 DEF RotationOK, FamilyOK
    <2> QED BY <1>1, <1>5, <1>8, <2>1 DEF HoldsToken, Trading
  <1>11. PICK h \in Busy \cup {Idle} :
           req' = [req EXCEPT ![r] = h] /\ (h # Idle => SameHandler(h, req[r]))
    BY StepMoves DEF Step
  <1>12. f0 \notin raced => OneToken(tokens', killed', f0) /\ HoldsToken(h, tokens', killed', f0)
    BY <1>10 DEF OneToken, HoldsToken
  <1>13. \A g \in Nat : g # f0 => (g \in killed' <=> g \in killed)  BY <1>5
  <1> HIDE DEF f0
  <1> QED BY <1>1, <1>2, <1>5, <1>9, <1>11, <1>12, <1>13, RotationMoves DEF f0

(* A new session begins a family; a refresh hands on the family whose      *)
(* token it has traded in.                                                 *)
LEMMA RotationMints ==
  ASSUME TypeInv, RotationOK, NEW r \in Requests, Mint(r)
  PROVE  RotationOK'
  <1> DEFINE n == Len(tokens) + 1
             f0 == req[r].fam
  <1>1. req[r] \in Busy /\ req[r] # Idle /\ HandlerOK(req[r], tokens) /\ req[r].pc = "mint"
    BY BusyHere DEF Mint, At
  <1>2. tokens \in Seq(Token) /\ n \in Nat /\ n \notin DOMAIN tokens
    BY DEF TypeInv, SessionsTypeOK
  <1>3. /\ tokens' \in Seq(Token) /\ Len(tokens') = n
        /\ \A t \in DOMAIN tokens : tokens'[t] = tokens[t]
        /\ tokens'[n].family = IF f0 = 0 THEN n ELSE f0
        /\ ~tokens'[n].revoked
    BY MintOne
  <1>4. DOMAIN tokens' = DOMAIN tokens \cup {n}  BY <1>2, <1>3
  <1>5. req' = [req EXCEPT ![r] = Idle] /\ UNCHANGED <<killed, raced>>
    BY DEF Mint, End, history
  <1> DEFINE f1 == IF f0 = 0 THEN n ELSE f0
  <1>6. \A g : g # f1 => Live(tokens', g) = Live(tokens, g)
    BY <1>2, <1>3, <1>4 DEF Live
  <1>7. Live(tokens', f1) = Live(tokens, f1) \cup {n}
    BY <1>2, <1>3, <1>4 DEF Live
  <1>8. CASE req[r].op = "refresh"
    <2>1. f0 \in Nat /\ f0 # 0
      <3>1. req[r].tok \in DOMAIN tokens /\ f0 = tokens[req[r].tok].family
        BY <1>1, <1>8, FamilyOfRefresh
      <3>2. tokens[req[r].tok] \in Token  BY <1>2, <3>1
      <3> QED BY <3>1, <3>2 DEF Token
    <2>2. ASSUME f0 \notin raced PROVE OneToken(tokens', killed', f0)
      <3>0. Refreshing(req[r], f0)  BY <1>1, <1>8 DEF Refreshing
      <3>1. HoldsToken(req[r], tokens, killed, f0)
        BY <2>1, <2>2, <3>0 DEF RotationOK, FamilyOK
      <3> QED BY <1>1, <1>5, <1>7, <2>1, <3>1 DEF HoldsToken, Trading, OneToken
    <2>3. \A g \in Nat : g # f0 => Live(tokens', g) = Live(tokens, g)
                                   /\ (g \in killed' <=> g \in killed)
      BY <1>5, <1>6, <2>1
    <2> HIDE DEF f0
    <2> QED BY <1>1, <1>5, <1>8, <2>2, <2>3, RotationMoves DEF f0
  <1>9. CASE req[r].op # "refresh"
    <2>1. f0 = 0 /\ f1 = n  BY <1>1, <1>9 DEF HandlerOK
    <2>2. \A q \in Requests : \A f : Refreshing(req'[q], f) => req'[q] = req[q]
      BY <1>5, HandlerMoves DEF Refreshing
    <2> SUFFICES ASSUME NEW f \in Nat, f \notin raced' PROVE FamilyOK(f, tokens', killed', req')
      BY DEF RotationOK
    <2>3. FamilyOK(f, tokens, killed, req)  BY <1>5 DEF RotationOK
    <2>4. CASE f # n
      <3>1. Live(tokens', f) = Live(tokens, f) /\ (f \in killed' <=> f \in killed)
        BY <1>5, <1>6, <2>1, <2>4
      <3>2. \A q \in Requests : Refreshing(req'[q], f) => req'[q] = req[q]  BY <2>2
      <3> QED BY <2>3, <3>1, <3>2, FamilyUnmoved
    <2>5. CASE f = n
      <3>1. n \notin killed'  BY <1>2, <1>5 DEF TypeInv, FamiliesOK
      <3>2. Live(tokens, n) = {}  BY <1>2 DEF Live, TypeInv, FamiliesOK
      <3>3. OneToken(tokens', killed', n)  BY <1>7, <2>1, <3>1, <3>2 DEF OneToken
      <3>4. \A q \in Requests : ~Refreshing(req[q], n)
        BY <1>2, FamilyOfRefresh DEF Refreshing, TypeInv, FamiliesOK
      <3>5. \A q \in Requests : ~Refreshing(req'[q], n)  BY <2>2, <3>4
      <3> QED BY <2>5, <3>3, <3>5 DEF FamilyOK, OneRefresh
    <2> QED BY <2>4, <2>5
  <1> QED BY <1>8, <1>9

LEMMA RotationSteps ==
  ASSUME TypeInv, RotationOK, NEW r \in Requests, Step(r)
  PROVE  RotationOK'
  <1>1. PICK h \in Busy \cup {Idle} :
          req' = [req EXCEPT ![r] = h] /\ (h # Idle => SameHandler(h, req[r]))
    BY StepMoves
  <1>2. req[r] \in Busy /\ req[r] # Idle /\ HandlerOK(req[r], tokens)
    BY StepMoves, BusyIsNotIdle
  <1>3. CASE RefreshReuse(r) \/ RefreshExpired(r) \/ RefreshRotate(r) \/ Mint(r)
    BY <1>3, RotationReuse, RotationTradesIn, RotationMints
  <1>4. CASE RefreshLoadUser(r) \/ DbFails(r)
    <2>1. UNCHANGED <<tokens, killed, raced>>
      BY <1>4 DEF RefreshLoadUser, DbFails, tables, history
    <2>2. CASE req[r].op # "refresh"
      BY <1>1, <2>1, <2>2, RotationElsewhere DEF SameHandler
    <2>3. CASE req[r].op = "refresh"
      <3> DEFINE f0 == req[r].fam
      <3>1. f0 \in Nat  BY <1>2, <2>3, FamilyOfRefresh
      <3>2. h # Idle => h.pc = "rotate" /\ h.tok = req[r].tok /\ req[r].pc = "load_user"
        <4>1. CASE DbFails(r)
          <5>1. req'[r] = h /\ req'[r] = Idle  BY <1>1, <4>1, HandlerMoves DEF DbFails, End
          <5> QED BY <5>1
        <4>2. CASE RefreshLoadUser(r)
          <5>1. req'[r] = h  BY <1>1, HandlerMoves
          <5>2. req[r].pc = "load_user"  BY <4>2 DEF RefreshLoadUser, At
          <5>3. req \in [Requests -> Busy \cup {Idle}]  BY DEF TypeInv, SessionsTypeOK
          <5>4. h = Idle \/ h = [req[r] EXCEPT !.pc = "rotate"]
            BY <4>2, <5>1, <5>3 DEF RefreshLoadUser, End, Goto
          <5> QED BY <1>2, <5>2, <5>4 DEF Busy
        <4> QED BY <1>4, <4>1, <4>2
      <3>3. ASSUME f0 \notin raced
            PROVE  OneToken(tokens', killed', f0) /\ (h # Idle => HoldsToken(h, tokens', killed', f0))
        <4>1. Refreshing(req[r], f0)  BY <1>2, <2>3 DEF Refreshing
        <4>2. FamilyOK(f0, tokens, killed, req)  BY <3>1, <3>3 DEF RotationOK
        <4> QED BY <2>1, <3>2, <4>1, <4>2 DEF FamilyOK, HoldsToken, Trading
      <3>4. \A g \in Nat : g # f0 => Live(tokens', g) = Live(tokens, g)
                                     /\ (g \in killed' <=> g \in killed)
        BY <2>1
      <3> HIDE DEF f0
      <3> QED BY <1>1, <1>2, <2>1, <2>3, <3>3, <3>4, RotationMoves DEF f0
    <2> QED BY <2>2, <2>3
  <1>5. CASE LoginFindUser(r) \/ LoginFails(r) \/ LoginSucceeds(r) \/ CreateUser(r)
             \/ StoreTotpSecret(r) \/ LoadTotp(r) \/ CheckCode(r) \/ EnableTotp(r)
             \/ DisableTotpRow(r)
    <2>1. UNCHANGED <<tokens, killed, raced>>
      BY <1>5 DEF LoginFindUser, LoginFails, LoginSucceeds, CreateUser, StoreTotpSecret, LoadTotp,
                  CheckCode, EnableTotp, DisableTotpRow, tables, history
    <2>2. req[r].pc \in {"find_user", "verify_password", "create_user", "store_secret",
                         "load_secret", "check_code", "enable", "disable"}
      BY <1>5 DEF LoginFindUser, LoginFails, LoginSucceeds, CreateUser, StoreTotpSecret, LoadTotp,
                  CheckCode, EnableTotp, DisableTotpRow, At
    <2>3. req[r].op # "refresh"  BY <1>2, <2>2 DEF HandlerOK, PcOf
    <2> QED BY <1>1, <2>1, <2>3, RotationElsewhere DEF SameHandler
  <1> QED BY <1>3, <1>4, <1>5 DEF Step

LEMMA RotationNext == TypeInv /\ RotationOK /\ [Next]_vars => RotationOK'
  <1> SUFFICES ASSUME TypeInv, RotationOK, [Next]_vars PROVE RotationOK'  OBVIOUS
  <1>1. CASE UNCHANGED <<tokens, killed, req>> /\ raced \subseteq raced'
    BY <1>1 DEF RotationOK
  <1>2. CASE Tick \/ UNCHANGED vars  BY <1>1, <1>2 DEF Tick, vars, tables, history
  <1>3. ASSUME NEW u \in Users, FreezeUser(u) PROVE RotationOK'
    BY <1>1, <1>3 DEF FreezeUser, history
  <1>4. ASSUME NEW r \in Requests, NEW op, NEW pc, NEW u, NEW ip,
               Begin(r, op, pc, u, ip, 0, 0), op # "refresh", UNCHANGED <<tokens, killed>>,
               raced \subseteq raced'
        PROVE  RotationOK'
    <2> DEFINE h == [pc |-> pc, op |-> op, user |-> u, ip |-> ip, at |-> now,
          seen |-> "none", totp |-> FALSE, tok |-> 0, fam |-> 0, secret |-> 0,
          late |-> users[u].status = "frozen"]
    <2>1. req' = [req EXCEPT ![r] = h] /\ h.op = op  BY <1>4 DEF Begin
    <2> HIDE DEF h
    <2> QED BY <1>4, <2>1, RotationElsewhere
  <1>5. ASSUME NEW r \in Requests, Arrive(r) PROVE RotationOK'
    <2>1. ASSUME NEW u \in Users, NEW ip \in Ips, LoginBegin(r, u, ip) \/ SignupBegin(r, u, ip)
          PROVE  RotationOK'
      <3>1. UNCHANGED <<tokens, killed, raced>>
        BY <2>1 DEF LoginBegin, SignupBegin, tables, history
      <3> QED BY <1>1, <1>4, <2>1, <3>1 DEF LoginBegin, SignupBegin
    <2>2. ASSUME NEW u \in Users, NEW ip \in Ips, NEW op, NEW pc, NEW allowed, op # "refresh",
                 TotpBegin(r, op, pc, u, ip, allowed)
          PROVE  RotationOK'
      <3>1. UNCHANGED <<tokens, killed>> /\ raced \subseteq raced'
        BY <2>2 DEF TotpBegin, tables
      <3> QED BY <1>1, <1>4, <2>2, <3>1 DEF TotpBegin
    <2>3. ASSUME NEW u \in Users, NEW ip \in Ips,
                 SetupTotp(r, u, ip) \/ VerifyTotp(r, u, ip) \/ DisableTotp(r, u, ip)
          PROVE  RotationOK'
      BY <2>2, <2>3 DEF SetupTotp, VerifyTotp, DisableTotp
    <2> QED BY <1>5, <2>1, <2>3, RotationBegins DEF Arrive
  <1> QED BY <1>2, <1>3, <1>5, RotationSteps DEF Next

-----------------------------------------------------------------------------
(* The attempt limits. *)

(* The handlers that passed the limit and have not counted their attempt. *)
LoginPcs == {"find_user", "verify_password"}
ForEmail(rq, u) == {r \in Requests : rq[r].pc \in LoginPcs /\ rq[r].user = u}
ForIp(rq, i) == {r \in Requests : rq[r].pc \in LoginPcs /\ rq[r].ip = i}

Limit == MaxLoginFailures + Cardinality(Requests) - 1

(* A handler that passed the limit has its failure counted in advance. *)
CountsOK(be, bi, rq) ==
  /\ \A u \in Users : be[u].count + Cardinality(ForEmail(rq, u)) <= Limit
  /\ \A i \in Ips : bi[i].count + Cardinality(ForIp(rq, i)) <= Limit

LockoutOK == CountsOK(byEmail, byIp, req)

LEMMA Sizes ==
  /\ Cardinality(Requests) \in Nat /\ MaxLoginFailures \in Nat /\ MaxLoginFailures >= 1
  /\ \A S \in SUBSET Requests : Cardinality(S) \in Nat /\ Cardinality(S) <= Cardinality(Requests)
  /\ \A S, T \in SUBSET Requests : S \subseteq T => Cardinality(S) <= Cardinality(T)
  /\ \A S \in SUBSET Requests : \A r \in S : Cardinality(S \ {r}) = Cardinality(S) - 1
  <1>1. IsFiniteSet(Requests) /\ MaxLoginFailures \in Nat \ {0}  BY SessionsAssumption
  <1>2. \A S \in SUBSET Requests : IsFiniteSet(S)  BY <1>1, FS_Subset
  <1>3. \A S \in SUBSET Requests : Cardinality(S) \in Nat  BY <1>2, FS_CardinalityType
  <1>4. \A S, T \in SUBSET Requests : S \subseteq T => Cardinality(S) <= Cardinality(T)
    BY <1>2, FS_Subset
  <1>5. \A S \in SUBSET Requests : \A r \in S : Cardinality(S \ {r}) = Cardinality(S) - 1
    BY <1>2, FS_RemoveElement
  <1> QED BY <1>1, <1>3, <1>4, <1>5

LEMMA InRequests ==
  \A rq : /\ \A u : ForEmail(rq, u) \in SUBSET Requests
          /\ \A i : ForIp(rq, i) \in SUBSET Requests
  BY DEF ForEmail, ForIp

(* Counters are not raised and no handler passes the limit. *)
LEMMA CountsKept ==
  ASSUME NEW be \in [Users -> Entry], NEW bi \in [Ips -> Entry], NEW rq,
         NEW ce \in [Users -> Entry], NEW ci \in [Ips -> Entry], NEW sq,
         NEW U, NEW I, CountsOK(be, bi, rq),
         \A u \in U : ce[u].count <= be[u].count,
         \A i \in I : ci[i].count <= bi[i].count,
         \A u \in U : ForEmail(sq, u) \subseteq ForEmail(rq, u),
         \A i \in I : ForIp(sq, i) \subseteq ForIp(rq, i)
  PROVE  /\ \A u \in U \cap Users : ce[u].count + Cardinality(ForEmail(sq, u)) <= Limit
         /\ \A i \in I \cap Ips : ci[i].count + Cardinality(ForIp(sq, i)) <= Limit
  <1>0. Limit \in Int  BY Sizes DEF Limit
  <1>1. ASSUME NEW u \in U \cap Users
        PROVE  ce[u].count + Cardinality(ForEmail(sq, u)) <= Limit
    <2>1. ce[u].count \in Nat /\ be[u].count \in Nat /\ ce[u].count <= be[u].count
      BY DEF Entry
    <2>2. /\ Cardinality(ForEmail(sq, u)) \in Nat /\ Cardinality(ForEmail(rq, u)) \in Nat
          /\ Cardinality(ForEmail(sq, u)) <= Cardinality(ForEmail(rq, u))
      BY Sizes, InRequests
    <2>3. be[u].count + Cardinality(ForEmail(rq, u)) <= Limit  BY DEF CountsOK
    <2> QED BY <1>0, <2>1, <2>2, <2>3
  <1>2. ASSUME NEW i \in I \cap Ips
        PROVE  ci[i].count + Cardinality(ForIp(sq, i)) <= Limit
    <2>1. ci[i].count \in Nat /\ bi[i].count \in Nat /\ ci[i].count <= bi[i].count
      BY DEF Entry
    <2>2. /\ Cardinality(ForIp(sq, i)) \in Nat /\ Cardinality(ForIp(rq, i)) \in Nat
          /\ Cardinality(ForIp(sq, i)) <= Cardinality(ForIp(rq, i))
      BY Sizes, InRequests
    <2>3. bi[i].count + Cardinality(ForIp(rq, i)) <= Limit  BY DEF CountsOK
    <2> QED BY <1>0, <2>1, <2>2, <2>3
  <1> QED BY <1>1, <1>2

(* A count below the limit leaves room for every handler. *)
LEMMA RoomBelow ==
  ASSUME NEW n \in Nat, n < MaxLoginFailures
  PROVE  \A S \in SUBSET Requests : n + Cardinality(S) <= Limit
  BY Sizes DEF Limit

LEMMA LockoutElsewhere ==
  ASSUME TypeInv, TypeInv', LockoutOK, UNCHANGED attempts,
         NEW r \in Requests, NEW h, req' = [req EXCEPT ![r] = h],
         h.pc \in LoginPcs => req[r].pc \in LoginPcs /\ h.user = req[r].user /\ h.ip = req[r].ip
  PROVE  LockoutOK'
  <1>1. req'[r] = h /\ \A q \in Requests : q # r => req'[q] = req[q]  BY HandlerMoves
  <1>2. \A u \in Users : ForEmail(req', u) \subseteq ForEmail(req, u)
    BY <1>1 DEF ForEmail
  <1>3. \A i \in Ips : ForIp(req', i) \subseteq ForIp(req, i)
    BY <1>1 DEF ForIp
  <1>4. byEmail \in [Users -> Entry] /\ byIp \in [Ips -> Entry]  BY DEF TypeInv, SessionsTypeOK
  <1>5. \A u \in Users : byEmail[u].count \in Nat  BY <1>4 DEF Entry
  <1>6. \A i \in Ips : byIp[i].count \in Nat  BY <1>4 DEF Entry
  <1>7. byEmail' = byEmail /\ byIp' = byIp  BY DEF attempts
  <1>8. /\ \A u \in Users : byEmail[u].count + Cardinality(ForEmail(req', u)) <= Limit
        /\ \A i \in Ips : byIp[i].count + Cardinality(ForIp(req', i)) <= Limit
    <2>1. \A u \in Users : byEmail[u].count <= byEmail[u].count  BY <1>5
    <2>2. \A i \in Ips : byIp[i].count <= byIp[i].count  BY <1>6
    <2>3. CountsOK(byEmail, byIp, req)  BY DEF LockoutOK
    <2>4. /\ \A u \in Users \cap Users : byEmail[u].count + Cardinality(ForEmail(req', u)) <= Limit
          /\ \A i \in Ips \cap Ips : byIp[i].count + Cardinality(ForIp(req', i)) <= Limit
      BY ONLY <1>2, <1>3, <1>4, <2>1, <2>2, <2>3, CountsKept
    <2> QED BY <2>4
  <1> QED BY <1>7, <1>8 DEF LockoutOK, CountsOK

LEMMA LockoutBegins ==
  ASSUME TypeInv, TypeInv', LockoutOK, NEW r \in Requests, NEW u \in Users, NEW ip \in Ips,
         LoginBegin(r, u, ip)
  PROVE  LockoutOK'
  <1>1. byEmail \in [Users -> Entry] /\ byIp \in [Ips -> Entry]
        /\ byEmail' \in [Users -> Entry] /\ byIp' \in [Ips -> Entry]
    BY DEF TypeInv, SessionsTypeOK
  <1>2. /\ \A v \in Users : byEmail'[v].count <= byEmail[v].count
        /\ \A i \in Ips : byIp'[i].count <= byIp[i].count
    <2>1. byEmail' = Prune(byEmail) /\ byIp' = Prune(byIp)  BY DEF LoginBegin
    <2>2. \A v \in Users : byEmail'[v] = byEmail[v] \/ byEmail'[v] = NoEntry
      BY <1>1, <2>1 DEF Prune
    <2>3. \A i \in Ips : byIp'[i] = byIp[i] \/ byIp'[i] = NoEntry
      BY <1>1, <2>1 DEF Prune
    <2>4. \A v \in Users : byEmail[v].count \in Nat  BY <1>1 DEF Entry
    <2>5. \A i \in Ips : byIp[i].count \in Nat  BY <1>1 DEF Entry
    <2> QED BY <2>2, <2>3, <2>4, <2>5 DEF NoEntry
  <1>3. CountsOK(byEmail, byIp, req)  BY DEF LockoutOK
  <1>4. CASE UNCHANGED req
    <2>1. /\ \A v \in Users : ForEmail(req', v) \subseteq ForEmail(req, v)
          /\ \A i \in Ips : ForIp(req', i) \subseteq ForIp(req, i)
      BY <1>4
    <2>2. /\ \A v \in Users \cap Users : byEmail'[v].count + Cardinality(ForEmail(req', v)) <= Limit
          /\ \A i \in Ips \cap Ips : byIp'[i].count + Cardinality(ForIp(req', i)) <= Limit
      BY ONLY <1>1, <1>2, <1>3, <2>1, CountsKept
    <2> QED BY <2>2 DEF LockoutOK, CountsOK
  <1>5. CASE /\ ~IsLocked(byEmail'[u]) /\ ~IsLocked(byIp'[ip])
             /\ Begin(r, "login", "find_user", u, ip, 0, 0)
    <2>1. req'[r].user = u /\ req'[r].ip = ip /\ \A q \in Requests : q # r => req'[q] = req[q]
      BY <1>5 DEF Begin, TypeInv, SessionsTypeOK
    <2>2. \A v \in Users \ {u} : ForEmail(req', v) \subseteq ForEmail(req, v)
      BY <2>1 DEF ForEmail
    <2>3. \A i \in Ips \ {ip} : ForIp(req', i) \subseteq ForIp(req, i)
      BY <2>1 DEF ForIp
    <2>4. /\ \A v \in Users \ {u} : byEmail'[v].count <= byEmail[v].count
          /\ \A i \in Ips \ {ip} : byIp'[i].count <= byIp[i].count
      BY <1>2
    <2>5. /\ \A v \in (Users \ {u}) \cap Users :
               byEmail'[v].count + Cardinality(ForEmail(req', v)) <= Limit
          /\ \A i \in (Ips \ {ip}) \cap Ips : byIp'[i].count + Cardinality(ForIp(req', i)) <= Limit
      BY ONLY <1>1, <1>3, <2>2, <2>3, <2>4, CountsKept, ZenonT(60)
    <2>6. byEmail'[u].count \in Nat /\ byIp'[ip].count \in Nat  BY <1>1 DEF Entry
    <2>7. byEmail'[u].count < MaxLoginFailures /\ byIp'[ip].count < MaxLoginFailures
      BY <1>5, <2>6, Sizes DEF IsLocked
    <2>8. /\ byEmail'[u].count + Cardinality(ForEmail(req', u)) <= Limit
          /\ byIp'[ip].count + Cardinality(ForIp(req', ip)) <= Limit
      BY <2>6, <2>7, RoomBelow, InRequests
    <2> QED BY <2>5, <2>8 DEF LockoutOK, CountsOK
  <1> QED BY <1>4, <1>5 DEF LoginBegin

LEMMA LockoutFails ==
  ASSUME TypeInv, TypeInv', LockoutOK, NEW r \in Requests, LoginFails(r)
  PROVE  LockoutOK'
  <1>1. byEmail \in [Users -> Entry] /\ byIp \in [Ips -> Entry]
        /\ byEmail' \in [Users -> Entry] /\ byIp' \in [Ips -> Entry]
    BY DEF TypeInv, SessionsTypeOK
  <1>2. req[r] \in Busy /\ req[r].pc = "verify_password"  BY BusyHere DEF LoginFails, At
  <1>3. PICK u \in Users, ip \in Ips : u = req[r].user /\ ip = req[r].ip  BY <1>2 DEF Busy
  <1>4. req'[r] = Idle /\ \A q \in Requests : q # r => req'[q] = req[q]
    BY DEF LoginFails, End, TypeInv, SessionsTypeOK
  <1>5. CountsOK(byEmail, byIp, req)  BY DEF LockoutOK
  <1>6. /\ \A v \in Users \ {u} : ForEmail(req', v) \subseteq ForEmail(req, v)
        /\ \A i \in Ips \ {ip} : ForIp(req', i) \subseteq ForIp(req, i)
    BY <1>3, <1>4 DEF ForEmail, ForIp, Idle, LoginPcs
  <1>7. /\ \A v \in Users \ {u} : byEmail'[v] = byEmail[v]
        /\ \A i \in Ips \ {ip} : byIp'[i] = byIp[i]
    BY <1>1, <1>3 DEF LoginFails
  <1>8. /\ \A v \in Users \ {u} : byEmail'[v].count <= byEmail[v].count
        /\ \A i \in Ips \ {ip} : byIp'[i].count <= byIp[i].count
    <2>1. \A v \in Users : byEmail[v].count \in Nat  BY <1>1 DEF Entry
    <2>2. \A i \in Ips : byIp[i].count \in Nat  BY <1>1 DEF Entry
    <2> QED BY <1>7, <2>1, <2>2
  <1>9. /\ \A v \in (Users \ {u}) \cap Users :
             byEmail'[v].count + Cardinality(ForEmail(req', v)) <= Limit
        /\ \A i \in (Ips \ {ip}) \cap Ips : byIp'[i].count + Cardinality(ForIp(req', i)) <= Limit
    <2>1. \A v \in Users \ {u} : ForEmail(req', v) \subseteq ForEmail(req, v)  BY <1>6
    <2>2. \A i \in Ips \ {ip} : ForIp(req', i) \subseteq ForIp(req, i)  BY <1>6
    <2> QED BY ONLY <1>1, <1>5, <1>8, <2>1, <2>2, CountsKept, ZenonT(60)
  <1>10. \A e \in Entry : \A at : Record(e, at).count = e.count + 1  BY DEF Record, Entry
  <1>11. byEmail'[u].count = byEmail[u].count + 1 /\ byIp'[ip].count = byIp[ip].count + 1
    BY <1>1, <1>3, <1>10 DEF LoginFails
  <1>12. ForEmail(req', u) = ForEmail(req, u) \ {r} /\ r \in ForEmail(req, u)
    BY <1>2, <1>3, <1>4 DEF ForEmail, Idle, LoginPcs
  <1>13. ForIp(req', ip) = ForIp(req, ip) \ {r} /\ r \in ForIp(req, ip)
    BY <1>2, <1>3, <1>4 DEF ForIp, Idle, LoginPcs
  <1>14. byEmail[u].count \in Nat /\ byIp[ip].count \in Nat  BY <1>1, <1>3 DEF Entry
  <1>15. /\ byEmail[u].count + Cardinality(ForEmail(req, u)) <= Limit
         /\ byIp[ip].count + Cardinality(ForIp(req, ip)) <= Limit
    BY <1>3, <1>5 DEF CountsOK
  <1>16. /\ Cardinality(ForEmail(req', u)) = Cardinality(ForEmail(req, u)) - 1
         /\ Cardinality(ForIp(req', ip)) = Cardinality(ForIp(req, ip)) - 1
         /\ Cardinality(ForEmail(req, u)) \in Nat /\ Cardinality(ForIp(req, ip)) \in Nat
    BY <1>12, <1>13, Sizes, InRequests
  <1>17. /\ byEmail'[u].count + Cardinality(ForEmail(req', u)) <= Limit
         /\ byIp'[ip].count + Cardinality(ForIp(req', ip)) <= Limit
    BY <1>11, <1>14, <1>15, <1>16
  <1> QED BY <1>9, <1>17 DEF LockoutOK, CountsOK

LEMMA LockoutClears ==
  ASSUME TypeInv, TypeInv', LockoutOK, NEW r \in Requests, LoginSucceeds(r)
  PROVE  LockoutOK'
  <1>1. byEmail \in [Users -> Entry] /\ byIp \in [Ips -> Entry]
        /\ byEmail' \in [Users -> Entry] /\ byIp' \in [Ips -> Entry]
        /\ req \in [Requests -> Busy \cup {Idle}]
    BY DEF TypeInv, SessionsTypeOK
  <1>2. req[r] \in Busy  BY BusyHere DEF LoginSucceeds, At
  <1>3. req'[r].pc \notin LoginPcs /\ \A q \in Requests : q # r => req'[q] = req[q]
    <2>1. CASE End(r)  BY <1>1, <2>1 DEF End, Idle, LoginPcs
    <2>2. CASE Goto(r, "mint")  BY <1>1, <1>2, <2>2 DEF Goto, LoginPcs, Busy
    <2> QED BY <2>1, <2>2 DEF LoginSucceeds
  <1>4. CountsOK(byEmail, byIp, req)  BY DEF LockoutOK
  <1>5. /\ \A v \in Users : ForEmail(req', v) \subseteq ForEmail(req, v)
        /\ \A i \in Ips : ForIp(req', i) \subseteq ForIp(req, i)
    BY <1>3 DEF ForEmail, ForIp
  <1>6. /\ \A v \in Users : byEmail'[v] = byEmail[v] \/ byEmail'[v] = NoEntry
        /\ \A i \in Ips : byIp'[i] = byIp[i] \/ byIp'[i] = NoEntry
    BY <1>1 DEF LoginSucceeds
  <1>7. /\ \A v \in Users : byEmail'[v].count <= byEmail[v].count
        /\ \A i \in Ips : byIp'[i].count <= byIp[i].count
    <2>1. \A v \in Users : byEmail[v].count \in Nat  BY <1>1 DEF Entry
    <2>2. \A i \in Ips : byIp[i].count \in Nat  BY <1>1 DEF Entry
    <2> QED BY <1>6, <2>1, <2>2 DEF NoEntry
  <1>8. /\ \A v \in Users \cap Users : byEmail'[v].count + Cardinality(ForEmail(req', v)) <= Limit
        /\ \A i \in Ips \cap Ips : byIp'[i].count + Cardinality(ForIp(req', i)) <= Limit
    <2>1. byEmail \in [Users -> Entry] /\ byIp \in [Ips -> Entry]  BY <1>1
    <2>2. byEmail' \in [Users -> Entry] /\ byIp' \in [Ips -> Entry]  BY <1>1
    <2>3. \A v \in Users : ForEmail(req', v) \subseteq ForEmail(req, v)  BY <1>5
    <2>4. \A i \in Ips : ForIp(req', i) \subseteq ForIp(req, i)  BY <1>5
    <2> QED BY ONLY <1>4, <1>7, <2>1, <2>2, <2>3, <2>4, CountsKept, ZenonT(60)
  <1> QED BY <1>8 DEF LockoutOK, CountsOK

LEMMA LockoutNext == TypeInv /\ LockoutOK /\ [Next]_vars => LockoutOK'
  <1> SUFFICES ASSUME TypeInv, LockoutOK, [Next]_vars PROVE LockoutOK'  OBVIOUS
  <1>0. TypeInv'  BY NextType
  <1>1. CASE UNCHANGED <<attempts, req>>  BY <1>1 DEF LockoutOK, attempts
  <1>2. CASE Tick \/ UNCHANGED vars  BY <1>1, <1>2 DEF Tick, vars, attempts
  <1>3. ASSUME NEW u \in Users, FreezeUser(u) PROVE LockoutOK'
    BY <1>1, <1>3 DEF FreezeUser
  <1>4. ASSUME NEW r \in Requests, NEW op, NEW pc, NEW u, NEW ip, NEW tok, NEW fam,
               Begin(r, op, pc, u, ip, tok, fam), pc \notin LoginPcs, UNCHANGED attempts
        PROVE  LockoutOK'
    <2> DEFINE h == [pc |-> pc, op |-> op, user |-> u, ip |-> ip, at |-> now,
          seen |-> "none", totp |-> FALSE, tok |-> tok, fam |-> fam, secret |-> 0,
          late |-> users[u].status = "frozen"]
    <2>1. req' = [req EXCEPT ![r] = h] /\ h.pc = pc  BY <1>4 DEF Begin
    <2> HIDE DEF h
    <2> QED BY <1>0, <1>4, <2>1, LockoutElsewhere
  <1>5. ASSUME NEW r \in Requests, Arrive(r) PROVE LockoutOK'
    <2>1. ASSUME NEW u \in Users, NEW ip \in Ips, SignupBegin(r, u, ip) PROVE LockoutOK'
      <3>1. "create_user" \notin LoginPcs  BY DEF LoginPcs
      <3> QED BY <1>4, <2>1, <3>1 DEF SignupBegin
    <2>2. ASSUME NEW u \in Users, NEW ip \in Ips, NEW op, NEW pc, NEW allowed, pc \notin LoginPcs,
                 TotpBegin(r, op, pc, u, ip, allowed)
          PROVE  LockoutOK'
      BY <1>1, <1>4, <2>2 DEF TotpBegin
    <2>3. ASSUME NEW u \in Users, NEW ip \in Ips,
                 SetupTotp(r, u, ip) \/ VerifyTotp(r, u, ip) \/ DisableTotp(r, u, ip)
          PROVE  LockoutOK'
      <3>1. "store_secret" \notin LoginPcs /\ "load_secret" \notin LoginPcs  BY DEF LoginPcs
      <3> QED BY <2>2, <2>3, <3>1 DEF SetupTotp, VerifyTotp, DisableTotp
    <2>4. ASSUME NEW t \in DOMAIN tokens, NEW ip \in Ips, RefreshFind(r, t, ip) PROVE LockoutOK'
      <3>1. (IF tokens[t].revoked THEN "reuse"
             ELSE IF tokens[t].expires <= now THEN "expired" ELSE "load_user") \notin LoginPcs
        BY DEF LoginPcs
      <3> QED BY <1>4, <2>4, <3>1 DEF RefreshFind
    <2> QED BY <1>0, <1>5, <2>1, <2>3, <2>4, LockoutBegins DEF Arrive
  <1>6. ASSUME NEW r \in Requests, Step(r) PROVE LockoutOK'
    <2>1. CASE LoginFails(r) \/ LoginSucceeds(r)
      BY <1>0, <2>1, LockoutFails, LockoutClears
    <2>2. PICK h \in Busy \cup {Idle} :
            req' = [req EXCEPT ![r] = h] /\ (h # Idle => SameHandler(h, req[r]))
      BY <1>6, StepMoves
    <2>3. req[r] \in Busy /\ req'[r] = h  BY <1>6, <2>2, StepMoves, HandlerMoves
    <2>4. req \in [Requests -> Busy \cup {Idle}]  BY DEF TypeInv, SessionsTypeOK
    <2>5. CASE LoginFindUser(r)
      <3>1. req[r].pc \in LoginPcs /\ UNCHANGED attempts /\ h.pc = "verify_password"
        BY <2>3, <2>4, <2>5 DEF LoginFindUser, At, LoginPcs, Busy
      <3>2. h # Idle  BY <3>1 DEF Idle
      <3> QED BY <1>0, <2>2, <3>1, <3>2, LockoutElsewhere DEF SameHandler
    <2>6. CASE CreateUser(r) \/ Mint(r) \/ RefreshReuse(r) \/ RefreshExpired(r)
               \/ RefreshLoadUser(r) \/ RefreshRotate(r) \/ StoreTotpSecret(r) \/ LoadTotp(r)
               \/ CheckCode(r) \/ EnableTotp(r) \/ DisableTotpRow(r) \/ DbFails(r)
      <3>1. UNCHANGED attempts
        BY <2>6 DEF CreateUser, Mint, RefreshReuse, RefreshExpired, RefreshLoadUser, RefreshRotate,
             StoreTotpSecret, LoadTotp, CheckCode, EnableTotp, DisableTotpRow, DbFails, attempts
      <3>2. h.pc \notin LoginPcs
        <4>1. CASE End(r)  BY <2>3, <2>4, <4>1 DEF End, Idle, LoginPcs
        <4>2. CASE Goto(r, "mint") \/ Goto(r, "rotate") \/ Goto(r, "enable") \/ Goto(r, "disable")
          BY <2>3, <2>4, <4>2 DEF Goto, LoginPcs, Busy
        <4>3. CASE LoadTotp(r)  BY <2>3, <2>4, <4>1, <4>3 DEF LoadTotp, LoginPcs, Busy
        <4> QED BY <2>6, <4>1, <4>2, <4>3 DEF CreateUser, Mint, RefreshReuse, RefreshExpired,
             RefreshLoadUser, RefreshRotate, StoreTotpSecret, CheckCode, EnableTotp,
             DisableTotpRow, DbFails
      <3> QED BY <1>0, <2>2, <3>1, <3>2, LockoutElsewhere
    <2> QED BY <1>6, <2>1, <2>5, <2>6 DEF Step
  <1> QED BY <1>2, <1>3, <1>5, <1>6 DEF Next

-----------------------------------------------------------------------------
(* The theorems. *)

SessionsSound == TypeInv /\ LateOK /\ TotpOK /\ RotationOK /\ LockoutOK

LEMMA InitSound == Init => SessionsSound
  <1> SUFFICES ASSUME Init PROVE SessionsSound  OBVIOUS
  <1>1. TypeInv  BY InitType
  <1>2. \A r \in Requests : req[r] = Idle  BY DEF Init
  <1>3. DOMAIN tokens = {} /\ killed = {}  BY DEF Init
  <1>4. LateOK  BY <1>2 DEF LateOK
  <1>5. TotpOK  BY <1>2 DEF TotpOK, ChangesTotp, Init
  <1>6. RotationOK
    <2>1. \A f : Live(tokens, f) = {}  BY <1>3 DEF Live
    <2> QED BY <1>2, <1>3, <2>1 DEF RotationOK, FamilyOK, OneRefresh, OneToken, Refreshing
  <1>7. LockoutOK
    <2>1. \A r \in Requests : req[r].pc \notin LoginPcs  BY <1>2 DEF Idle, LoginPcs
    <2>2. \A u : ForEmail(req, u) = {}  BY <2>1 DEF ForEmail
    <2>3. \A i : ForIp(req, i) = {}  BY <2>1 DEF ForIp
    <2>4. \A u \in Users : byEmail[u].count = 0  BY DEF Init, NoEntry
    <2>5. \A i \in Ips : byIp[i].count = 0  BY DEF Init, NoEntry
    <2>6. 0 + Cardinality({}) <= Limit  BY FS_EmptySet, Sizes DEF Limit
    <2> QED BY <2>2, <2>3, <2>4, <2>5, <2>6 DEF LockoutOK, CountsOK
  <1> QED BY <1>1, <1>4, <1>5, <1>6, <1>7 DEF SessionsSound

LEMMA SoundAlways == Spec => []SessionsSound
  <1>1. SessionsSound /\ [Next]_vars => SessionsSound'
    BY NextType, LateNext, TotpNext, RotationNext, LockoutNext DEF SessionsSound
  <1> QED BY <1>1, InitSound, PTL DEF Spec

(* Whatever handlers interleave and wherever they fail, the tables and the *)
(* handlers stay well formed, a handler that arrived after the freeze of   *)
(* its user never reaches mint_and_store_pair, and an enabled second       *)
(* factor has the secret whose code verify_totp accepted, unless two of    *)
(* the user's enrolment handlers have overlapped (raced): then the one may *)
(* enable a secret that the other has put in place of the proved one.      *)
THEOREM SessionsSafe == Spec => []SessionsInv
  <1>1. SessionsSound => SessionsInv
    <2> SUFFICES ASSUME SessionsSound PROVE SessionsInv  OBVIOUS
    <2>1. FrozenNeverMints
      BY DEF SessionsSound, LateOK, LateHandler, FrozenNeverMints, At, Idle
    <2>2. EnabledSecretIsProved  BY DEF SessionsSound, TotpOK, EnabledSecretIsProved
    <2> QED BY <2>1, <2>2 DEF SessionsSound, TypeInv, SessionsInv
  <1> QED BY <1>1, SoundAlways, PTL

(* Refresh rotation: a family whose refreshes never overlapped has at most *)
(* one working token, and none after refresh saw a revoked one again.      *)
THEOREM RotationSafe == Spec => []RotationKeepsOneToken
  <1>1. SessionsSound => RotationKeepsOneToken
    <2> SUFFICES ASSUME SessionsSound, NEW f \in Families \ raced
                 PROVE  Cardinality(LiveTokens(f)) <= 1 /\ (f \in killed => LiveTokens(f) = {})
      BY DEF RotationKeepsOneToken
    <2>1. f \in Nat
      <3>1. tokens \in Seq(Token)  BY DEF SessionsSound, TypeInv, SessionsTypeOK
      <3>2. \A t \in DOMAIN tokens : tokens[t] \in Token  BY <3>1
      <3> QED BY <3>2 DEF Families, Token
    <2>2. Live(tokens, f) = LiveTokens(f)  BY DEF Live, LiveTokens
    <2>3. OneToken(tokens, killed, f)  BY <2>1 DEF SessionsSound, RotationOK, FamilyOK
    <2>4. CASE LiveTokens(f) = {}  BY <2>4, FS_EmptySet
    <2>5. CASE LiveTokens(f) # {}
      <3>1. PICK t : t \in LiveTokens(f)  BY <2>5
      <3>2. LiveTokens(f) = {t}  BY <2>2, <2>3, <3>1 DEF OneToken
      <3>3. Cardinality({t}) = 1  BY FS_Singleton
      <3> QED BY <2>2, <2>3, <3>2, <3>3 DEF OneToken
    <2> QED BY <2>4, <2>5
  <1> QED BY <1>1, SoundAlways, PTL

(* ensure_login_allowed and record_login_failure are two steps: failures   *)
(* counted for one email or address exceed MAX_LOGIN_FAILURES by less than *)
(* the number of handlers that can be in flight.                           *)
THEOREM LockoutSafe == Spec => []LockoutOvershoot
  <1>1. SessionsSound => LockoutOvershoot
    <2> SUFFICES ASSUME SessionsSound PROVE LockoutOvershoot  OBVIOUS
    <2>1. Limit \in Int  BY Sizes DEF Limit
    <2>2. ASSUME NEW u \in Users PROVE byEmail[u].count <= Limit
      <3>1. byEmail[u].count \in Nat  BY DEF SessionsSound, TypeInv, SessionsTypeOK, Entry
      <3>2. Cardinality(ForEmail(req, u)) \in Nat  BY Sizes, InRequests
      <3>3. byEmail[u].count + Cardinality(ForEmail(req, u)) <= Limit
        BY DEF SessionsSound, LockoutOK, CountsOK
      <3> QED BY <2>1, <3>1, <3>2, <3>3
    <2>3. ASSUME NEW i \in Ips PROVE byIp[i].count <= Limit
      <3>1. byIp[i].count \in Nat  BY DEF SessionsSound, TypeInv, SessionsTypeOK, Entry
      <3>2. Cardinality(ForIp(req, i)) \in Nat  BY Sizes, InRequests
      <3>3. byIp[i].count + Cardinality(ForIp(req, i)) <= Limit
        BY DEF SessionsSound, LockoutOK, CountsOK
      <3> QED BY <2>1, <3>1, <3>2, <3>3
    <2> QED BY <2>2, <2>3 DEF LockoutOvershoot, Limit
  <1> QED BY <1>1, SoundAlways, PTL
=============================================================================
