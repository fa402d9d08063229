------------------------------ MODULE Sessions ------------------------------
(***************************************************************************)
(* Accounts and sessions of the API: signup, login with its attempt        *)
(* limits, rotation of refresh tokens with reuse detection, enrolment of   *)
(* the second factor, and the freezing of a user by an administrator.      *)
(*                                                                         *)
(* A handler is a task: it gives way at every await on the database or on  *)
(* the mutex around the attempt counters, so each handler is split there   *)
(* and any number of them interleave.  Passwords, codes and secrets are    *)
(* abstracted to whether they are right, and a secret to a number.         *)
(***************************************************************************)
EXTENDS Naturals, Sequences, FiniteSets

CONSTANTS
  Users,              \* accounts, one normalised email each
  Ips,                \* client_ip_key
  Requests,           \* handlers that may be in flight together
  MaxLoginFailures,   \* MAX_LOGIN_FAILURES
  LoginWindow,        \* LOGIN_WINDOW_SECONDS, in ticks
  RefreshTtl,         \* refresh_token_ttl, in ticks
  Workloads,          \* sets of operations: the clients of a behaviour keep to one
  MaxTime, MaxTokens, MaxSecrets   \* bounds of the exploration

ASSUME SessionsAssumption ==
  /\ MaxLoginFailures \in Nat \ {0}
  /\ {LoginWindow, RefreshTtl, MaxTime, MaxTokens, MaxSecrets} \subseteq Nat
  /\ IsFiniteSet(Requests)
  /\ Workloads \subseteq SUBSET {"signup", "login", "refresh", "setup", "verify", "disable"}

VARIABLES
  users,      \* the users table: status, totp_enabled, totp_secret (0: NULL)
  tokens,     \* the refresh_tokens table, in order of insertion
  byEmail, byIp,  \* LoginAttempts: failures in the window (count 0: no entry)
  now,
  req,        \* the handlers in flight
  workload,   \* the operations the clients of this behaviour call
  \* What happened, for the properties only:
  killed,     \* families revoked because a token was used twice
  raced,      \* families and users whose handlers were in flight together
  proved,     \* the secret whose code was accepted when the factor was enabled
  secrets     \* secrets generated so far

vars == <<users, tokens, byEmail, byIp, now, req, workload, killed, raced, proved, secrets>>
tables == <<users, tokens>>
attempts == <<byEmail, byIp>>
history == <<workload, killed, raced, proved, secrets>>

NoEntry == [count |-> 0, since |-> 0]
Idle == [pc |-> "idle"]

AccountStatus == {"none", "active", "frozen"}

(* A task keeps what it has read: the user row, the token row, the clock. *)
Busy ==
  [pc : {"find_user", "verify_password", "create_user", "mint",
         "reuse", "expired", "load_user", "rotate",
         "store_secret", "load_secret", "check_code", "enable", "disable"},
   op : {"signup", "login", "refresh", "setup", "verify", "disable"},
   user : Users, ip : Ips, at : Nat, seen : AccountStatus, totp : BOOLEAN,
   tok : Nat, fam : Nat, secret : Nat, late : BOOLEAN]

Begin(r, op, pc, u, ip, tok, fam) ==
  /\ req[r] = Idle /\ op \in workload
  /\ req' = [req EXCEPT ![r] =
       [pc |-> pc, op |-> op, user |-> u, ip |-> ip, at |-> now,
        seen |-> "none", totp |-> FALSE, tok |-> tok, fam |-> fam, secret |-> 0,
        late |-> users[u].status = "frozen"]]

Goto(r, pc) == req' = [req EXCEPT ![r].pc = pc]
End(r) == req' = [req EXCEPT ![r] = Idle]
At(r, pc) == req[r].pc = pc

(* Handlers of the same session family or of the same user's second factor. *)
TotpOps == {"setup", "verify", "disable"}
RefreshesFamily(r, f) == req[r] # Idle /\ req[r].op = "refresh" /\ req[r].fam = f
ChangesTotp(r, u) == req[r] # Idle /\ req[r].op \in TotpOps /\ req[r].user = u

-----------------------------------------------------------------------------
Init ==
  /\ users = [u \in Users |-> [status |-> "none", totp |-> FALSE, secret |-> 0]]
  /\ tokens = <<>>
  /\ byEmail = [u \in Users |-> NoEntry] /\ byIp = [i \in Ips |-> NoEntry]
  /\ now = 0 /\ req = [r \in Requests |-> Idle] /\ workload \in Workloads
  /\ killed = {} /\ raced = {} /\ proved = [u \in Users |-> 0] /\ secrets = 0

Tick ==
  /\ now < MaxTime /\ now' = now + 1
  /\ UNCHANGED <<tables, attempts, req, history>>

-----------------------------------------------------------------------------
(* Attempt counters. *)
Prune(windows) ==
  [k \in DOMAIN windows |->
     IF now - windows[k].since <= LoginWindow THEN windows[k] ELSE NoEntry]

(* Mutant of IsLocked: off by one. *)
IsLockedLate(entry) == entry.count > MaxLoginFailures

IsLocked(entry) == entry.count >= MaxLoginFailures

Record(entry, at) ==
  IF entry.count = 0 THEN [count |-> 1, since |-> at] ELSE [entry EXCEPT !.count = @ + 1]

(* ensure_login_allowed prunes both maps, then refuses a locked email or address. *)
LoginBegin(r, u, ip) ==
  /\ byEmail' = Prune(byEmail) /\ byIp' = Prune(byIp)
  /\ \/ /\ IsLocked(byEmail'[u]) \/ IsLocked(byIp'[ip])
        /\ req[r] = Idle /\ "login" \in workload /\ UNCHANGED req
     \/ /\ ~IsLocked(byEmail'[u]) /\ ~IsLocked(byIp'[ip])
        /\ Begin(r, "login", "find_user", u, ip, 0, 0)
  /\ UNCHANGED <<tables, now, history>>

LoginFindUser(r) ==
  /\ At(r, "find_user")
  /\ LET row == users[req[r].user] IN
     req' = [req EXCEPT ![r].pc = "verify_password",
                        ![r].seen = row.status, ![r].totp = row.totp]
  /\ UNCHANGED <<tables, attempts, now, history>>

(* No such user, a user that is not active, or a wrong password. *)
LoginFails(r) ==
  /\ At(r, "verify_password")
  /\ byEmail' = [byEmail EXCEPT ![req[r].user] = Record(@, req[r].at)]
  /\ byIp' = [byIp EXCEPT ![req[r].ip] = Record(@, req[r].at)]
  /\ End(r)
  /\ UNCHANGED <<tables, now, history>>

(* The right password of an active user clears both counters; with a second *)
(* factor the answer is a challenge token, and no session begins.           *)
LoginSucceeds(r) ==
  /\ At(r, "verify_password") /\ req[r].seen = "active"
  /\ byEmail' = [byEmail EXCEPT ![req[r].user] = NoEntry]
  /\ byIp' = [byIp EXCEPT ![req[r].ip] = NoEntry]
  /\ \/ req[r].totp /\ End(r)
     \/ ~req[r].totp /\ Goto(r, "mint")
  /\ UNCHANGED <<tables, now, history>>

SignupBegin(r, u, ip) ==
  /\ Begin(r, "signup", "create_user", u, ip, 0, 0)
  /\ UNCHANGED <<tables, attempts, now, history>>

CreateUser(r) ==
  /\ At(r, "create_user")
  /\ \/ /\ users[req[r].user].status = "none"
        /\ users' = [users EXCEPT ![req[r].user].status = "active"]
        /\ Goto(r, "mint")
     \/ /\ users[req[r].user].status # "none"      \* EmailTaken
        /\ End(r) /\ UNCHANGED users
  /\ UNCHANGED <<tokens, attempts, now, history>>

-----------------------------------------------------------------------------
(* Mutant of Mint: a new session is given no family. *)
MintNoFamily(r) ==
  /\ At(r, "mint") /\ Len(tokens) < MaxTokens
  /\ tokens' = Append(tokens,
       [user |-> req[r].user, revoked |-> FALSE, expires |-> now + RefreshTtl,
        family |-> req[r].fam])
  /\ End(r)
  /\ UNCHANGED <<users, attempts, now, history>>

(* mint_and_store_pair_with_family: the family is new (named after its first *)
(* token) unless a refresh hands its own on.                                 *)
Mint(r) ==
  /\ At(r, "mint") /\ Len(tokens) < MaxTokens
  /\ tokens' = Append(tokens,
       [user |-> req[r].user, revoked |-> FALSE, expires |-> now + RefreshTtl,
        family |-> IF req[r].fam = 0 THEN Len(tokens) + 1 ELSE req[r].fam])
  /\ End(r)
  /\ UNCHANGED <<users, attempts, now, history>>

(* The row the handler found decides what it does, whatever becomes of it. *)
RefreshFind(r, t, ip) ==
  LET row == tokens[t] IN
  /\ Begin(r, "refresh",
           IF row.revoked THEN "reuse"
           ELSE IF row.expires <= now THEN "expired" ELSE "load_user",
           row.user, ip, t, row.family)
  /\ raced' = raced \cup {row.family : s \in {q \in Requests : RefreshesFamily(q, row.family)}}
  /\ UNCHANGED <<tables, attempts, now, workload, killed, proved, secrets>>

RevokeRefreshToken(t) == tokens' = [tokens EXCEPT ![t].revoked = TRUE]

RevokeRefreshFamily(f) ==
  tokens' = [t \in DOMAIN tokens |->
               IF tokens[t].family = f THEN [tokens[t] EXCEPT !.revoked = TRUE] ELSE tokens[t]]

RefreshReuse(r) ==
  /\ At(r, "reuse")
  /\ RevokeRefreshFamily(req[r].fam)
  /\ killed' = killed \cup {req[r].fam}
  /\ End(r)
  /\ UNCHANGED <<users, attempts, now, workload, raced, proved, secrets>>

RefreshExpired(r) ==
  /\ At(r, "expired")
  /\ RevokeRefreshToken(req[r].tok)
  /\ End(r)
  /\ UNCHANGED <<users, attempts, now, history>>

(* Mutant of RefreshLoadUser: the status of the user is not looked at. *)
RefreshLoadAnyUser(r) ==
  /\ At(r, "load_user")
  /\ Goto(r, "rotate")
  /\ UNCHANGED <<tables, attempts, now, history>>

RefreshLoadUser(r) ==
  /\ At(r, "load_user")
  /\ \/ users[req[r].user].status = "active" /\ Goto(r, "rotate")
     \/ users[req[r].user].status # "active" /\ End(r)
  /\ UNCHANGED <<tables, attempts, now, history>>

(* Mutant of RefreshRotate: the token that was traded in stays valid. *)
RefreshRotateKeep(r) ==
  /\ At(r, "rotate")
  /\ Goto(r, "mint")
  /\ UNCHANGED <<tables, attempts, now, history>>

RefreshRotate(r) ==
  /\ At(r, "rotate")
  /\ RevokeRefreshToken(req[r].tok)
  /\ Goto(r, "mint")
  /\ UNCHANGED <<users, attempts, now, history>>

-----------------------------------------------------------------------------
(* Second factor.  The caller holds an access token: the account exists. *)
TotpBegin(r, op, pc, u, ip, allowed) ==
  /\ users[u].status # "none"
  /\ \/ allowed /\ Begin(r, op, pc, u, ip, 0, 0)
     \/ ~allowed /\ req[r] = Idle /\ op \in workload /\ UNCHANGED req
  /\ raced' = raced \cup {u : q \in {s \in Requests : ChangesTotp(s, u)}}
  /\ UNCHANGED <<tables, attempts, now, workload, killed, proved, secrets>>

(* Mutant of SetupTotp: an enabled factor may be set up again. *)
SetupTotpAgain(r, u, ip) == TotpBegin(r, "setup", "store_secret", u, ip, TRUE)

SetupTotp(r, u, ip) == TotpBegin(r, "setup", "store_secret", u, ip, ~users[u].totp)
VerifyTotp(r, u, ip) == TotpBegin(r, "verify", "load_secret", u, ip, ~users[u].totp)
(* With the right password only. *)
DisableTotp(r, u, ip) == TotpBegin(r, "disable", "load_secret", u, ip, users[u].totp)

StoreTotpSecret(r) ==
  /\ At(r, "store_secret") /\ secrets < MaxSecrets
  /\ secrets' = secrets + 1
  /\ users' = [users EXCEPT ![req[r].user].secret = secrets']
  /\ End(r)
  /\ UNCHANGED <<tokens, attempts, now, workload, killed, raced, proved>>

LoadTotp(r) ==
  /\ At(r, "load_secret")
  /\ LET s == users[req[r].user].secret IN
     \/ s = 0 /\ End(r)
     \/ s # 0 /\ req' = [req EXCEPT ![r].pc = "check_code", ![r].secret = s]
  /\ UNCHANGED <<tables, attempts, now, history>>

CheckCode(r) ==
  /\ At(r, "check_code")
  /\ \/ Goto(r, IF req[r].op = "verify" THEN "enable" ELSE "disable")
     \/ End(r)                                     \* MfaInvalid
  /\ UNCHANGED <<tables, attempts, now, history>>

EnableTotp(r) ==
  /\ At(r, "enable")
  /\ users' = [users EXCEPT ![req[r].user].totp = TRUE]
  /\ proved' = [proved EXCEPT ![req[r].user] = req[r].secret]
  /\ End(r)
  /\ UNCHANGED <<tokens, attempts, now, workload, killed, raced, secrets>>

DisableTotpRow(r) ==
  /\ At(r, "disable")
  /\ users' = [users EXCEPT ![req[r].user].totp = FALSE, ![req[r].user].secret = 0]
  /\ End(r)
  /\ UNCHANGED <<tokens, attempts, now, history>>

-----------------------------------------------------------------------------
(* The first statement of the admin handler; nothing undoes a freeze. *)
FreezeUser(u) ==
  /\ users[u].status = "active"
  /\ users' = [users EXCEPT ![u].status = "frozen"]
  /\ UNCHANGED <<tokens, attempts, now, req, history>>

(* Any statement of a handler may fail: the handler answers 500 and leaves *)
(* what it did before.                                                     *)
DbFails(r) ==
  /\ req[r] # Idle /\ End(r)
  /\ UNCHANGED <<tables, attempts, now, history>>

Step(r) ==
  \/ LoginFindUser(r) \/ LoginFails(r) \/ LoginSucceeds(r) \/ CreateUser(r)
  \/ Mint(r) \/ RefreshReuse(r) \/ RefreshExpired(r) \/ RefreshLoadUser(r) \/ RefreshRotate(r)
  \/ StoreTotpSecret(r) \/ LoadTotp(r) \/ CheckCode(r) \/ EnableTotp(r) \/ DisableTotpRow(r)
  \/ DbFails(r)

Arrive(r) ==
  \E ip \in Ips :
    \/ \E u \in Users :
         \/ LoginBegin(r, u, ip) \/ SignupBegin(r, u, ip)
         \/ SetupTotp(r, u, ip) \/ VerifyTotp(r, u, ip) \/ DisableTotp(r, u, ip)
    \/ \E t \in DOMAIN tokens : RefreshFind(r, t, ip)

Next ==
  \/ Tick
  \/ \E u \in Users : FreezeUser(u)
  \/ \E r \in Requests : Arrive(r) \/ Step(r)

Spec == Init /\ [][Next]_vars

-----------------------------------------------------------------------------
Token == [user : Users, revoked : BOOLEAN, expires : Nat, family : Nat \ {0}]
Entry == [count : Nat, since : Nat]

(* The tables, the counters and what every handler in flight carries have *)
(* the shape the code gives them.                                         *)
SessionsTypeOK ==
  /\ users \in [Users -> [status : AccountStatus, totp : BOOLEAN, secret : Nat]]
  /\ tokens \in Seq(Token)
  /\ byEmail \in [Users -> Entry] /\ byIp \in [Ips -> Entry]
  /\ now \in Nat
  /\ req \in [Requests -> Busy \cup {Idle}]
  /\ killed \subseteq Nat /\ secrets \in Nat /\ proved \in [Users -> Nat]

LiveTokens(f) == {t \in DOMAIN tokens : tokens[t].family = f /\ ~tokens[t].revoked}
Families == {tokens[t].family : t \in DOMAIN tokens}

(* Rotation: as long as no two refreshes of a session family were in flight *)
(* together, the family has at most one token that still works, and none    *)
(* once a token was presented a second time (the whole family is revoked).  *)
RotationKeepsOneToken ==
  \A f \in Families \ raced :
    /\ Cardinality(LiveTokens(f)) <= 1
    /\ f \in killed => LiveTokens(f) = {}

(* PRD FR-AUTH-04 AC3, without the restriction: once the reuse of a revoked *)
(* token was detected, no token of the family works any more.               *)
ReuseRevokesFamily == \A f \in killed : LiveTokens(f) = {}

(* The attempt limit is checked before the password and counted after it:   *)
(* the handlers in flight together can overshoot it by their number at most.*)
LockoutOvershoot ==
  LET bound == MaxLoginFailures + Cardinality(Requests) - 1 IN
  /\ \A u \in Users : byEmail[u].count <= bound
  /\ \A i \in Ips : byIp[i].count <= bound

(* A login or a refresh that arrives after the user was frozen never gets   *)
(* to mint a token, whatever else is in flight.                             *)
FrozenNeverMints == \A r \in Requests : At(r, "mint") => ~req[r].late

(* The second factor that is asked for is one whose code the user has shown:*)
(* while no two handlers of one user's second factor overlap, an enabled    *)
(* factor has a secret, and it is the verified one.                         *)
EnabledSecretIsProved ==
  \A u \in Users \ raced :
    users[u].totp => users[u].secret # 0 /\ users[u].secret = proved[u]

(* What the sessions rest on: well-formed tables, no token for a frozen     *)
(* user, no second factor that was never proved.                            *)
SessionsInv == SessionsTypeOK /\ FrozenNeverMints /\ EnabledSecretIsProved
=============================================================================
