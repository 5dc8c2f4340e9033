------------------------------- MODULE SignIn -------------------------------
(***************************************************************************)
(* How people and programs sign in to the gateway: the device flow         *)
(* (auth/device.ts, handlers/device.ts, auth/identity.ts), the rotation of *)
(* refresh tokens and their families (handlers/auth.ts, store/auth.ts) and *)
(* the service accounts' tokens (auth/service.ts, auth/tokens.ts).         *)
(*                                                                         *)
(* Every statement of the store is a step of its own; requests run in      *)
(* parallel and the gateway may stop between two of them.  WeCom and the   *)
(* identity table are external: a callback names any user, mapped or not.  *)
(* Secrets and signatures are abstract: a token is its identity.           *)
(***************************************************************************)
EXTENDS Integers, FiniteSets

CONSTANTS
  Codes,        \* device codes
  People,       \* WeCom users
  Nobody,       \* tm_userid IS NULL
  Slots,        \* requests the gateway may run together
  PollInterval, \* POLL_INTERVAL_SEC
  CodeTtl,      \* DEFAULT_TTL_SEC of the device flow
  RefreshTtl,   \* REFRESH_TOKEN_TTL_SEC
  AccessTtl,    \* ACCESS_TOKEN_TTL_SEC
  MaxTokens,    \* bound: refresh tokens issued
  MaxSignTime   \* bound: the clock stops there

ASSUME SignInAssumption ==
  /\ PollInterval \in Nat \ {0} /\ CodeTtl \in Nat \ {0}
  /\ RefreshTtl \in Nat \ {0} /\ AccessTtl \in Nat \ {0}
  /\ MaxTokens \in Nat /\ MaxSignTime \in Nat
  /\ Nobody \notin People

VARIABLES
  signTime,
  device,     \* device_authorizations: [Codes -> row]
  refresh,    \* refresh_tokens: [1..MaxTokens -> row]
  request,    \* [Slots -> state of a request]
  ended,      \* history: families reported as ended while no refresh of them ran
  raced,      \* history: families two refreshes of which overlapped
  account,    \* the service account: [enabled, expires]
  disabledAt, \* history: when the account was last disabled
  bearerUntil \* history: the latest end of an access token signed for the account

signVars == <<signTime, device, refresh, request, ended, raced,
              account, disabledAt, bearerUntil>>

TokenIds == 1..MaxTokens
\* polled = -1: last_polled_at IS NULL.  page: a browser was sent on with the state.
DeviceRows == [status: {"none", "pending", "authorized"}, user: People \cup {Nobody},
               expires: Nat, polled: Nat \cup {-1}, page: BOOLEAN]
\* family: the first token of the chain; code: history, the code it was redeemed for.
RefreshRows == [used: BOOLEAN, user: People \cup {Nobody}, family: TokenIds \cup {0},
                revoked: BOOLEAN, expires: Nat, code: Codes \cup {Nobody}]
NoToken == [used |-> FALSE, user |-> Nobody, family |-> 0, revoked |-> FALSE,
            expires |-> 0, code |-> Nobody]

Free == [pc |-> "free", code |-> Nobody, token |-> 0, user |-> Nobody, now |-> 0,
         seen |-> Nobody]
Pcs == {"free", "poll", "polled", "authorize", "find", "leave", "reused", "rotate",
        "rotated", "redeem", "end", "secret", "sign"}

\* [request EXCEPT] and the frames of the steps
Turn(s, row) == request' = [request EXCEPT ![s] = row]
OnlyRequest == UNCHANGED <<signTime, device, refresh, ended, raced,
                           account, disabledAt, bearerUntil>>
People_ == UNCHANGED <<signTime, account, disabledAt, bearerUntil>>

-----------------------------------------------------------------------------
\* The device flow

\* deviceCode: POST /auth/device/code.
StartDevice(c) ==
  /\ device[c].status = "none"
  /\ device' = [device EXCEPT ![c] = [@ EXCEPT !.status = "pending",
                                              !.expires = signTime + CodeTtl]]
  /\ UNCHANGED <<refresh, request, ended, raced>> /\ People_

\* devicePage: an open, unexpired code sends the browser to WeCom with its state.
OpenPage(c) ==
  /\ device[c].status = "pending" /\ signTime < device[c].expires
  /\ device' = [device EXCEPT ![c].page = TRUE]
  /\ UNCHANGED <<refresh, request, ended, raced>> /\ People_

\* wecomCallback up to the mapping: a user without a mapping ends it there.
Callback(s, c, u) ==
  /\ request[s].pc = "free" /\ device[c].page
  /\ Turn(s, [Free EXCEPT !.pc = "authorize", !.code = c, !.user = u])
  /\ OnlyRequest

\* Mutant: the state is accepted again after it was used.
AuthorizeAgain(s) ==
  /\ request[s].pc = "authorize"
  /\ device' = [device EXCEPT ![request[s].code] =
                  [@ EXCEPT !.status = "authorized", !.user = request[s].user]]
  /\ Turn(s, Free)
  /\ UNCHANGED <<refresh, ended, raced>> /\ People_

\* authorize: only a pending row is taken; a replayed state is refused.
Authorize(s) ==
  /\ request[s].pc = "authorize"
  /\ device' = IF device[request[s].code].status = "pending"
               THEN [device EXCEPT ![request[s].code] =
                       [@ EXCEPT !.status = "authorized", !.user = request[s].user]]
               ELSE device
  /\ Turn(s, Free)
  /\ UNCHANGED <<refresh, ended, raced>> /\ People_

\* deviceToken reads the clock, pollDevice the row; an unknown code ends it.
Poll(s, c) ==
  /\ request[s].pc = "free" /\ device[c].status # "none"
  /\ Turn(s, [Free EXCEPT !.pc = "poll", !.code = c, !.now = signTime])
  /\ OnlyRequest

PollSelect(s) ==
  /\ request[s].pc = "poll"
  /\ Turn(s, [request[s] EXCEPT !.pc = "polled", !.seen = device[request[s].code]])
  /\ OnlyRequest

\* pollDevice's UPDATE, then poll's verdict on the row as it was before it.
PollUpdate(s) ==
  LET r == request[s] IN
  /\ r.pc = "polled"
  /\ device' = [device EXCEPT ![r.code].polled = r.now]
  /\ LET expired == r.now >= r.seen.expires
         tooSoon == r.seen.polled # -1 /\ r.now - r.seen.polled < PollInterval
     IN IF expired \/ tooSoon \/ r.seen.user = Nobody
        THEN Turn(s, Free)
        ELSE Turn(s, [r EXCEPT !.pc = "redeem", !.user = r.seen.user, !.seen = Nobody])
  /\ UNCHANGED <<refresh, ended, raced>> /\ People_

-----------------------------------------------------------------------------
\* Refresh tokens

Used == {t \in TokenIds : refresh[t].used}
InFamily(t, f) == refresh[t].used /\ refresh[t].family = f
Live(t) == refresh[t].used /\ ~refresh[t].revoked
Revoked(f) == [t \in TokenIds |-> IF InFamily(t, f) THEN [refresh[t] EXCEPT !.revoked = TRUE]
                                  ELSE refresh[t]]
FamilyOf(s) == refresh[request[s].token].family
\* Refreshes past their look at the old token, before the new one is saved.
Rotating(f) == {s \in Slots : /\ request[s].pc \in {"rotate", "rotated"}
                              /\ FamilyOf(s) = f}

\* issueSession: the next token, of a new family or of the one given.
Issue(s, row) ==
  LET next == Cardinality(Used) + 1 IN
  /\ next <= MaxTokens
  /\ refresh' = [refresh EXCEPT ![next] =
                   [row EXCEPT !.family = IF row.family = 0 THEN next ELSE row.family]]
  /\ Turn(s, Free)
  /\ UNCHANGED <<device, ended, raced>> /\ People_

Redeem(s) ==
  /\ request[s].pc = "redeem"
  /\ Issue(s, [NoToken EXCEPT !.used = TRUE, !.user = request[s].user,
                              !.expires = request[s].now + RefreshTtl,
                              !.code = request[s].code])

\* refresh and logout start with a token the client once got.
Present(s, t, pc) ==
  /\ request[s].pc = "free" /\ refresh[t].used
  /\ Turn(s, [Free EXCEPT !.pc = pc, !.token = t, !.now = signTime])
  /\ OnlyRequest

\* Mutant: a token that was used is not recognised.
FindForgetsRevoked(s) ==
  LET t == request[s].token IN
  /\ request[s].pc = "find"
  /\ \/ request[s].now >= refresh[t].expires /\ Turn(s, Free)
     \/ request[s].now < refresh[t].expires /\ Turn(s, [request[s] EXCEPT !.pc = "rotate"])
  /\ raced' = raced \cup {f \in {FamilyOf(s)} : Rotating(f) # {}}
  /\ UNCHANGED <<device, refresh, ended>> /\ People_

\* findRefreshToken and the three answers of refresh.
Find(s) ==
  LET t == request[s].token IN
  /\ request[s].pc = "find"
  /\ \/ refresh[t].revoked /\ Turn(s, [request[s] EXCEPT !.pc = "reused"])
     \/ /\ ~refresh[t].revoked /\ request[s].now >= refresh[t].expires
        /\ Turn(s, Free)
     \/ /\ ~refresh[t].revoked /\ request[s].now < refresh[t].expires
        /\ Turn(s, [request[s] EXCEPT !.pc = "rotate"])
  /\ raced' = raced \cup {f \in {FamilyOf(s)} : ~refresh[t].revoked /\ Rotating(f) # {}}
  /\ UNCHANGED <<device, refresh, ended>> /\ People_

Rotate(s) ==
  /\ request[s].pc = "rotate"
  /\ refresh' = Revoked(FamilyOf(s))
  /\ Turn(s, [request[s] EXCEPT !.pc = "rotated"])
  /\ UNCHANGED <<device, ended, raced>> /\ People_

Rotated(s) ==
  /\ request[s].pc = "rotated"
  /\ Issue(s, [refresh[request[s].token] EXCEPT !.revoked = FALSE,
                                               !.expires = request[s].now + RefreshTtl])

\* logout reads the token's family before it revokes it.
Leave(s) ==
  /\ request[s].pc = "leave"
  /\ Turn(s, [request[s] EXCEPT !.pc = "end"])
  /\ OnlyRequest

\* revokeFamily on a reused token and on a logout.
EndFamily(s) ==
  /\ request[s].pc \in {"reused", "end"}
  /\ refresh' = Revoked(FamilyOf(s))
  /\ ended' = ended \cup {f \in {FamilyOf(s)} : Rotating(f) = {}}
  /\ Turn(s, Free)
  /\ UNCHANGED <<device, raced>> /\ People_

-----------------------------------------------------------------------------
\* Service accounts

\* serviceToken reads the clock; authenticate reads the row, then checks the secret.
AskToken(s) ==
  /\ request[s].pc = "free"
  /\ Turn(s, [Free EXCEPT !.pc = "secret", !.now = signTime])
  /\ OnlyRequest

CheckSecret(s) ==
  /\ request[s].pc = "secret"
  /\ \/ account.enabled /\ request[s].now < account.expires
        /\ Turn(s, [request[s] EXCEPT !.pc = "sign"])
     \/ Turn(s, Free)
  /\ OnlyRequest

\* Mutant: the token's life starts when it is signed, not when it was asked for.
SignLate(s) ==
  /\ request[s].pc = "sign"
  /\ bearerUntil' = IF signTime + AccessTtl > bearerUntil
                    THEN signTime + AccessTtl ELSE bearerUntil
  /\ Turn(s, Free)
  /\ UNCHANGED <<signTime, device, refresh, ended, raced, account, disabledAt>>

\* signAccessToken with the clock of the request.
Sign(s) ==
  /\ request[s].pc = "sign"
  /\ bearerUntil' = IF request[s].now + AccessTtl > bearerUntil
                    THEN request[s].now + AccessTtl ELSE bearerUntil
  /\ Turn(s, Free)
  /\ UNCHANGED <<signTime, device, refresh, ended, raced, account, disabledAt>>

\* The console turns the account off and on (store/programs.ts setEnabled).
Toggle ==
  /\ account' = [account EXCEPT !.enabled = ~@]
  /\ disabledAt' = IF account.enabled THEN signTime ELSE disabledAt
  /\ UNCHANGED <<signTime, device, refresh, request, ended, raced, bearerUntil>>

-----------------------------------------------------------------------------
SignTick ==
  /\ signTime < MaxSignTime
  /\ signTime' = signTime + 1
  /\ UNCHANGED <<device, refresh, request, ended, raced, account, disabledAt, bearerUntil>>

\* The process ends: the requests it runs are lost, the tables stay.
GatewayStops ==
  /\ \E s \in Slots : request[s].pc # "free"
  /\ request' = [s \in Slots |-> Free]
  /\ OnlyRequest

SignInInit ==
  /\ signTime = 0
  /\ device = [c \in Codes |-> [status |-> "none", user |-> Nobody, expires |-> 0,
                                polled |-> -1, page |-> FALSE]]
  /\ refresh = [t \in TokenIds |-> NoToken]
  /\ request = [s \in Slots |-> Free]
  /\ ended = {} /\ raced = {}
  /\ account = [enabled |-> TRUE, expires |-> MaxSignTime]
  /\ disabledAt = 0 /\ bearerUntil = 0

DeviceStep(s) ==
  \/ \E c \in Codes, u \in People : Callback(s, c, u)
  \/ Authorize(s)
  \/ \E c \in Codes : Poll(s, c)
  \/ PollSelect(s) \/ PollUpdate(s) \/ Redeem(s)

RefreshStep(s) ==
  \/ \E t \in TokenIds : Present(s, t, "find") \/ Present(s, t, "leave")
  \/ Find(s) \/ Rotate(s) \/ Rotated(s) \/ Leave(s) \/ EndFamily(s)

ProgramStep(s) == AskToken(s) \/ CheckSecret(s) \/ Sign(s)

SignInNext ==
  \/ \E c \in Codes : StartDevice(c) \/ OpenPage(c)
  \/ \E s \in Slots : DeviceStep(s) \/ RefreshStep(s) \/ ProgramStep(s)
  \/ Toggle \/ SignTick \/ GatewayStops

SignInSpec == SignInInit /\ [][SignInNext]_signVars

-----------------------------------------------------------------------------
SignInTypeOK ==
  /\ signTime \in Nat /\ disabledAt \in Nat /\ bearerUntil \in Nat
  /\ device \in [Codes -> DeviceRows]
  /\ refresh \in [TokenIds -> RefreshRows]
  /\ request \in [Slots -> [pc: Pcs, code: Codes \cup {Nobody}, token: TokenIds \cup {0},
                            user: People \cup {Nobody}, now: Nat,
                            seen: DeviceRows \cup {Nobody}]]
  /\ ended \subseteq TokenIds /\ raced \subseteq TokenIds
  /\ account \in [enabled: BOOLEAN, expires: Nat]

\* Whoever authorized a device code first owns it: however polls, callbacks and
\* replayed states overlap, every session redeemed for one code, and every session
\* refreshed from it, names the user the code's row still names.
OneIdentityPerCode ==
  \A t \in Used : /\ refresh[t].user \in People
                  /\ device[refresh[t].code].status = "authorized"
                  /\ refresh[t].user = device[refresh[t].code].user

\* A family whose logout or reuse was answered while no refresh of it was under way
\* never has a usable token again, whatever old tokens are presented later.
EndedStaysEnded == \A t \in Used : refresh[t].family \in ended => refresh[t].revoked

\* Rotation replaces: a family whose refreshes never overlapped has one live token.
OneLiveToken ==
  \A t, u \in Used :
    Live(t) /\ Live(u) /\ refresh[t].family = refresh[u].family
            /\ refresh[t].family \notin raced => t = u

\* A program that was disabled runs out of access tokens AccessTtl later, and never
\* holds one past its expiry date by more, however slow the check of its secret was.
DisabledRunsOut ==
  /\ ~account.enabled => bearerUntil <= disabledAt + AccessTtl
  /\ bearerUntil < account.expires + AccessTtl

\* Credentials end when the gateway said so: refresh families after a logout or a
\* detected reuse, replaced tokens, and the access tokens of a disabled program.
CredentialsEnd == EndedStaysEnded /\ OneLiveToken /\ DisabledRunsOut
=============================================================================
