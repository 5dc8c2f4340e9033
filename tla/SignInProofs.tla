---------------------------- MODULE SignInProofs ----------------------------
(***************************************************************************)
(* Proofs about SignIn for any number of device codes, users and requests  *)
(* that run together, any number of refresh tokens, and any intervals and  *)
(* lifetimes.  The last part is about MCAccess: what it runs is the gate   *)
(* and signing in, which begins there on its day or with a token out.      *)
(***************************************************************************)
EXTENDS MCAccess, AccessGateProofs, FiniteSetTheorems, TLAPS

-----------------------------------------------------------------------------
\* The row of a code names the user that authorized it, for good.
OwnedBy(c, u) ==
  c \in Codes /\ u \in People /\ device[c].status = "authorized" /\ device[c].user = u

\* A row that names a user is authorized.
OwnersAuthorized == \A c \in Codes : device[c].user # Nobody => OwnedBy(c, device[c].user)

\* Refreshes and logouts hold a token that was issued.
Refreshing == {"find", "leave", "reused", "rotate", "rotated", "end"}

\* What a request of the device flow or of a refresh holds is still so: the row a poll has
\* read may be old, but not the user it names, and a token once issued stays.
Holds(r) ==
  /\ r.pc = "authorize" => r.code \in Codes /\ r.user \in People
  /\ r.pc = "poll" => r.code \in Codes
  /\ r.pc = "polled" => /\ r.code \in Codes /\ r.seen \in DeviceRows
                        /\ r.seen.user # Nobody => OwnedBy(r.code, r.seen.user)
  /\ r.pc = "redeem" => OwnedBy(r.code, r.user)
  /\ r.pc \in Refreshing => r.token \in Used
RequestsHold == \A s \in Slots : Holds(request[s])

\* Every session belongs to the user of its code's row.
SessionsOwned == \A t \in Used : OwnedBy(refresh[t].code, refresh[t].user)

\* Ids are given out in order, and a family is named by one of its tokens.
IdsInOrder == \E n \in 0..MaxTokens : Used = 1..n
FamiliesIssued == /\ \A t \in Used : refresh[t].family \in Used
                  /\ ended \subseteq Used /\ raced \subseteq Used

\* No refresh of a family that ended is past its look at the old token.
EndedNotRotating == \A f \in ended : Rotating(f) = {}

\* In a family whose refreshes never overlapped one refresh is under way at most, and
\* between its two statements no token is live.
OneRotates ==
  \A s \in Slots :
    request[s].pc \in {"rotate", "rotated"} /\ FamilyOf(s) \notin raced =>
      /\ \A r \in Rotating(FamilyOf(s)) : r = s
      /\ request[s].pc = "rotated" => \A t \in Used : InFamily(t, FamilyOf(s)) => ~Live(t)

\* The clock of a request for an access token is old, never ahead; what was checked before
\* the account was disabled is signed for a moment before it was.
ProgramsInTime ==
  /\ disabledAt <= signTime /\ bearerUntil <= signTime + AccessTtl
  /\ \A s \in Slots :
       /\ request[s].now <= signTime
       /\ request[s].pc = "sign" => request[s].now < account.expires
       /\ request[s].pc = "sign" /\ ~account.enabled => request[s].now <= disabledAt

\* The inductive invariant, in three parts: whose the sessions are, which tokens live, and
\* when a program's tokens end.
OwnersInv ==
  /\ SignInTypeOK /\ OwnersAuthorized /\ RequestsHold /\ SessionsOwned
  /\ IdsInOrder /\ FamiliesIssued
TokensInv == EndedNotRotating /\ OneRotates /\ EndedStaysEnded /\ OneLiveToken
ProgramsInv == ProgramsInTime /\ DisabledRunsOut

-----------------------------------------------------------------------------
\* The records of requests.
RequestRows == [pc: Pcs, code: Codes \cup {Nobody}, token: TokenIds \cup {0},
                user: People \cup {Nobody}, now: Nat, seen: DeviceRows \cup {Nobody}]

\* A new request is of its type.
LEMMA FreshRequest ==
  ASSUME NEW pc \in Pcs, NEW code \in Codes \cup {Nobody}, NEW token \in TokenIds \cup {0},
         NEW user \in People \cup {Nobody}, NEW now \in Nat
  PROVE  [pc |-> pc, code |-> code, token |-> token, user |-> user, now |-> now,
          seen |-> Nobody] \in RequestRows
  BY DEF RequestRows

\* Ids that were given out are the first ones, so that the next is their number plus one.
LEMMA NextId ==
  ASSUME IdsInOrder
  PROVE  \E n \in 0..MaxTokens : Used = 1..n /\ Cardinality(Used) = n
  <1>1. PICK n \in 0..MaxTokens : Used = 1..n
    BY DEF IdsInOrder
  <1>2. n \in Int /\ 1 \in Int /\ n >= 0
    BY SignInAssumption
  <1>3. Cardinality(1..n) = IF 1 > n THEN 0 ELSE n - 1 + 1
    BY <1>2, FS_Interval
  <1>4. Cardinality(1..n) = n
    BY <1>2, <1>3
  <1>5. QED  BY <1>1, <1>4

\* issueSession gives out one id nobody had.
LEMMA IssueEffect ==
  ASSUME SignInTypeOK, IdsInOrder, NEW s \in Slots, NEW row \in RefreshRows, row.used,
         Issue(s, row)
  PROVE  \E next \in TokenIds :
           /\ next \notin Used /\ Used' = Used \cup {next} /\ IdsInOrder'
           /\ refresh' = [refresh EXCEPT ![next] =
                [row EXCEPT !.family = IF row.family = 0 THEN next ELSE row.family]]
           /\ refresh' \in [TokenIds -> RefreshRows]
  <1> DEFINE next == Cardinality(Used) + 1
             new == [row EXCEPT !.family = IF row.family = 0 THEN next ELSE row.family]
  <1>1. PICK n \in 0..MaxTokens : Used = 1..n /\ Cardinality(Used) = n
    BY NextId
  <1>2. next = n + 1 /\ next \in TokenIds /\ next \notin Used
    BY <1>1, SignInAssumption DEF Issue, TokenIds
  <1>3. refresh' = [refresh EXCEPT ![next] = new]
    BY DEF Issue
  <1> HIDE DEF next
  <1>4. new \in RefreshRows /\ new.used
    <2>1. (IF row.family = 0 THEN next ELSE row.family) \in TokenIds \cup {0}
      BY <1>2 DEF RefreshRows
    <2>2. QED  BY <2>1 DEF RefreshRows
  <1> HIDE DEF new
  <1>5. refresh' \in [TokenIds -> RefreshRows]
    BY <1>2, <1>3, <1>4 DEF SignInTypeOK
  <1>6. Used' = Used \cup {next}
    BY <1>2, <1>3, <1>4 DEF Used, SignInTypeOK
  <1>7. IdsInOrder'
    <2>1. Used' = 1..(n + 1)
      BY <1>1, <1>2, <1>6
    <2>2. n + 1 \in 0..MaxTokens
      BY <1>1, <1>2, SignInAssumption DEF TokenIds
    <2>3. QED  BY <2>1, <2>2 DEF IdsInOrder
  <1>8. QED  BY <1>2, <1>3, <1>5, <1>6, <1>7 DEF new

\* Revoking a family changes nothing of a token but that.
LEMMA RevokedEffect ==
  ASSUME SignInTypeOK, NEW f, refresh' = Revoked(f)
  PROVE  /\ refresh' \in [TokenIds -> RefreshRows] /\ Used' = Used
         /\ \A t \in TokenIds :
              /\ refresh'[t].user = refresh[t].user /\ refresh'[t].code = refresh[t].code
              /\ refresh'[t].family = refresh[t].family /\ refresh'[t].used = refresh[t].used
              /\ InFamily(t, f) => refresh'[t].revoked
              /\ ~InFamily(t, f) => refresh'[t].revoked = refresh[t].revoked
  <1> USE DEF SignInTypeOK, Revoked, InFamily
  <1>1. \A t \in TokenIds : refresh[t] \in RefreshRows
    OBVIOUS
  <1>2. ASSUME NEW t \in TokenIds
        PROVE  /\ refresh'[t] \in RefreshRows
               /\ refresh'[t].user = refresh[t].user /\ refresh'[t].code = refresh[t].code
               /\ refresh'[t].family = refresh[t].family /\ refresh'[t].used = refresh[t].used
               /\ InFamily(t, f) => refresh'[t].revoked
               /\ ~InFamily(t, f) => refresh'[t].revoked = refresh[t].revoked
    <2>1. CASE InFamily(t, f)
      BY <1>1, <2>1 DEF RefreshRows
    <2>2. CASE ~InFamily(t, f)
      BY <1>1, <2>2
    <2>3. QED  BY <2>1, <2>2
  <1>3. refresh' \in [TokenIds -> RefreshRows]
    BY <1>2
  <1>4. QED  BY <1>2, <1>3 DEF Used

-----------------------------------------------------------------------------
\* A code keeps its owner, an issued token its user, code and family.
OwnersStay == \A c \in Codes, u \in People : OwnedBy(c, u) => OwnedBy(c, u)'
TokensStay ==
  /\ Used \subseteq Used'
  /\ \A t \in Used : /\ refresh'[t].user = refresh[t].user /\ refresh'[t].code = refresh[t].code
                     /\ refresh'[t].family = refresh[t].family

\* Where the rows of codes stay, owners do.
LEMMA DeviceSame == ASSUME UNCHANGED device PROVE OwnersStay
  BY DEF OwnersStay, OwnedBy

\* What other requests hold is still so.
LEMMA OthersHold ==
  ASSUME RequestsHold, OwnersStay, Used \subseteq Used', NEW s \in Slots,
         \A q \in Slots : q # s => request'[q] = request[q], Holds(request[s])'
  PROVE  RequestsHold'
  <1>1. ASSUME NEW q \in Slots, q # s PROVE Holds(request[q])'
    <2>1. Holds(request[q]) /\ request'[q] = request[q]
      BY <1>1 DEF RequestsHold
    <2>2. ASSUME NEW c, NEW u, OwnedBy(c, u) PROVE OwnedBy(c, u)'
      BY <2>2 DEF OwnersStay, OwnedBy
    <2>3. QED  BY <2>1, <2>2 DEF Holds
  <1>2. QED  BY <1>1 DEF RequestsHold

\* A step of one request that touches no table.
LEMMA OnlyRequestStep ==
  ASSUME OwnersInv, UNCHANGED <<device, refresh, ended>>, raced' = raced,
         signTime' \in Nat, disabledAt' \in Nat, bearerUntil' \in Nat,
         account' \in [enabled: BOOLEAN, expires: Nat],
         NEW s \in Slots, NEW row \in RequestRows, Turn(s, row), Holds(request[s])'
  PROVE  OwnersInv'
  <1>1. Used' = Used /\ OwnersStay
    BY DeviceSame DEF Used
  <1>2. request' \in [Slots -> RequestRows] /\ \A q \in Slots : q # s => request'[q] = request[q]
    BY DEF Turn, OwnersInv, SignInTypeOK, RequestRows
  <1>3. RequestsHold'
    BY <1>1, <1>2, OthersHold DEF OwnersInv
  <1>4. SignInTypeOK'
    BY <1>2 DEF OwnersInv, SignInTypeOK, RequestRows
  <1>5. OwnersAuthorized' /\ SessionsOwned' /\ IdsInOrder' /\ FamiliesIssued'
    BY <1>1 DEF OwnersInv, OwnersAuthorized, SessionsOwned, IdsInOrder, FamiliesIssued, OwnedBy
  <1>6. QED  BY <1>3, <1>4, <1>5 DEF OwnersInv

\* Starting and leaving a request, and the reads of the tables.
LEMMA OwnersRequests ==
  ASSUME OwnersInv, NEW s \in Slots,
         \/ \E c \in Codes, u \in People : Callback(s, c, u)
         \/ \E c \in Codes : Poll(s, c)
         \/ PollSelect(s)
         \/ \E t \in TokenIds : Present(s, t, "find") \/ Present(s, t, "leave")
         \/ Leave(s) \/ AskToken(s) \/ CheckSecret(s)
  PROVE  OwnersInv'
  <1>1. /\ UNCHANGED <<device, refresh, ended>> /\ raced' = raced
        /\ signTime' \in Nat /\ disabledAt' \in Nat /\ bearerUntil' \in Nat
        /\ account' \in [enabled: BOOLEAN, expires: Nat]
    BY DEF OwnersInv, SignInTypeOK, Callback, Poll, PollSelect, Present, Leave, AskToken,
           CheckSecret, OnlyRequest
  <1>2. Free \in RequestRows /\ request[s] \in RequestRows /\ signTime \in Nat
    BY FreshRequest DEF Free, OwnersInv, SignInTypeOK, RequestRows, Pcs
  <1>3. ASSUME NEW row \in RequestRows, Turn(s, row), Holds(request[s])' PROVE OwnersInv'
    BY <1>1, <1>3, OnlyRequestStep
  <1>4. ASSUME NEW row \in RequestRows, Turn(s, row) PROVE request'[s] = row
    BY <1>4 DEF Turn, OwnersInv, SignInTypeOK
  <1>5. ASSUME NEW c \in Codes, NEW u \in People, Callback(s, c, u) PROVE OwnersInv'
    <2> DEFINE row == [Free EXCEPT !.pc = "authorize", !.code = c, !.user = u]
    <2>1. row \in RequestRows /\ Turn(s, row)
            /\ row.pc = "authorize" /\ row.code = c /\ row.user = u
      BY <1>2, <1>5 DEF Callback, RequestRows, Pcs
    <2> HIDE DEF row
    <2>2. Holds(request[s])'
      BY <1>4, <2>1 DEF Holds, Refreshing
    <2>3. QED  BY <1>3, <2>1, <2>2
  <1>6. ASSUME NEW c \in Codes, Poll(s, c) PROVE OwnersInv'
    <2> DEFINE row == [Free EXCEPT !.pc = "poll", !.code = c, !.now = signTime]
    <2>1. row \in RequestRows /\ Turn(s, row)
      BY <1>2, <1>6 DEF Poll, RequestRows, Pcs
    <2>2. Holds(request[s])'
      BY <1>2, <1>4, <2>1 DEF Holds, RequestRows, Refreshing
    <2>3. QED  BY <1>3, <2>1, <2>2
  <1>7. CASE PollSelect(s)
    <2> DEFINE row == [request[s] EXCEPT !.pc = "polled", !.seen = device[request[s].code]]
    <2>1. request[s].code \in Codes
      BY <1>7 DEF PollSelect, OwnersInv, RequestsHold, Holds
    <2>2. device[request[s].code] \in DeviceRows
      BY <2>1 DEF OwnersInv, SignInTypeOK
    <2>3. row \in RequestRows /\ Turn(s, row)
      BY <1>2, <1>7, <2>2 DEF PollSelect, RequestRows, Pcs
    <2>4. /\ request'[s].pc = "polled" /\ request'[s].code = request[s].code
          /\ request'[s].seen = device[request[s].code]
      BY <1>2, <1>4, <2>3 DEF RequestRows
    <2>5. device[request[s].code].user # Nobody =>
            OwnedBy(request[s].code, device[request[s].code].user)
      BY <2>1 DEF OwnersInv, OwnersAuthorized
    <2>6. Holds(request[s])'
      BY <1>1, <2>1, <2>2, <2>4, <2>5 DEF Holds, Refreshing, OwnedBy
    <2>7. QED  BY <1>3, <2>3, <2>6
  <1>8. ASSUME NEW t \in TokenIds, NEW pc \in {"find", "leave"}, Present(s, t, pc)
        PROVE  OwnersInv'
    <2> DEFINE row == [Free EXCEPT !.pc = pc, !.token = t, !.now = signTime]
    <2>1. row \in RequestRows /\ Turn(s, row)
      BY <1>2, <1>8 DEF Present, RequestRows, Pcs
    <2>2. request'[s].pc = pc /\ request'[s].token = t
      BY <1>2, <1>4, <2>1 DEF RequestRows
    <2>3. t \in Used'
      BY <1>1, <1>8 DEF Present, Used
    <2>4. Holds(request[s])'
      BY <2>2, <2>3 DEF Holds
    <2>5. QED  BY <1>3, <2>1, <2>4
  <1>9. CASE Leave(s)
    <2> DEFINE row == [request[s] EXCEPT !.pc = "end"]
    <2>1. row \in RequestRows /\ Turn(s, row)
      BY <1>2, <1>9 DEF Leave, RequestRows, Pcs
    <2>2. request'[s].pc = "end" /\ request'[s].token = request[s].token
      BY <1>2, <1>4, <2>1 DEF RequestRows
    <2>3. request[s].token \in Used'
      BY <1>1, <1>9 DEF Leave, OwnersInv, RequestsHold, Holds, Used, Refreshing
    <2>4. Holds(request[s])'
      BY <2>2, <2>3 DEF Holds
    <2>5. QED  BY <1>3, <2>1, <2>4
  <1>10. CASE AskToken(s)
    <2> DEFINE row == [Free EXCEPT !.pc = "secret", !.now = signTime]
    <2>1. row \in RequestRows /\ Turn(s, row)
      BY <1>2, <1>10 DEF AskToken, RequestRows, Pcs
    <2>2. request'[s].pc = "secret"
      BY <1>2, <1>4, <2>1 DEF RequestRows
    <2>3. QED  BY <1>3, <2>1, <2>2 DEF Holds, Refreshing
  <1>11. CASE CheckSecret(s)
    <2>1. PICK row \in {Free, [request[s] EXCEPT !.pc = "sign"]} : Turn(s, row)
      BY <1>11 DEF CheckSecret
    <2>2. row \in RequestRows /\ row.pc \in {"free", "sign"}
      BY <1>2, <2>1 DEF RequestRows, Pcs, Free
    <2>3. QED  BY <1>3, <1>4, <2>1, <2>2 DEF Holds, Refreshing
  <1>12. QED  BY <1>5, <1>6, <1>7, <1>8, <1>9, <1>10, <1>11

\* A step on the row of one code: it keeps the owner the row names, and one it names
\* anew has authorized it.
LEMMA DeviceRowStep ==
  ASSUME OwnersInv, NEW c \in Codes, NEW row \in DeviceRows,
         device' = [device EXCEPT ![c] = row],
         \/ row.user = device[c].user /\ row.status = device[c].status
         \/ device[c].status # "authorized" /\ (row.user # Nobody => row.status = "authorized"),
         UNCHANGED refresh
  PROVE  /\ device' \in [Codes -> DeviceRows] /\ OwnersStay
         /\ OwnersAuthorized' /\ SessionsOwned' /\ Used' = Used
  <1> USE DEF OwnersInv, SignInTypeOK
  <1>1. device' \in [Codes -> DeviceRows] /\ Used' = Used
    BY DEF Used
  <1>2. OwnersStay
    BY DEF OwnersStay, OwnedBy
  <1>3. OwnersAuthorized'
    BY <1>1 DEF OwnersAuthorized, OwnedBy, DeviceRows
  <1>4. SessionsOwned'
    BY <1>1, <1>2 DEF SessionsOwned, OwnersStay, OwnedBy
  <1>5. QED  BY <1>1, <1>2, <1>3, <1>4

\* The steps on the rows of device codes keep what is known about owners.
LEMMA OwnersDevices ==
  ASSUME OwnersInv,
         \/ \E c \in Codes : StartDevice(c) \/ OpenPage(c)
         \/ \E s \in Slots : Authorize(s) \/ PollUpdate(s)
  PROVE  OwnersInv'
  <1>1. ASSUME NEW c \in Codes, StartDevice(c) \/ OpenPage(c) PROVE OwnersInv'
    <2>1. device[c] \in DeviceRows /\ signTime + CodeTtl \in Nat
      BY SignInAssumption DEF OwnersInv, SignInTypeOK
    <2>2. PICK row \in DeviceRows :
            /\ device' = [device EXCEPT ![c] = row]
            /\ row.user = device[c].user
            /\ \/ row.status = device[c].status
               \/ device[c].status = "none" /\ row.status = "pending"
      <3>1. CASE StartDevice(c)
        <4>1. [device[c] EXCEPT !.status = "pending", !.expires = signTime + CodeTtl]
                \in DeviceRows
          BY <2>1 DEF DeviceRows
        <4>2. QED  BY <2>1, <3>1, <4>1 DEF StartDevice, DeviceRows
      <3>2. CASE OpenPage(c)
        <4>1. [device[c] EXCEPT !.page = TRUE] \in DeviceRows
          BY <2>1 DEF DeviceRows
        <4>2. device' = [device EXCEPT ![c] = [device[c] EXCEPT !.page = TRUE]]
          BY <3>2 DEF OpenPage
        <4>3. /\ [device[c] EXCEPT !.page = TRUE].user = device[c].user
              /\ [device[c] EXCEPT !.page = TRUE].status = device[c].status
          BY <2>1 DEF DeviceRows
        <4> DEFINE new == [device[c] EXCEPT !.page = TRUE]
        <4>4. new \in DeviceRows /\ new.user = device[c].user /\ new.status = device[c].status
          BY <4>1, <4>3
        <4>5. device' = [device EXCEPT ![c] = new]
          BY <4>2
        <4> HIDE DEF new
        <4>6. QED  BY <4>4, <4>5
      <3>3. QED  BY <1>1, <3>1, <3>2
    <2>3. UNCHANGED <<refresh, request, ended, raced>> /\ People_
      BY <1>1 DEF StartDevice, OpenPage
    <2>4. \/ row.user = device[c].user /\ row.status = device[c].status
          \/ device[c].status # "authorized" /\ (row.user # Nobody => row.status = "authorized")
      BY <2>2 DEF OwnersInv, OwnersAuthorized, OwnedBy
    <2>5. /\ device' \in [Codes -> DeviceRows] /\ OwnersStay
          /\ OwnersAuthorized' /\ SessionsOwned' /\ Used' = Used
      BY <2>2, <2>3, <2>4, DeviceRowStep
    <2>6. RequestsHold'
      <3>1. ASSUME NEW q \in Slots PROVE Holds(request[q])'
        <4>1. Holds(request[q]) /\ request'[q] = request[q]
          BY <2>3 DEF OwnersInv, RequestsHold
        <4>2. ASSUME NEW d, NEW u, OwnedBy(d, u) PROVE OwnedBy(d, u)'
          BY <2>5, <4>2 DEF OwnersStay, OwnedBy
        <4>3. QED  BY <2>5, <4>1, <4>2 DEF Holds
      <3>2. QED  BY <3>1 DEF RequestsHold
    <2>7. SignInTypeOK' /\ IdsInOrder' /\ FamiliesIssued'
      BY <2>3, <2>5 DEF OwnersInv, SignInTypeOK, People_, IdsInOrder, FamiliesIssued
    <2>8. QED  BY <2>5, <2>6, <2>7 DEF OwnersInv
  <1>2. ASSUME NEW s \in Slots, Authorize(s) \/ PollUpdate(s) PROVE OwnersInv'
    <2>1. request[s] \in RequestRows /\ Free \in RequestRows /\ request[s].code \in Codes
          /\ Holds(request[s])
      <3>1. request[s] \in RequestRows /\ Holds(request[s])
        BY DEF OwnersInv, SignInTypeOK, RequestsHold, RequestRows, Pcs
      <3>2. request[s].pc \in {"authorize", "polled"}
        BY <1>2 DEF Authorize, PollUpdate
      <3>3. request[s].code \in Codes
        BY <3>1, <3>2 DEF Holds
      <3>4. Free \in RequestRows
        BY FreshRequest DEF Free, OwnersInv, SignInTypeOK, Pcs
      <3>5. QED  BY <3>1, <3>3, <3>4
    <2>2. device[request[s].code] \in DeviceRows
      BY <2>1 DEF OwnersInv, SignInTypeOK
    <2>3. UNCHANGED <<refresh, ended, raced>> /\ People_
      BY <1>2 DEF Authorize, PollUpdate
    <2>4. /\ device' \in [Codes -> DeviceRows] /\ OwnersStay
          /\ OwnersAuthorized' /\ SessionsOwned' /\ Used' = Used
      <3> DEFINE c == request[s].code
      <3>1. CASE Authorize(s)
        <4>1. CASE device[c].status = "pending"
          <5> DEFINE row == [device[c] EXCEPT !.status = "authorized", !.user = request[s].user]
          <5>1. row \in DeviceRows /\ row.status = "authorized"
            BY <2>1, <2>2 DEF DeviceRows, RequestRows
          <5>2. device' = [device EXCEPT ![c] = row]
            BY <3>1, <4>1 DEF Authorize
          <5>3. QED  BY <2>1, <2>3, <4>1, <5>1, <5>2, DeviceRowStep
        <4>2. CASE device[c].status # "pending"
          <5>1. device' = device /\ Used' = Used
            BY <2>3, <3>1, <4>2 DEF Authorize, Used
          <5>2. QED
            BY <2>3, <5>1, DeviceSame
            DEF OwnersInv, SignInTypeOK, OwnersAuthorized, SessionsOwned, OwnedBy
        <4>3. QED  BY <4>1, <4>2
      <3>2. CASE PollUpdate(s)
        <4> DEFINE row == [device[c] EXCEPT !.polled = request[s].now]
        <4>1. /\ row \in DeviceRows /\ row.user = device[c].user
              /\ row.status = device[c].status
          BY <2>1, <2>2 DEF DeviceRows, RequestRows
        <4>2. device' = [device EXCEPT ![c] = row]
          BY <3>2 DEF PollUpdate
        <4>3. QED  BY <2>1, <2>3, <4>1, <4>2, DeviceRowStep
      <3>3. QED  BY <1>2, <3>1, <3>2
    <2>5. PICK row \in RequestRows :
            /\ Turn(s, row) /\ row.pc \in {"free", "redeem"}
            /\ row.pc = "redeem" => OwnedBy(row.code, row.user)
      <3>1. CASE Authorize(s)
        BY <2>1, <3>1 DEF Authorize, Free
      <3>2. CASE PollUpdate(s)
        <4> DEFINE new == [request[s] EXCEPT !.pc = "redeem", !.user = request[s].seen.user,
                                             !.seen = Nobody]
        <4>1. CASE Turn(s, Free)
          BY <2>1, <4>1 DEF Free
        <4>2. CASE request[s].seen.user # Nobody /\ Turn(s, new)
          <5>1. OwnedBy(request[s].code, request[s].seen.user)
            BY <2>1, <3>2, <4>2 DEF Holds, PollUpdate
          <5>2. new \in RequestRows /\ new.pc = "redeem" /\ new.code = request[s].code
                /\ new.user = request[s].seen.user
            BY <2>1, <5>1 DEF RequestRows, OwnedBy, Pcs
          <5>3. QED  BY <4>2, <5>1, <5>2
        <4>3. Turn(s, Free) \/ (request[s].seen.user # Nobody /\ Turn(s, new))
          BY <3>2, Zenon DEF PollUpdate
        <4>4. QED  BY <4>1, <4>2, <4>3
      <3>3. QED  BY <1>2, <3>1, <3>2
    <2>6. /\ request' \in [Slots -> RequestRows] /\ request'[s] = row
          /\ \A q \in Slots : q # s => request'[q] = request[q]
      BY <2>5 DEF Turn, OwnersInv, SignInTypeOK, RequestRows
    <2>7. Holds(request[s])'
      BY <2>4, <2>5, <2>6 DEF Holds, OwnersStay, OwnedBy, Refreshing
    <2>8. RequestsHold'
      BY <2>4, <2>6, <2>7, OthersHold DEF OwnersInv
    <2>9. SignInTypeOK' /\ IdsInOrder' /\ FamiliesIssued'
      BY <2>3, <2>4, <2>6
      DEF OwnersInv, SignInTypeOK, RequestRows, People_, IdsInOrder, FamiliesIssued
    <2>10. QED  BY <2>4, <2>8, <2>9 DEF OwnersInv
  <1>3. QED  BY <1>1, <1>2

\* The steps that write refresh tokens, or look at them to rotate.
LEMMA OwnersTokens ==
  ASSUME OwnersInv, NEW s \in Slots,
         Redeem(s) \/ Find(s) \/ Rotate(s) \/ Rotated(s) \/ EndFamily(s)
  PROVE  OwnersInv'
  <1>1. request[s] \in RequestRows /\ Free \in RequestRows /\ Holds(request[s])
    BY FreshRequest DEF Free, OwnersInv, SignInTypeOK, RequestRows, Pcs, RequestsHold
  <1>2. UNCHANGED device /\ People_ /\ OwnersStay
    BY DeviceSame DEF Redeem, Issue, Find, Rotate, Rotated, EndFamily
  <1>3. PICK row \in RequestRows :
          /\ Turn(s, row) /\ row.pc \in {"free", "reused", "rotate", "rotated"}
          /\ row.pc # "free" => row.token = request[s].token /\ request[s].pc \in Refreshing
    <2>1. CASE Redeem(s) \/ Rotated(s) \/ EndFamily(s)
      <3>1. Turn(s, Free)
        BY <2>1 DEF Redeem, Rotated, EndFamily, Issue
      <3>2. QED  BY <1>1, <3>1 DEF Free
    <2>2. CASE Find(s) \/ Rotate(s)
      <3>1. PICK pc \in {"free", "reused", "rotate", "rotated"} :
              Turn(s, IF pc = "free" THEN Free ELSE [request[s] EXCEPT !.pc = pc])
        BY <2>2 DEF Find, Rotate
      <3>2. CASE pc = "free"
        BY <1>1, <3>1, <3>2 DEF Free
      <3>3. CASE pc # "free"
        <4>1. /\ [request[s] EXCEPT !.pc = pc] \in RequestRows
              /\ [request[s] EXCEPT !.pc = pc].pc = pc
              /\ [request[s] EXCEPT !.pc = pc].token = request[s].token
          BY <1>1, <3>1 DEF RequestRows, Pcs
        <4>2. request[s].pc \in Refreshing
          BY <2>2 DEF Find, Rotate, Refreshing
        <4>3. Turn(s, [request[s] EXCEPT !.pc = pc])
          BY <3>1, <3>3
        <4>4. QED  BY <3>1, <4>1, <4>2, <4>3
      <3>4. QED  BY <3>2, <3>3
    <2>3. QED  BY <2>1, <2>2
  <1>4. /\ request' \in [Slots -> RequestRows] /\ request'[s] = row
        /\ \A q \in Slots : q # s => request'[q] = request[q]
    BY <1>3 DEF Turn, OwnersInv, SignInTypeOK, RequestRows
  <1>5. /\ refresh' \in [TokenIds -> RefreshRows] /\ TokensStay /\ IdsInOrder'
        /\ \A t \in Used' : refresh'[t].family \in Used'
        /\ \A t \in Used' \ Used :
             OwnedBy(refresh'[t].code, refresh'[t].user)
    <2>1. CASE Find(s)
      <3>1. refresh' = refresh /\ Used' = Used
        BY <2>1 DEF Find, Used
      <3>2. QED
        BY <3>1 DEF OwnersInv, SignInTypeOK, TokensStay, IdsInOrder, FamiliesIssued
    <2>2. CASE Rotate(s) \/ EndFamily(s)
      <3>1. refresh' = Revoked(FamilyOf(s))
        BY <2>2 DEF Rotate, EndFamily
      <3>2. /\ refresh' \in [TokenIds -> RefreshRows] /\ Used' = Used
            /\ \A t \in TokenIds :
                 /\ refresh'[t].user = refresh[t].user /\ refresh'[t].code = refresh[t].code
                 /\ refresh'[t].family = refresh[t].family
        BY <3>1, RevokedEffect DEF OwnersInv
      <3>3. Used \subseteq TokenIds
        BY DEF Used
      <3>4. QED
        BY <3>2, <3>3 DEF OwnersInv, TokensStay, IdsInOrder, FamiliesIssued
    <2>3. CASE Redeem(s) \/ Rotated(s)
      <3>1. PICK new \in RefreshRows :
              /\ new.used /\ Issue(s, new) /\ OwnedBy(new.code, new.user)
              /\ new.family # 0 => new.family \in Used
        <4>1. CASE Redeem(s)
          <5> DEFINE r == [NoToken EXCEPT !.used = TRUE, !.user = request[s].user,
                                          !.expires = request[s].now + RefreshTtl,
                                          !.code = request[s].code]
          <5>1. Issue(s, r) /\ OwnedBy(request[s].code, request[s].user)
            BY <1>1, <4>1 DEF Redeem, Holds
          <5>2. request[s].now + RefreshTtl \in Nat
            BY <1>1, SignInAssumption DEF RequestRows
          <5>3. r \in RefreshRows /\ r.used /\ r.code = request[s].code
                /\ r.user = request[s].user /\ r.family = 0
            BY <5>1, <5>2 DEF NoToken, RefreshRows, OwnedBy
          <5>4. QED  BY <5>1, <5>3
        <4>2. CASE Rotated(s)
          <5> DEFINE t == request[s].token
                     r == [refresh[t] EXCEPT !.revoked = FALSE,
                                             !.expires = request[s].now + RefreshTtl]
          <5>1. Issue(s, r) /\ t \in Used
            BY <1>1, <4>2 DEF Rotated, Holds, Refreshing
          <5>2. refresh[t] \in RefreshRows /\ refresh[t].used /\ OwnedBy(refresh[t].code, refresh[t].user)
                /\ refresh[t].family \in Used
            BY <5>1 DEF OwnersInv, SignInTypeOK, SessionsOwned, FamiliesIssued, Used
          <5>3. request[s].now + RefreshTtl \in Nat
            BY <1>1, SignInAssumption DEF RequestRows
          <5>4. r \in RefreshRows /\ r.used /\ r.code = refresh[t].code
                /\ r.user = refresh[t].user /\ r.family = refresh[t].family
            BY <5>2, <5>3 DEF RefreshRows
          <5>5. QED  BY <5>1, <5>2, <5>4
        <4>3. QED  BY <2>3, <4>1, <4>2
      <3>2. PICK next \in TokenIds :
              /\ next \notin Used /\ Used' = Used \cup {next} /\ IdsInOrder'
              /\ refresh' = [refresh EXCEPT ![next] =
                   [new EXCEPT !.family = IF new.family = 0 THEN next ELSE new.family]]
              /\ refresh' \in [TokenIds -> RefreshRows]
        BY <3>1, IssueEffect DEF OwnersInv
      <3>3. /\ refresh'[next].code = new.code /\ refresh'[next].user = new.user
            /\ refresh'[next].family = IF new.family = 0 THEN next ELSE new.family
            /\ \A t \in Used : refresh'[t] = refresh[t]
        BY <3>1, <3>2 DEF OwnersInv, SignInTypeOK, RefreshRows, Used
      <3>4. TokensStay
        BY <3>2, <3>3 DEF TokensStay
      <3>5. \A t \in Used' : refresh'[t].family \in Used'
        BY <3>1, <3>2, <3>3 DEF OwnersInv, FamiliesIssued
      <3>6. \A t \in Used' \ Used : OwnedBy(refresh'[t].code, refresh'[t].user)
        BY <3>1, <3>2, <3>3
      <3>7. QED  BY <3>2, <3>4, <3>5, <3>6
    <2>4. QED  BY <2>1, <2>2, <2>3
  <1>6. SessionsOwned'
    <2>1. ASSUME NEW t \in Used'
          PROVE  OwnedBy(refresh'[t].code, refresh'[t].user)
      BY <1>5, <2>1 DEF OwnersInv, SessionsOwned, TokensStay
    <2>2. QED  BY <1>2, <2>1 DEF SessionsOwned, OwnedBy
  <1>7. Holds(request[s])'
    BY <1>1, <1>3, <1>4, <1>5 DEF Holds, TokensStay, Refreshing
  <1>8. RequestsHold'
    BY <1>2, <1>4, <1>5, <1>7, OthersHold DEF OwnersInv, TokensStay
  <1>9. ended' \subseteq Used' /\ raced' \subseteq Used'
    <2>1. request[s].pc \in Refreshing => FamilyOf(s) \in Used
      BY <1>1 DEF Holds, FamilyOf, OwnersInv, FamiliesIssued
    <2>2. ended \subseteq Used /\ raced \subseteq Used
      BY DEF OwnersInv, FamiliesIssued
    <2>3. ended' \subseteq Used /\ raced' \subseteq Used
      BY <2>1, <2>2 DEF Redeem, Issue, Find, Rotate, Rotated, EndFamily, Refreshing
    <2>4. QED  BY <1>5, <2>3 DEF TokensStay
  <1>10. SignInTypeOK'
    <2>1. Used' \subseteq TokenIds
      BY DEF Used
    <2>2. QED
      BY <1>2, <1>4, <1>5, <1>9, <2>1 DEF OwnersInv, SignInTypeOK, RequestRows, People_
  <1>11. OwnersAuthorized' /\ FamiliesIssued'
    BY <1>2, <1>5, <1>9 DEF OwnersInv, OwnersAuthorized, OwnedBy, FamiliesIssued
  <1>12. QED  BY <1>5, <1>6, <1>8, <1>10, <1>11 DEF OwnersInv

\* Every step keeps what is known about owners.
LEMMA OwnersStep == OwnersInv /\ [SignInNext]_signVars => OwnersInv'
  <1> SUFFICES ASSUME OwnersInv, [SignInNext]_signVars PROVE OwnersInv'
    OBVIOUS
  <1>1. ASSUME NEW s \in Slots, Sign(s) PROVE OwnersInv'
    <2>1. Free \in RequestRows /\ request[s] \in RequestRows /\ Turn(s, Free)
      BY <1>1, FreshRequest DEF Free, OwnersInv, SignInTypeOK, RequestRows, Pcs, Sign
    <2>2. UNCHANGED <<signTime, device, refresh, ended, raced, account, disabledAt>>
      BY <1>1 DEF Sign
    <2>3. bearerUntil' \in Nat
      BY <1>1, <2>1, SignInAssumption DEF Sign, OwnersInv, SignInTypeOK, RequestRows
    <2>4. Holds(request[s])'
      BY <2>1 DEF Turn, Free, Holds, Refreshing, OwnersInv, SignInTypeOK
    <2>5. QED  BY <2>1, <2>2, <2>3, <2>4, OnlyRequestStep DEF OwnersInv, SignInTypeOK
  <1>2. ASSUME UNCHANGED <<device, refresh, ended, raced>>, request' \in [Slots -> RequestRows],
               \A s \in Slots : request'[s] \in {request[s], Free},
               signTime' \in Nat, disabledAt' \in Nat, bearerUntil' \in Nat,
               account' \in [enabled: BOOLEAN, expires: Nat]
        PROVE  OwnersInv'
    <2>1. Used' = Used
      BY <1>2 DEF Used
    <2>2. RequestsHold'
      <3>1. ASSUME NEW s \in Slots PROVE Holds(request[s])'
        <4>1. CASE request'[s] = request[s]
          BY <1>2, <2>1, <4>1 DEF OwnersInv, RequestsHold, Holds, OwnedBy
        <4>2. CASE request'[s] = Free
          BY <4>2 DEF Holds, Free, Refreshing
        <4>3. QED  BY <1>2, <4>1, <4>2
      <3>2. QED  BY <3>1 DEF RequestsHold
    <2>3. QED
      BY <1>2, <2>1, <2>2
      DEF OwnersInv, SignInTypeOK, RequestRows, OwnersAuthorized, OwnedBy, SessionsOwned,
          IdsInOrder, FamiliesIssued
  <1>3. /\ request \in [Slots -> RequestRows] /\ Free \in RequestRows
        /\ signTime \in Nat /\ disabledAt \in Nat /\ bearerUntil \in Nat
        /\ account \in [enabled: BOOLEAN, expires: Nat]
    BY FreshRequest DEF Free, OwnersInv, SignInTypeOK, RequestRows, Pcs
  <1>4. CASE Toggle
    BY <1>2, <1>3, <1>4 DEF Toggle
  <1>5. CASE SignTick
    BY <1>2, <1>3, <1>5 DEF SignTick
  <1>6. CASE GatewayStops
    BY <1>2, <1>3, <1>6 DEF GatewayStops, OnlyRequest
  <1>7. CASE UNCHANGED signVars
    BY <1>2, <1>3, <1>7 DEF signVars
  <1>8. QED
    BY <1>1, <1>4, <1>5, <1>6, <1>7, OwnersRequests, OwnersDevices, OwnersTokens
    DEF SignInNext, DeviceStep, RefreshStep, ProgramStep

\* The initial state satisfies what is known about owners.
LEMMA OwnersInit == SignInInit => OwnersInv
  <1> SUFFICES ASSUME SignInInit PROVE OwnersInv
    OBVIOUS
  <1>1. SignInTypeOK
    <2>1. Free \in RequestRows
      BY FreshRequest DEF Free, Pcs
    <2>2. QED
      BY <2>1, SignInAssumption
      DEF SignInInit, SignInTypeOK, DeviceRows, RefreshRows, NoToken, RequestRows
  <1>2. Used = {} /\ Used = 1..0
    BY DEF SignInInit, Used, NoToken
  <1>3. QED
    BY <1>1, <1>2, SignInAssumption
    DEF SignInInit, OwnersInv, OwnersAuthorized, RequestsHold, Holds, Free, Refreshing,
        SessionsOwned, IdsInOrder, FamiliesIssued

\* However polls, callbacks and replayed states overlap, every session names the user that
\* authorized its code.
THEOREM SessionsHaveOneOwner == SignInSpec => [](SignInTypeOK /\ OneIdentityPerCode)
  <1>1. OwnersInv => SignInTypeOK /\ OneIdentityPerCode
    BY DEF OwnersInv, SessionsOwned, OwnedBy, OneIdentityPerCode
  <1>2. QED  BY <1>1, OwnersInit, OwnersStep, PTL DEF SignInSpec

-----------------------------------------------------------------------------
\* A request past its look at the token stays in that token's family.
LEMMA SameFamily ==
  ASSUME OwnersInv, TokensStay, NEW q \in Slots, request[q].pc \in Refreshing,
         request'[q].token = request[q].token
  PROVE  FamilyOf(q)' = FamilyOf(q)
  BY DEF OwnersInv, RequestsHold, Holds, TokensStay, FamilyOf

\* A step that writes no token and starts no rotation keeps what is known about tokens.
LEMMA QuietStep ==
  ASSUME TokensInv, refresh' = refresh, ended' = ended, raced \subseteq raced',
         \A q \in Slots : request'[q].pc \in {"rotate", "rotated"} => request'[q] = request[q]
  PROVE  TokensInv'
  <1>1. \A q \in Slots : request'[q].pc \in {"rotate", "rotated"} =>
          request'[q] = request[q] /\ FamilyOf(q)' = FamilyOf(q)
    BY DEF FamilyOf
  <1>2. \A f : Rotating(f)' \subseteq Rotating(f)
    BY <1>1 DEF Rotating
  <1>3. EndedNotRotating'
    BY <1>2 DEF TokensInv, EndedNotRotating
  <1>4. OneRotates'
    <2> SUFFICES ASSUME NEW s \in Slots, request'[s].pc \in {"rotate", "rotated"},
                        FamilyOf(s)' \notin raced'
                 PROVE  /\ \A r \in Rotating(FamilyOf(s))' : r = s
                        /\ request'[s].pc = "rotated" =>
                             \A t \in Used' : InFamily(t, FamilyOf(s))' => ~Live(t)'
      BY DEF OneRotates
    <2>1. request'[s] = request[s] /\ FamilyOf(s)' = FamilyOf(s)
      BY <1>1
    <2>2. /\ \A r \in Rotating(FamilyOf(s)) : r = s
          /\ request[s].pc = "rotated" => \A t \in Used : InFamily(t, FamilyOf(s)) => ~Live(t)
      BY <2>1 DEF TokensInv, OneRotates
    <2>3. Rotating(FamilyOf(s))' \subseteq Rotating(FamilyOf(s))
      BY <1>1, <2>1 DEF Rotating
    <2>4. QED  BY <2>1, <2>2, <2>3 DEF Used, InFamily, Live
  <1>5. EndedStaysEnded' /\ OneLiveToken'
    BY DEF TokensInv, EndedStaysEnded, OneLiveToken, Used, Live
  <1>6. QED  BY <1>3, <1>4, <1>5 DEF TokensInv

\* The look at a token: whoever goes on to rotate holds a live token, of a family that has
\* not ended; a second one marks the family as raced.
LEMMA TokensFind == ASSUME OwnersInv, TokensInv, NEW s \in Slots, Find(s) PROVE TokensInv'
  <1> DEFINE t == request[s].token
             f == FamilyOf(s)
  <1>1. request[s] \in RequestRows /\ t \in Used /\ f = refresh[t].family
    BY DEF OwnersInv, SignInTypeOK, RequestRows, RequestsHold, Holds, Find, Refreshing, FamilyOf
  <1>2. refresh' = refresh /\ ended' = ended /\ raced \subseteq raced'
    BY DEF Find
  <1>3. CASE \E row \in {Free, [request[s] EXCEPT !.pc = "reused"]} : Turn(s, row)
    <2>1. \A q \in Slots : request'[q].pc \in {"rotate", "rotated"} => request'[q] = request[q]
      BY <1>1, <1>3 DEF Turn, Free, OwnersInv, SignInTypeOK, RequestRows
    <2>2. QED  BY <1>2, <2>1, QuietStep
  <1>4. CASE ~refresh[t].revoked /\ Turn(s, [request[s] EXCEPT !.pc = "rotate"])
    <2>1. /\ \A q \in Slots : q # s => request'[q] = request[q]
          /\ request'[s].pc = "rotate" /\ request'[s].token = t
      BY <1>1, <1>4 DEF Turn, OwnersInv, SignInTypeOK, RequestRows
    <2>2. \A q \in Slots : FamilyOf(q)' = FamilyOf(q)
      BY <1>2, <2>1 DEF FamilyOf
    <2>3. \A g : Rotating(g)' = IF g = f THEN Rotating(g) \cup {s} ELSE Rotating(g)
      BY <2>1, <2>2 DEF Rotating, Find
    <2>4. f \notin ended
      BY <1>1, <1>4 DEF TokensInv, EndedStaysEnded
    <2>5. EndedNotRotating'
      BY <1>2, <2>3, <2>4 DEF TokensInv, EndedNotRotating
    <2>6. f \notin raced' => Rotating(f) = {}
      BY <1>4 DEF Find
    <2>7. OneRotates'
      <3> SUFFICES ASSUME NEW q \in Slots, request'[q].pc \in {"rotate", "rotated"},
                          FamilyOf(q)' \notin raced'
                   PROVE  /\ \A r \in Rotating(FamilyOf(q))' : r = q
                          /\ request'[q].pc = "rotated" =>
                               \A u \in Used' : InFamily(u, FamilyOf(q))' => ~Live(u)'
        BY DEF OneRotates
      <3>1. CASE q = s
        <4>1. FamilyOf(q)' = f /\ Rotating(f) = {}
          BY <2>2, <2>6, <3>1
        <4>2. Rotating(FamilyOf(q))' = {s}
          BY <2>1, <2>2, <3>1, <4>1 DEF Rotating
        <4>3. QED  BY <2>1, <3>1, <4>1, <4>2 DEF Rotating
      <3>2. CASE q # s
        <4>1. request'[q] = request[q] /\ FamilyOf(q)' = FamilyOf(q) /\ q \in Rotating(FamilyOf(q))
          BY <2>1, <2>2, <3>2 DEF Rotating
        <4>2. FamilyOf(q) # f
          BY <2>6, <4>1
        <4>3. /\ \A r \in Rotating(FamilyOf(q)) : r = q
              /\ request[q].pc = "rotated" => \A u \in Used : InFamily(u, FamilyOf(q)) => ~Live(u)
          BY <1>2, <4>1 DEF TokensInv, OneRotates
        <4>4. Rotating(FamilyOf(q))' = Rotating(FamilyOf(q))
          BY <2>1, <2>2, <4>1, <4>2 DEF Rotating
        <4>5. QED  BY <1>2, <4>1, <4>3, <4>4 DEF Used, InFamily, Live
      <3>3. QED  BY <3>1, <3>2
    <2>8. EndedStaysEnded' /\ OneLiveToken'
      BY <1>2 DEF TokensInv, EndedStaysEnded, OneLiveToken, Used, Live
    <2>9. QED  BY <2>5, <2>7, <2>8 DEF TokensInv
  <1>5. QED  BY <1>3, <1>4 DEF Find

\* Revoking a family, by a rotation, a logout or a detected reuse.
LEMMA TokensRevoke ==
  ASSUME OwnersInv, TokensInv, NEW s \in Slots, Rotate(s) \/ EndFamily(s) PROVE TokensInv'
  <1> DEFINE f == FamilyOf(s)
  <1>1. request[s] \in RequestRows /\ request[s].token \in Used /\ request[s].pc \in Refreshing
        /\ refresh' = Revoked(f) /\ raced' = raced
    BY DEF OwnersInv, SignInTypeOK, RequestRows, RequestsHold, Holds, Rotate, EndFamily, Refreshing
  <1>2. /\ Used' = Used
        /\ \A t \in TokenIds :
             /\ refresh'[t].user = refresh[t].user /\ refresh'[t].code = refresh[t].code
             /\ refresh'[t].family = refresh[t].family /\ refresh'[t].used = refresh[t].used
             /\ InFamily(t, f) => refresh'[t].revoked
             /\ ~InFamily(t, f) => refresh'[t].revoked = refresh[t].revoked
    BY <1>1, RevokedEffect DEF OwnersInv
  <1>3. Used \subseteq TokenIds /\ \A t \in Used : refresh[t].revoked \in BOOLEAN
    BY DEF Used, OwnersInv, SignInTypeOK, RefreshRows
  <1>4. TokensStay /\ \A t \in Used : Live(t)' => Live(t)
    BY <1>2, <1>3 DEF TokensStay, Live, Used
  <1>5. /\ \A q \in Slots : q # s => request'[q] = request[q]
        /\ request'[s].pc \in {"free", "rotated"}
        /\ request'[s].pc = "rotated" => /\ request[s].pc = "rotate"
                                         /\ request'[s].token = request[s].token
    BY <1>1 DEF Turn, Free, Rotate, EndFamily, OwnersInv, SignInTypeOK, RequestRows
  <1>6. \A q \in Slots : request'[q].pc \in {"rotate", "rotated"} => FamilyOf(q)' = FamilyOf(q)
    <2> TAKE q \in Slots
    <2> HAVE request'[q].pc \in {"rotate", "rotated"}
    <2>1. request[q].pc \in Refreshing /\ request'[q].token = request[q].token
      BY <1>5 DEF Refreshing
    <2>2. QED  BY <1>4, <2>1, SameFamily
  <1>7. \A g : Rotating(g)' \subseteq Rotating(g)
    BY <1>5, <1>6 DEF Rotating
  <1>8. EndedNotRotating'
    <2>1. ended' \subseteq ended \cup {g \in {f} : Rotating(g) = {}}
      BY DEF Rotate, EndFamily
    <2>2. QED  BY <1>7, <2>1 DEF TokensInv, EndedNotRotating
  <1>9. OneRotates'
    <2> SUFFICES ASSUME NEW q \in Slots, request'[q].pc \in {"rotate", "rotated"},
                        FamilyOf(q)' \notin raced'
                 PROVE  /\ \A r \in Rotating(FamilyOf(q))' : r = q
                        /\ request'[q].pc = "rotated" =>
                             \A u \in Used' : InFamily(u, FamilyOf(q))' => ~Live(u)'
      BY DEF OneRotates
    <2>1. FamilyOf(q)' = FamilyOf(q) /\ request[q].pc \in {"rotate", "rotated"}
      BY <1>5, <1>6
    <2>2. /\ \A r \in Rotating(FamilyOf(q)) : r = q
          /\ request[q].pc = "rotated" => \A u \in Used : InFamily(u, FamilyOf(q)) => ~Live(u)
      BY <1>1, <2>1 DEF TokensInv, OneRotates
    <2>3. Rotating(FamilyOf(q))' \subseteq Rotating(FamilyOf(q))
      BY <1>5, <1>6, <2>1 DEF Rotating
    <2>4. ASSUME request'[q].pc = "rotated", NEW u \in Used, InFamily(u, FamilyOf(q)) PROVE ~Live(u)'
      <3>1. CASE q = s
        BY <1>2, <1>3, <2>4, <3>1 DEF Live
      <3>2. CASE q # s
        BY <1>4, <1>5, <2>2, <2>4, <3>2
      <3>3. QED  BY <3>1, <3>2
    <2>5. \A u \in Used : InFamily(u, FamilyOf(q))' => InFamily(u, FamilyOf(q))
      BY <1>2, <1>3, <2>1 DEF InFamily
    <2>6. QED  BY <1>2, <2>2, <2>3, <2>4, <2>5
  <1>10. EndedStaysEnded'
    <2>1. ended' \subseteq ended \cup {f}
      BY DEF Rotate, EndFamily
    <2>2. \A t \in Used : refresh[t].family \in ended \cup {f} => refresh'[t].revoked
      BY <1>2, <1>3 DEF TokensInv, EndedStaysEnded, InFamily, Used
    <2>3. ASSUME NEW t \in Used', refresh'[t].family \in ended' PROVE refresh'[t].revoked
      <3>1. t \in Used /\ refresh[t].family \in ended \cup {f}
        BY <1>2, <1>3, <2>1, <2>3
      <3>2. QED  BY <2>2, <3>1
    <2>4. QED  BY <2>3 DEF EndedStaysEnded
  <1>11. OneLiveToken'
    BY <1>1, <1>2, <1>3, <1>4 DEF TokensInv, OneLiveToken
  <1>12. QED  BY <1>8, <1>9, <1>10, <1>11 DEF TokensInv

\* A token that is issued: the family it joins has no other live one, and no refresh of it
\* is under way any more; or it is the first of its own.
LEMMA TokensIssue ==
  ASSUME OwnersInv, TokensInv, NEW s \in Slots, Redeem(s) \/ Rotated(s) PROVE TokensInv'
  <1>1. request[s] \in RequestRows /\ Turn(s, Free) /\ ended' = ended /\ raced' = raced
    BY DEF OwnersInv, SignInTypeOK, RequestRows, Redeem, Rotated, Issue
  <1>2. PICK new \in RefreshRows :
          /\ new.used /\ Issue(s, new)
          /\ \/ new.family = 0
             \/ /\ new.family \in Used /\ new.family = FamilyOf(s)
                /\ request[s].pc = "rotated"
    <2>1. CASE Redeem(s)
      <3> DEFINE r == [NoToken EXCEPT !.used = TRUE, !.user = request[s].user,
                                      !.expires = request[s].now + RefreshTtl,
                                      !.code = request[s].code]
      <3>1. request[s].now + RefreshTtl \in Nat
        BY <1>1, SignInAssumption DEF RequestRows
      <3>2. r \in RefreshRows /\ r.used /\ r.family = 0
        BY <1>1, <3>1 DEF NoToken, RefreshRows, RequestRows
      <3>3. Issue(s, r)
        BY <2>1 DEF Redeem
      <3>4. QED  BY <3>2, <3>3
    <2>2. CASE Rotated(s)
      <3> DEFINE t == request[s].token
                 r == [refresh[t] EXCEPT !.revoked = FALSE, !.expires = request[s].now + RefreshTtl]
      <3>1. t \in Used /\ request[s].pc = "rotated" /\ Issue(s, r)
        BY <2>2 DEF Rotated, OwnersInv, RequestsHold, Holds, Refreshing
      <3>2. refresh[t] \in RefreshRows /\ refresh[t].used /\ refresh[t].family \in Used
        BY <3>1 DEF OwnersInv, SignInTypeOK, FamiliesIssued, Used
      <3>3. request[s].now + RefreshTtl \in Nat
        BY <1>1, SignInAssumption DEF RequestRows
      <3>4. r \in RefreshRows /\ r.used /\ r.family = refresh[t].family
        BY <3>2, <3>3 DEF RefreshRows
      <3>5. QED  BY <3>1, <3>2, <3>4 DEF FamilyOf
    <2>3. QED  BY <2>1, <2>2
  <1>3. PICK next \in TokenIds :
          /\ next \notin Used /\ Used' = Used \cup {next}
          /\ refresh' = [refresh EXCEPT ![next] =
               [new EXCEPT !.family = IF new.family = 0 THEN next ELSE new.family]]
    BY <1>2, IssueEffect DEF OwnersInv
  <1> DEFINE f == IF new.family = 0 THEN next ELSE new.family
  <1>4. /\ refresh'[next].family = f
        /\ \A t \in Used : t # next /\ refresh'[t] = refresh[t]
        /\ \A t \in Used : refresh[t].family \in Used
        /\ ended \subseteq Used /\ Used \subseteq TokenIds
    BY <1>2, <1>3 DEF OwnersInv, SignInTypeOK, RefreshRows, Used, FamiliesIssued
  <1>5. TokensStay
    BY <1>3, <1>4 DEF TokensStay
  <1>6. request'[s] = Free /\ \A q \in Slots : q # s => request'[q] = request[q]
    BY <1>1 DEF Turn, OwnersInv, SignInTypeOK
  <1>7. \A q \in Slots : request'[q].pc \in {"rotate", "rotated"} =>
          /\ q # s /\ request'[q] = request[q] /\ FamilyOf(q)' = FamilyOf(q)
          /\ FamilyOf(q) \in Used
    <2> TAKE q \in Slots
    <2> HAVE request'[q].pc \in {"rotate", "rotated"}
    <2>1. q # s /\ request'[q] = request[q] /\ request[q].pc \in Refreshing
      BY <1>6 DEF Free, Refreshing
    <2>2. FamilyOf(q) \in Used
      BY <2>1 DEF OwnersInv, RequestsHold, Holds, FamilyOf, FamiliesIssued
    <2>3. QED  BY <1>5, <2>1, <2>2, SameFamily
  <1>8. \A g : Rotating(g)' \subseteq Rotating(g)
    BY <1>7 DEF Rotating
  <1>9. CASE new.family = 0
    <2>1. f = next /\ f \notin Used
      BY <1>3, <1>9
    <2>2. EndedStaysEnded'
      BY <1>1, <1>3, <1>4, <2>1 DEF TokensInv, EndedStaysEnded
    <2>3. OneLiveToken'
      BY <1>1, <1>3, <1>4, <2>1 DEF TokensInv, OneLiveToken, Live
    <2>4. \A q \in Slots : request'[q].pc \in {"rotate", "rotated"} => FamilyOf(q) # f
      BY <1>7, <2>1
    <2> HIDE DEF f
    <2>5. OneRotates'
      <3> SUFFICES ASSUME NEW q \in Slots, request'[q].pc \in {"rotate", "rotated"},
                          FamilyOf(q)' \notin raced'
                   PROVE  /\ \A r \in Rotating(FamilyOf(q))' : r = q
                          /\ request'[q].pc = "rotated" =>
                               \A u \in Used' : InFamily(u, FamilyOf(q))' => ~Live(u)'
        BY DEF OneRotates
      <3>1. request'[q] = request[q] /\ FamilyOf(q)' = FamilyOf(q) /\ FamilyOf(q) # f
        BY <1>7, <2>4
      <3>2. /\ \A r \in Rotating(FamilyOf(q)) : r = q
            /\ request[q].pc = "rotated" => \A u \in Used : InFamily(u, FamilyOf(q)) => ~Live(u)
        BY <1>1, <3>1 DEF TokensInv, OneRotates
      <3>3. Rotating(FamilyOf(q))' \subseteq Rotating(FamilyOf(q))
        BY <1>7, <3>1 DEF Rotating
      <3>4. \A u \in Used' : InFamily(u, FamilyOf(q))' =>
              u \in Used /\ InFamily(u, FamilyOf(q)) /\ (Live(u)' => Live(u))
        BY <1>3, <1>4, <3>1 DEF InFamily, Live
      <3>5. QED  BY <3>1, <3>2, <3>3, <3>4
    <2>6. EndedNotRotating'
      BY <1>1, <1>8 DEF TokensInv, EndedNotRotating
    <2>7. QED  BY <2>2, <2>3, <2>5, <2>6 DEF TokensInv
  <1>10. CASE new.family # 0
    <2>1. f = FamilyOf(s) /\ request[s].pc = "rotated" /\ s \in Rotating(f)
      BY <1>2, <1>10 DEF Rotating
    <2> HIDE DEF f
    <2>2. f \notin ended
      BY <2>1 DEF TokensInv, EndedNotRotating
    <2>3. EndedStaysEnded'
      BY <1>1, <1>3, <1>4, <2>2 DEF TokensInv, EndedStaysEnded
    <2>4. f \notin raced => /\ \A r \in Rotating(f) : r = s
                            /\ \A t \in Used : InFamily(t, f) => ~Live(t)
      BY <2>1 DEF TokensInv, OneRotates
    <2>5. OneLiveToken'
      <3> SUFFICES ASSUME NEW t \in Used', NEW u \in Used', Live(t)', Live(u)',
                          refresh'[t].family = refresh'[u].family,
                          refresh'[t].family \notin raced'
                   PROVE  t = u
        BY DEF OneLiveToken
      <3>1. ASSUME NEW v \in Used, Live(v)', refresh'[v].family = f, f \notin raced PROVE FALSE
        <4>1. Live(v) /\ InFamily(v, f)
          BY <1>4, <3>1 DEF Live, InFamily
        <4>2. QED  BY <2>4, <3>1, <4>1
      <3>2. CASE t \in Used /\ u \in Used
        BY <1>1, <1>4, <3>2 DEF TokensInv, OneLiveToken, Live
      <3>3. CASE t = next \/ u = next
        BY <1>1, <1>3, <1>4, <3>1, <3>3
      <3>4. QED  BY <1>3, <3>2, <3>3
    <2>6. OneRotates'
      <3> SUFFICES ASSUME NEW q \in Slots, request'[q].pc \in {"rotate", "rotated"},
                          FamilyOf(q)' \notin raced'
                   PROVE  /\ \A r \in Rotating(FamilyOf(q))' : r = q
                          /\ request'[q].pc = "rotated" =>
                               \A u \in Used' : InFamily(u, FamilyOf(q))' => ~Live(u)'
        BY DEF OneRotates
      <3>1. request'[q] = request[q] /\ FamilyOf(q)' = FamilyOf(q) /\ q # s
        BY <1>7
      <3>2. /\ \A r \in Rotating(FamilyOf(q)) : r = q
            /\ request[q].pc = "rotated" => \A u \in Used : InFamily(u, FamilyOf(q)) => ~Live(u)
        BY <1>1, <3>1 DEF TokensInv, OneRotates
      <3>3. FamilyOf(q) # f
        BY <2>1, <3>1, <3>2
      <3>4. Rotating(FamilyOf(q))' \subseteq Rotating(FamilyOf(q))
        BY <1>7, <3>1 DEF Rotating
      <3>5. \A u \in Used' : InFamily(u, FamilyOf(q))' =>
              u \in Used /\ InFamily(u, FamilyOf(q)) /\ (Live(u)' => Live(u))
        BY <1>3, <1>4, <3>1, <3>3 DEF InFamily, Live
      <3>6. QED  BY <3>1, <3>2, <3>4, <3>5
    <2>7. EndedNotRotating'
      BY <1>1, <1>8 DEF TokensInv, EndedNotRotating
    <2>8. QED  BY <2>3, <2>5, <2>6, <2>7 DEF TokensInv
  <1>11. QED  BY <1>9, <1>10

\* Every step keeps what is known about tokens.
LEMMA TokensStep == OwnersInv /\ TokensInv /\ [SignInNext]_signVars => TokensInv'
  <1> SUFFICES ASSUME OwnersInv, TokensInv, [SignInNext]_signVars PROVE TokensInv'
    OBVIOUS
  <1>1. ASSUME NEW s \in Slots, NEW row, Turn(s, row), row.pc \notin {"rotate", "rotated"},
               refresh' = refresh, ended' = ended, raced' = raced
        PROVE  TokensInv'
    <2>1. \A q \in Slots : request'[q].pc \in {"rotate", "rotated"} => request'[q] = request[q]
      BY <1>1 DEF Turn, OwnersInv, SignInTypeOK
    <2>2. QED  BY <1>1, <2>1, QuietStep
  <1>2. ASSUME NEW s \in Slots,
               \/ \E c \in Codes, u \in People : Callback(s, c, u)
               \/ \E c \in Codes : Poll(s, c)
               \/ \E t \in TokenIds : Present(s, t, "find") \/ Present(s, t, "leave")
               \/ PollSelect(s) \/ Leave(s) \/ AskToken(s)
        PROVE  TokensInv'
    <2>1. request[s] \in RequestRows
      BY DEF OwnersInv, SignInTypeOK, RequestRows
    <2>2. refresh' = refresh /\ ended' = ended /\ raced' = raced
      BY <1>2 DEF Callback, Poll, PollSelect, Present, Leave, AskToken, OnlyRequest
    <2>3. ASSUME NEW row, Turn(s, row), row.pc \notin {"rotate", "rotated"} PROVE TokensInv'
      BY <1>1, <2>2, <2>3
    <2>4. ASSUME NEW c \in Codes, NEW u \in People, Callback(s, c, u) PROVE TokensInv'
      BY <2>3, <2>4 DEF Callback, Free
    <2>5. ASSUME NEW c \in Codes, Poll(s, c) PROVE TokensInv'
      BY <2>3, <2>5 DEF Poll, Free
    <2>6. ASSUME NEW t \in TokenIds, Present(s, t, "find") \/ Present(s, t, "leave")
          PROVE  TokensInv'
      BY <2>3, <2>6 DEF Present, Free
    <2>7. CASE PollSelect(s)
      BY <2>1, <2>3, <2>7 DEF PollSelect, RequestRows
    <2>8. CASE Leave(s)
      BY <2>1, <2>3, <2>8 DEF Leave, RequestRows
    <2>9. CASE AskToken(s)
      BY <2>3, <2>9 DEF AskToken, Free
    <2>10. QED  BY <1>2, <2>4, <2>5, <2>6, <2>7, <2>8, <2>9
  <1>3. ASSUME NEW s \in Slots, CheckSecret(s) \/ Sign(s) \/ Authorize(s) PROVE TokensInv'
    <2>1. request[s] \in RequestRows
      BY DEF OwnersInv, SignInTypeOK, RequestRows
    <2>2. refresh' = refresh /\ ended' = ended /\ raced' = raced
      BY <1>3 DEF CheckSecret, Sign, Authorize, OnlyRequest
    <2>3. \E row \in {Free, [request[s] EXCEPT !.pc = "sign"]} : Turn(s, row)
      BY <1>3 DEF CheckSecret, Sign, Authorize
    <2>4. QED  BY <1>1, <2>1, <2>2, <2>3 DEF Free, RequestRows
  <1>4. ASSUME NEW s \in Slots, PollUpdate(s) PROVE TokensInv'
    <2>1. request[s] \in RequestRows
      BY DEF OwnersInv, SignInTypeOK, RequestRows
    <2>2. refresh' = refresh /\ ended' = ended /\ raced' = raced
      BY <1>4 DEF PollUpdate
    <2>3. \E row \in {Free, [request[s] EXCEPT !.pc = "redeem", !.user = request[s].seen.user,
                                               !.seen = Nobody]} : Turn(s, row)
      BY <1>4, Zenon DEF PollUpdate
    <2>4. QED  BY <1>1, <2>1, <2>2, <2>3 DEF Free, RequestRows
  <1>5. CASE (\E c \in Codes : StartDevice(c) \/ OpenPage(c)) \/ Toggle \/ SignTick
    BY <1>5, QuietStep DEF StartDevice, OpenPage, Toggle, SignTick
  <1>6. CASE GatewayStops
    BY <1>6, QuietStep DEF GatewayStops, OnlyRequest, Free
  <1>7. CASE UNCHANGED signVars
    BY <1>7, QuietStep DEF signVars
  <1>8. QED
    BY <1>2, <1>3, <1>4, <1>5, <1>6, <1>7, TokensFind, TokensRevoke, TokensIssue
    DEF SignInNext, DeviceStep, RefreshStep, ProgramStep

-----------------------------------------------------------------------------
\* A step of a request that signs nothing: its clock is not ahead, and what may be signed
\* has been checked against the account as it is.
LEMMA QuietProgram ==
  ASSUME SignInTypeOK, ProgramsInv,
         UNCHANGED <<signTime, account, disabledAt, bearerUntil>>,
         \A q \in Slots :
           \/ request'[q] = request[q]
           \/ request'[q].now <= signTime /\ request'[q].pc # "sign"
           \/ /\ request'[q].now = request[q].now
              /\ account.enabled /\ request[q].now < account.expires
  PROVE  ProgramsInv'
  BY DEF ProgramsInv, ProgramsInTime, DisabledRunsOut, SignInTypeOK, RequestRows

\* Every step keeps what is known about programs.
LEMMA ProgramsStep == SignInTypeOK /\ ProgramsInv /\ [SignInNext]_signVars => ProgramsInv'
  <1> SUFFICES ASSUME SignInTypeOK, ProgramsInv, [SignInNext]_signVars PROVE ProgramsInv'
    OBVIOUS
  <1>1. /\ request \in [Slots -> RequestRows] /\ signTime \in Nat /\ disabledAt \in Nat
        /\ bearerUntil \in Nat /\ account \in [enabled: BOOLEAN, expires: Nat]
        /\ \A q \in Slots : request[q].now \in Nat /\ request[q].now <= signTime
    BY DEF SignInTypeOK, RequestRows, ProgramsInv, ProgramsInTime
  <1>2. ASSUME NEW s \in Slots, People_, NEW row, Turn(s, row), row.pc # "sign",
               row.now <= signTime
        PROVE  ProgramsInv'
    <2>1. \A q \in Slots : request'[q] = IF q = s THEN row ELSE request[q]
      BY <1>1, <1>2 DEF Turn
    <2>2. QED  BY <1>2, <2>1, QuietProgram DEF People_
  <1>3. ASSUME NEW s \in Slots, People_, NEW pc \in Pcs \ {"sign"},
               Turn(s, Free) \/ Turn(s, [request[s] EXCEPT !.pc = pc])
        PROVE  ProgramsInv'
    BY <1>1, <1>2, <1>3 DEF Free, RequestRows
  <1>4. ASSUME NEW s \in Slots, DeviceStep(s) PROVE ProgramsInv'
    <2>1. People_
      BY <1>4 DEF DeviceStep, Callback, Authorize, Poll, PollSelect, PollUpdate, Redeem, Issue,
                  OnlyRequest, People_
    <2>2. ASSUME NEW c \in Codes, NEW u \in People, Callback(s, c, u) PROVE ProgramsInv'
      <3> DEFINE row == [Free EXCEPT !.pc = "authorize", !.code = c, !.user = u]
      <3>1. Turn(s, row) /\ row.pc = "authorize" /\ row.now <= signTime
        BY <1>1, <2>2 DEF Callback, Free
      <3> HIDE DEF row
      <3>2. QED  BY <1>2, <2>1, <3>1
    <2>3. CASE Authorize(s) \/ Redeem(s)
      <3>1. Turn(s, Free)
        BY <2>3 DEF Authorize, Redeem, Issue
      <3>2. QED  BY <1>1, <1>2, <2>1, <3>1 DEF Free
    <2>4. ASSUME NEW c \in Codes, Poll(s, c) PROVE ProgramsInv'
      <3> DEFINE row == [Free EXCEPT !.pc = "poll", !.code = c, !.now = signTime]
      <3>1. Turn(s, row) /\ row.pc = "poll" /\ row.now <= signTime
        BY <1>1, <2>4 DEF Poll, Free
      <3> HIDE DEF row
      <3>2. QED  BY <1>2, <2>1, <3>1
    <2>5. CASE PollSelect(s)
      <3> DEFINE row == [request[s] EXCEPT !.pc = "polled", !.seen = device[request[s].code]]
      <3>1. Turn(s, row) /\ row.pc = "polled" /\ row.now = request[s].now
        BY <1>1, <2>5 DEF PollSelect, RequestRows
      <3>2. QED  BY <1>1, <1>2, <2>1, <3>1
    <2>6. CASE PollUpdate(s)
      <3> DEFINE row == [request[s] EXCEPT !.pc = "redeem", !.user = request[s].seen.user,
                                           !.seen = Nobody]
      <3>1. Turn(s, Free) \/ Turn(s, row)
        BY <2>6, Zenon DEF PollUpdate
      <3>2. row.pc = "redeem" /\ row.now = request[s].now
        BY <1>1 DEF RequestRows
      <3>3. CASE Turn(s, Free)
        BY <1>1, <1>2, <2>1, <3>3 DEF Free
      <3>4. CASE Turn(s, row)
        BY <1>1, <1>2, <2>1, <3>2, <3>4
      <3>5. QED  BY <3>1, <3>3, <3>4
    <2>7. QED  BY <1>4, <2>2, <2>3, <2>4, <2>5, <2>6 DEF DeviceStep
  <1>5. ASSUME NEW s \in Slots, RefreshStep(s) PROVE ProgramsInv'
    <2>1. People_
      BY <1>5 DEF RefreshStep, Present, Find, Rotate, Rotated, Leave, EndFamily, Issue,
                  OnlyRequest, People_
    <2>2. ASSUME NEW t \in TokenIds, NEW pc \in {"find", "leave"}, Present(s, t, pc)
          PROVE  ProgramsInv'
      <3> DEFINE row == [Free EXCEPT !.pc = pc, !.token = t, !.now = signTime]
      <3>1. Turn(s, row) /\ row.pc = pc /\ row.now <= signTime /\ pc # "sign"
        BY <1>1, <2>2 DEF Present, Free
      <3> HIDE DEF row
      <3>2. QED  BY <1>2, <2>1, <3>1
    <2>3. CASE Find(s) \/ Rotate(s) \/ Leave(s) \/ Rotated(s) \/ EndFamily(s)
      <3>1. \E pc \in {"reused", "rotate", "rotated", "end"} :
              Turn(s, Free) \/ Turn(s, [request[s] EXCEPT !.pc = pc])
        BY <2>3 DEF Find, Rotate, Leave, Rotated, EndFamily, Issue
      <3>2. QED  BY <1>3, <2>1, <3>1 DEF Pcs
    <2>4. QED  BY <1>5, <2>2, <2>3 DEF RefreshStep
  <1>6. ASSUME NEW s \in Slots, ProgramStep(s) PROVE ProgramsInv'
    <2>1. CASE AskToken(s)
      <3> DEFINE row == [Free EXCEPT !.pc = "secret", !.now = signTime]
      <3>1. Turn(s, row) /\ row.pc = "secret" /\ row.now <= signTime /\ People_
        BY <1>1, <2>1 DEF AskToken, Free, OnlyRequest, People_
      <3> HIDE DEF row
      <3>2. QED  BY <1>2, <3>1
    <2>2. CASE CheckSecret(s) /\ ~Turn(s, Free)
      <3>1. /\ request' = [request EXCEPT ![s] = [request[s] EXCEPT !.pc = "sign"]]
            /\ account.enabled /\ request[s].now < account.expires
            /\ UNCHANGED <<signTime, account, disabledAt, bearerUntil>>
        BY <2>2 DEF CheckSecret, OnlyRequest, Turn
      <3>2. [request[s] EXCEPT !.pc = "sign"].now = request[s].now
        BY <1>1 DEF RequestRows
      <3>3. QED  BY <1>1, <3>1, <3>2, QuietProgram
    <2>3. CASE CheckSecret(s) /\ Turn(s, Free)
      BY <1>1, <1>2, <2>3 DEF CheckSecret, Free, OnlyRequest, People_
    <2>4. CASE Sign(s)
      <3>1. /\ request'[s] = Free /\ \A q \in Slots : q # s => request'[q] = request[q]
            /\ UNCHANGED <<signTime, account, disabledAt>>
            /\ bearerUntil' \in {bearerUntil, request[s].now + AccessTtl}
            /\ request[s].pc = "sign"
        BY <1>1, <2>4 DEF Sign, Turn
      <3>2. /\ request[s].now < account.expires /\ request[s].now <= signTime
            /\ ~account.enabled => request[s].now <= disabledAt
        BY <3>1 DEF ProgramsInv, ProgramsInTime
      <3>3. ProgramsInTime'
        BY <1>1, <3>1, <3>2, SignInAssumption DEF ProgramsInv, ProgramsInTime, Free
      <3>4. DisabledRunsOut'
        BY <1>1, <3>1, <3>2, SignInAssumption DEF ProgramsInv, DisabledRunsOut
      <3>5. QED  BY <3>3, <3>4 DEF ProgramsInv
    <2>5. QED  BY <1>6, <2>1, <2>2, <2>3, <2>4 DEF ProgramStep
  <1>7. CASE Toggle
    <2>1. /\ account'.enabled = ~account.enabled /\ account'.expires = account.expires
          /\ disabledAt' = IF account.enabled THEN signTime ELSE disabledAt
          /\ UNCHANGED <<signTime, request, bearerUntil>>
      BY <1>1, <1>7 DEF Toggle
    <2>2. QED
      BY <1>1, <2>1, SignInAssumption DEF ProgramsInv, ProgramsInTime, DisabledRunsOut
  <1>8. CASE SignTick
    BY <1>1, <1>8, SignInAssumption DEF SignTick, ProgramsInv, ProgramsInTime, DisabledRunsOut
  <1>9. CASE GatewayStops
    BY <1>1, <1>9, QuietProgram DEF GatewayStops, OnlyRequest, Free
  <1>10. CASE (\E c \in Codes : StartDevice(c) \/ OpenPage(c)) \/ UNCHANGED signVars
    BY <1>10, QuietProgram DEF StartDevice, OpenPage, People_, signVars
  <1>11. QED
    BY <1>4, <1>5, <1>6, <1>7, <1>8, <1>9, <1>10 DEF SignInNext

\* Neither is there a token to end at first ...
LEMMA TokensInit == SignInInit => TokensInv
  BY DEF SignInInit, TokensInv, EndedNotRotating, OneRotates, EndedStaysEnded, OneLiveToken,
         Used, Live, NoToken, Free

\* ... nor one of a program.
LEMMA ProgramsInit == SignInInit => ProgramsInv
  BY SignInAssumption DEF SignInInit, ProgramsInv, ProgramsInTime, DisabledRunsOut, Free

\* Refresh families that were ended stay ended, a family that is not refreshed twice at once
\* has one live token, and a disabled program runs out of access tokens.
THEOREM CredentialsComeToTheirEnd == SignInSpec => []CredentialsEnd
  <1>1. OwnersInv => SignInTypeOK
    BY DEF OwnersInv
  <1>2. TokensInv /\ ProgramsInv => CredentialsEnd
    BY DEF TokensInv, ProgramsInv, CredentialsEnd
  <1>3. QED
    BY <1>1, <1>2, OwnersInit, TokensInit, ProgramsInit, OwnersStep, TokensStep, ProgramsStep, PTL
       DEF SignInSpec

-----------------------------------------------------------------------------
(* What MCAccess runs *)

\* The tables in which one token was issued satisfy all that is known about signing in.
LEMMA IssuedInv ==
  ASSUME Issued, c1 \in Codes, u1 \in People, MaxTokens # 0
  PROVE  OwnersInv /\ TokensInv /\ ProgramsInv
  <1> USE SignInAssumption
  <1> DEFINE token == [used |-> TRUE, user |-> u1, family |-> 1, code |-> c1,
                       revoked |-> FALSE, expires |-> RefreshTtl]
             bound == [status |-> "authorized", user |-> u1, expires |-> CodeTtl,
                       polled |-> 0, page |-> TRUE]
             unused == [status |-> "none", user |-> Nobody, expires |-> 0, polled |-> -1,
                        page |-> FALSE]
  <1>1. /\ signTime = 0 /\ device = [c \in Codes |-> IF c = c1 THEN bound ELSE unused]
        /\ refresh = [t \in TokenIds |-> IF t = 1 THEN token ELSE NoToken]
        /\ request = [s \in Slots |-> Free] /\ ended = {} /\ raced = {}
        /\ account = [enabled |-> TRUE, expires |-> MaxSignTime]
        /\ disabledAt = 0 /\ bearerUntil = 0
    BY DEF Issued
  <1>2. 1 \in TokenIds
    BY DEF TokenIds
  <1>3. token \in RefreshRows /\ NoToken \in RefreshRows /\ token.used /\ ~NoToken.used
    BY <1>2 DEF RefreshRows, NoToken
  <1>4. bound \in DeviceRows /\ unused \in DeviceRows
    BY DEF DeviceRows
  <1>5. Free \in RequestRows
    BY FreshRequest DEF Free, Pcs
  <1>6. /\ bound.status = "authorized" /\ bound.user = u1 /\ unused.user = Nobody
        /\ token.user = u1 /\ token.family = 1 /\ token.code = c1 /\ ~token.revoked
    OBVIOUS
  <1> HIDE DEF bound, unused, token
  <1>7. Used = {1}
    BY <1>1, <1>2, <1>3 DEF Used
  <1>8. refresh[1] = token /\ device[c1] = bound
    BY <1>1, <1>2
  <1>9. SignInTypeOK
    BY <1>1, <1>3, <1>4, <1>5 DEF SignInTypeOK, RequestRows
  <1>10. OwnersAuthorized
    BY <1>1, <1>6 DEF OwnersAuthorized, OwnedBy
  <1>11. IdsInOrder
    <2>1. Used = 1..1 /\ 1 \in 0..MaxTokens
      BY <1>7
    <2>2. QED  BY <2>1 DEF IdsInOrder
  <1>12. SessionsOwned /\ FamiliesIssued /\ RequestsHold
    BY <1>1, <1>6, <1>7, <1>8
       DEF SessionsOwned, OwnedBy, FamiliesIssued, RequestsHold, Holds, Free, Refreshing
  <1>13. TokensInv
    BY <1>1, <1>7
       DEF TokensInv, EndedNotRotating, OneRotates, EndedStaysEnded, OneLiveToken, Free
  <1>14. ProgramsInv
    BY <1>1 DEF ProgramsInv, ProgramsInTime, DisabledRunsOut, Free
  <1>15. QED  BY <1>9, <1>10, <1>11, <1>12, <1>13, <1>14 DEF OwnersInv

\* A token may be out when the run begins; nothing else differs from the components' starts.
LEMMA AccessStarts ==
  ASSUME c1 \in Codes, u1 \in People, MaxTokens # 0
  PROVE  AccessInit => Init /\ OwnersInv /\ TokensInv /\ ProgramsInv
  <1> SUFFICES ASSUME AccessInit PROVE Init /\ OwnersInv /\ TokensInv /\ ProgramsInv
    OBVIOUS
  <1>1. Init /\ (Issued \/ SignInInit)
    BY DEF AccessInit, GateStart, SignStart
  <1>2. QED  BY <1>1, IssuedInv, OwnersInit, TokensInit, ProgramsInit

\* A step of the run is a step of the gate or of signing in, which the other does not see.
LEMMA ClientsStep ==
  [AccessNext]_<<focus, gateVars, signVars>> => [Next]_vars /\ [SignInNext]_signVars
  <1>1. SignMove => SignInNext
    BY DEF SignMove, SignInNext
  <1>2. QED  BY <1>1 DEF AccessNext, gateVars

\* The run looks at behaviours of the gate, and at behaviours of signing in that may begin
\* with a token out: what is proved of both holds of them, and every variable keeps its type.
THEOREM ClientsRunTheirParts ==
  ASSUME c1 \in Codes, u1 \in People, MaxTokens # 0
  PROVE  AccessSpec => Spec /\ []ClientsTypeOK /\ []OneIdentityPerCode /\ []CredentialsEnd
  <1>1. AccessSpec => Spec
    BY AccessStarts, ClientsStep, PTL DEF AccessSpec, Spec
  <1>2. AccessSpec => [](SignInTypeOK /\ OneIdentityPerCode /\ CredentialsEnd)
    <2>1. OwnersInv => SignInTypeOK /\ OneIdentityPerCode
      BY DEF OwnersInv, SessionsOwned, OwnedBy, OneIdentityPerCode
    <2>2. TokensInv /\ ProgramsInv => CredentialsEnd
      BY DEF TokensInv, ProgramsInv, CredentialsEnd
    <2>3. QED
      BY <2>1, <2>2, AccessStarts, ClientsStep, OwnersStep, TokensStep, ProgramsStep, PTL
         DEF AccessSpec
  <1>3. AccessTypeOK /\ SignInTypeOK => ClientsTypeOK
    BY DEF ClientsTypeOK
  <1>4. QED  BY <1>1, <1>2, <1>3, AnswersRestOnTheirRequest, PTL
=============================================================================
