----------------------- MODULE ConsoleAccountsProofs -----------------------
(***************************************************************************)
(* Proofs about ConsoleAccounts for any number of accounts, passwords,     *)
(* requests that overlap and sessions, and any lifetimes.                  *)
(***************************************************************************)
EXTENDS ConsoleAccounts, FiniteSetTheorems, TLAPS

-----------------------------------------------------------------------------
\* Sessions that were ever issued, in the order of their ids.
Issued == {i \in SessionIds : session[i].used}
IdsInOrder == \E n \in 0..MaxSessions : Issued = 1..n

\* An account that exists or did: its id is taken.
Known(a) == a \in Admins /\ (admin[a].exists \/ admin[a].gone)

\* Sessions belong to accounts whose ids are taken.
SessionsKnown ==
  \A i \in SessionIds : /\ session[i].exists => session[i].used
                        /\ session[i].used => Known(session[i].admin)

\* What a request holds is still so: the account and password it logs in with, the session
\* its cookie named, and that a session it will renew is a long one.
OfCookie == DeskPcs \ {"free", "login", "issue"}
OfPassword == {"recheck", "repass", "revokeOthers"}
OfAccounts == {"insert", "lookup", "lastAdmin", "remove", "revokeAll", "promoted"}
DeskHolds(r) ==
  /\ r.pc = "issue" => Known(r.self) /\ r.password \in Passwords
  /\ r.pc \in OfCookie => r.session \in Issued
  /\ r.pc \in OfCookie \ {"session"} => Known(r.self)
  /\ r.pc \in OfPassword => r.errand = "password"
  /\ r.pc \in OfAccounts => r.errand \in Writes
  /\ r.pc \in OfCookie /\ r.errand \in Writes => r.target \in Admins
  /\ r.pc \in OfCookie /\ r.errand # "read" => r.password \in Passwords
  /\ r.pc \in OfCookie /\ r.touch => session[r.session].remember
  /\ r.pc = "touch" => r.touch
DesksHold == \A d \in Desks : DeskHolds(desk[d])

\* The inductive invariant of sessions.
SessionsInv == /\ ConsoleTypeOK /\ IdsInOrder /\ SessionsKnown /\ DesksHold
               /\ SessionsKeepTheirWord

\* As long as no two removals overlapped one at most is decided upon, and somebody besides
\* its target is an administrator.
RemovalsApart ==
  ~crossed =>
    \A d \in Desks : At(d, "remove") =>
      /\ \A e \in Desks : At(e, "remove") => e = d
      /\ \E b \in Administrators : b # desk[d].target

\* The inductive invariant of administrators.
AdminsInv == AdminRemains /\ RemovalsApart

-----------------------------------------------------------------------------
\* The records of requests.
DeskRows == [pc: DeskPcs, errand: Errands, session: SessionIds \cup {0}, now: Nat,
             self: Admins \cup {NoAdmin}, target: Admins \cup {NoAdmin},
             password: Passwords \cup {NoAdmin}, remember: BOOLEAN, touch: BOOLEAN]

\* A desk that is free.
LEMMA FreeRow == FreeDesk \in DeskRows /\ FreeDesk.pc = "free"
  BY DEF FreeDesk, DeskRows, DeskPcs, Errands, OwnErrands, Writes

\* Where a request goes once its identity stands fits what it was sent for.
LEMMA AfterFacts ==
  ASSUME NEW r \in DeskRows, NEW role \in Roles
  PROVE  /\ After(r, role) \in {"free", "recheck", "insert", "lastAdmin", "lookup"}
         /\ After(r, role) = "recheck" => r.errand = "password"
         /\ After(r, role) \in {"insert", "lastAdmin", "lookup"} => r.errand \in Writes
  <1>1. r.errand \in {"read", "password", "create", "delete", "demote", "promote"}
    BY DEF DeskRows, Errands, OwnErrands, Writes
  <1>2. CASE r.errand = "read"
    BY <1>2 DEF After, Writes
  <1>3. CASE r.errand = "password"
    BY <1>3 DEF After, Writes
  <1>4. CASE r.errand \in Writes /\ role # "admin"
    BY <1>4 DEF After, Writes
  <1>5. CASE r.errand = "create" /\ role = "admin"
    BY <1>5 DEF After, Writes
  <1>6. CASE r.errand = "delete" /\ role = "admin"
    BY <1>6 DEF After, Writes
  <1>7. CASE r.errand \in {"demote", "promote"} /\ role = "admin"
    BY <1>7 DEF After, Writes
  <1>8. QED  BY <1>1, <1>2, <1>3, <1>4, <1>5, <1>6, <1>7 DEF Writes

-----------------------------------------------------------------------------
\* An id that was taken stays taken; a session that was issued keeps its account and length.
AccountsStay == \A a \in Admins : Known(a) => Known(a)'
SessionsStay ==
  /\ Issued \subseteq Issued'
  /\ \A i \in Issued : /\ session'[i].admin = session[i].admin
                       /\ session'[i].remember = session[i].remember

\* Where the tables stay, so do both.
LEMMA AdminSame == ASSUME UNCHANGED admin PROVE AccountsStay
  BY DEF AccountsStay, Known
LEMMA SessionSame == ASSUME UNCHANGED session PROVE SessionsStay /\ Issued' = Issued
  BY DEF SessionsStay, Issued

\* What a request holds outlives the steps of others.
LEMMA HoldsStay ==
  ASSUME AccountsStay, SessionsStay, NEW d \in Desks, DeskHolds(desk[d]), desk'[d] = desk[d]
  PROVE  DeskHolds(desk[d])'
  <1>1. ASSUME NEW a, Known(a) PROVE Known(a)'
    BY <1>1 DEF AccountsStay, Known
  <1>2. QED
    BY <1>1 DEF DeskHolds, SessionsStay, OfCookie

\* A step of one request keeps what all of them hold.
LEMMA OthersHold ==
  ASSUME DesksHold, AccountsStay, SessionsStay, NEW d \in Desks,
         \A e \in Desks : e # d => desk'[e] = desk[e], DeskHolds(desk[d])'
  PROVE  DesksHold'
  BY HoldsStay DEF DesksHold

\* What Move does.
LEMMA Moved ==
  ASSUME ConsoleTypeOK, NEW d \in Desks, NEW row \in DeskRows, Move(d, row)
  PROVE  /\ desk' \in [Desks -> DeskRows] /\ desk'[d] = row
         /\ \A e \in Desks : e # d => desk'[e] = desk[e]
  BY DEF ConsoleTypeOK, Move, DeskRows

\* A free desk holds nothing.
LEMMA FreeHolds == ASSUME NEW d, desk'[d] = FreeDesk PROVE DeskHolds(desk[d])'
  BY FreeRow DEF DeskHolds, OfCookie, OfPassword, OfAccounts

-----------------------------------------------------------------------------
\* A step of one request that writes neither table.
LEMMA DeskOnly ==
  ASSUME SessionsInv, UNCHANGED <<deskTime, admin, session, swept, kept>>, crossed' \in BOOLEAN,
         NEW d \in Desks, NEW row \in DeskRows, Move(d, row), DeskHolds(desk[d])'
  PROVE  SessionsInv'
  <1>1. AccountsStay /\ SessionsStay /\ Issued' = Issued
    BY AdminSame, SessionSame
  <1>2. /\ desk' \in [Desks -> DeskRows] /\ \A e \in Desks : e # d => desk'[e] = desk[e]
    BY Moved DEF SessionsInv
  <1>3. DesksHold'
    BY <1>1, <1>2, OthersHold DEF SessionsInv
  <1>4. ConsoleTypeOK'
    BY <1>2 DEF SessionsInv, ConsoleTypeOK, DeskRows
  <1>5. IdsInOrder' /\ SessionsKnown' /\ SessionsKeepTheirWord'
    BY <1>1 DEF SessionsInv, IdsInOrder, SessionsKnown, Known, SessionsKeepTheirWord,
                ShortSessionsEnd, OldPasswordsOut
  <1>6. QED  BY <1>3, <1>4, <1>5 DEF SessionsInv

\* Requests come in and read.
LEMMA SessionsReads ==
  ASSUME SessionsInv, NEW d \in Desks,
         \/ \E a \in Admins, p \in Passwords, remember \in BOOLEAN : Login(d, a, p, remember)
         \/ \E i \in SessionIds : Request(d, "read", i, NoAdmin, NoAdmin)
         \/ \E i \in SessionIds, p \in Passwords : Request(d, "password", i, NoAdmin, p)
         \/ \E i \in SessionIds, e \in Writes, a \in Admins, p \in Passwords : Request(d, e, i, a, p)
         \/ FindSession(d) \/ FindAccount(d) \/ FindTarget(d) \/ LastAdmin(d) \/ Recheck(d)
  PROVE  SessionsInv'
  <1>1. /\ UNCHANGED <<deskTime, admin, session, swept, kept>> /\ crossed' \in BOOLEAN
    BY DEF SessionsInv, ConsoleTypeOK, Login, Request, FindSession, FindAccount, FindTarget,
           LastAdmin, Recheck, Rest
  <1>2. /\ desk[d] \in DeskRows /\ DeskHolds(desk[d]) /\ deskTime \in Nat
        /\ admin \in [Admins -> AdminRows] /\ session \in [SessionIds -> SessionRows]
    BY DEF SessionsInv, ConsoleTypeOK, DeskRows, DesksHold
  <1>3. /\ Issued' = Issued /\ AccountsStay
        /\ \A a : Known(a)' <=> Known(a)
    BY <1>1, SessionSame, AdminSame DEF Known
  <1>4. ASSUME NEW row \in DeskRows, Move(d, row), DeskHolds(desk[d])' PROVE SessionsInv'
    BY <1>1, <1>4, DeskOnly
  <1>5. ASSUME NEW row \in DeskRows, Move(d, row) PROVE desk'[d] = row
    BY <1>5, Moved DEF SessionsInv
  <1>6. CASE Move(d, FreeDesk)
    BY <1>4, <1>5, <1>6, FreeRow, FreeHolds
  <1>7. ASSUME NEW a \in Admins, NEW p \in Passwords, NEW remember \in BOOLEAN,
               Login(d, a, p, remember)
        PROVE  SessionsInv'
    <2> DEFINE row == [FreeDesk EXCEPT !.pc = "issue", !.self = a, !.password = p,
                                       !.remember = remember]
    <2>1. row \in DeskRows /\ Move(d, row) /\ row.pc = "issue" /\ row.self = a /\ row.password = p
      BY <1>7, FreeRow DEF Login, DeskRows, DeskPcs
    <2>2. Known(a)
      BY <1>7 DEF Login, Known
    <2> HIDE DEF row
    <2>3. DeskHolds(desk[d])'
      BY <1>3, <1>5, <2>1, <2>2 DEF DeskHolds, OfCookie, OfPassword, OfAccounts
    <2>4. QED  BY <1>4, <2>1, <2>3
  <1>8. ASSUME NEW e \in Errands, NEW i \in SessionIds, NEW a \in Admins \cup {NoAdmin},
               NEW p \in Passwords \cup {NoAdmin}, Request(d, e, i, a, p),
               e \in Writes => a \in Admins, e # "read" => p \in Passwords
        PROVE  SessionsInv'
    <2> DEFINE row == [FreeDesk EXCEPT !.pc = "session", !.errand = e, !.session = i,
                                       !.target = a, !.password = p, !.now = deskTime]
    <2>1. /\ row \in DeskRows /\ Move(d, row) /\ row.pc = "session" /\ row.errand = e
          /\ row.session = i /\ row.target = a /\ row.password = p /\ ~row.touch
      BY <1>2, <1>8 DEF FreeDesk, Request, DeskRows, DeskPcs
    <2>2. i \in Issued
      BY <1>8 DEF Request, Issued
    <2> HIDE DEF row
    <2>3. DeskHolds(desk[d])'
      BY <1>3, <1>5, <1>8, <2>1, <2>2 DEF DeskHolds, OfCookie, OfPassword, OfAccounts
    <2>4. QED  BY <1>4, <2>1, <2>3
  <1>9. CASE FindSession(d) /\ ~Move(d, FreeDesk)
    <2> DEFINE s == session[desk[d].session]
               touch == s.expires - s.created >= LongTtl /\ s.expires - desk[d].now < Threshold
               row == [desk[d] EXCEPT !.pc = "account", !.self = s.admin, !.touch = touch]
    <2>1. /\ desk[d].pc = "session" /\ desk[d].session \in Issued /\ Move(d, row)
      BY <1>2, <1>9 DEF FindSession, DeskHolds, OfCookie, DeskPcs, At
    <2>2. s \in SessionRows /\ s.used /\ Known(s.admin)
      BY <1>2, <2>1 DEF Issued, SessionsInv, SessionsKnown
    <2>3. touch => s.remember
      BY SMTT(20), <1>2, <2>1, <2>2, ConsoleAssumption
      DEF SessionsInv, SessionsKeepTheirWord, ShortSessionsEnd, SessionRows, Issued
    <2> HIDE DEF touch
    <2>4. touch \in BOOLEAN
      BY DEF touch
    <2>5. /\ row \in DeskRows /\ row.pc = "account" /\ row.self = s.admin /\ row.touch = touch
          /\ row.errand = desk[d].errand /\ row.session = desk[d].session
          /\ row.target = desk[d].target /\ row.password = desk[d].password
      BY <1>2, <2>2, <2>4 DEF DeskRows, DeskPcs, Known
    <2> HIDE DEF row
    <2>6. desk'[d] = row /\ session' = session
      BY <1>1, <1>5, <2>1, <2>5
    <2>7. DeskHolds(desk[d])'
      BY <1>2, <1>3, <2>1, <2>2, <2>3, <2>5, <2>6
      DEF DeskHolds, OfCookie, OfPassword, OfAccounts, DeskPcs
    <2>8. QED  BY <1>4, <2>1, <2>5, <2>7
  <1>10. CASE FindAccount(d) /\ ~Move(d, FreeDesk)
    <2>1. /\ desk[d].pc = "account" /\ desk[d].session \in Issued /\ Known(desk[d].self)
      BY <1>2, <1>10 DEF FindAccount, DeskHolds, OfCookie, DeskPcs, At
    <2> DEFINE next == After(desk[d], admin[desk[d].self].role)
               chief == admin[desk[d].self].role = "admin"
    <2>2. admin[desk[d].self].role \in Roles
      BY <1>2, <2>1 DEF Known, AdminRows
    <2>3. CASE desk[d].touch
      <3> DEFINE row == [desk[d] EXCEPT !.pc = "touch", !.remember = chief]
      <3>1. Move(d, row)
        BY <1>10, <2>3 DEF FindAccount
      <3> HIDE DEF chief
      <3>2. chief \in BOOLEAN
        BY DEF chief
      <3>3. /\ row \in DeskRows /\ row.pc = "touch" /\ row.touch = desk[d].touch
            /\ row.errand = desk[d].errand /\ row.session = desk[d].session
            /\ row.self = desk[d].self /\ row.target = desk[d].target
            /\ row.password = desk[d].password
        BY <1>2, <3>2 DEF DeskRows, DeskPcs
      <3> HIDE DEF row
      <3>4. DeskHolds(desk[d])'
        BY <1>1, <1>2, <1>3, <1>5, <2>1, <2>3, <3>1, <3>3
        DEF DeskHolds, OfCookie, OfPassword, OfAccounts, DeskPcs
      <3>5. QED  BY <1>4, <3>1, <3>3, <3>4
    <2>4. CASE ~desk[d].touch
      <3> DEFINE row == [desk[d] EXCEPT !.pc = next]
      <3> HIDE DEF next
      <3>1. /\ next \in {"free", "recheck", "insert", "lastAdmin", "lookup"}
            /\ next = "recheck" => desk[d].errand = "password"
            /\ next \in {"insert", "lastAdmin", "lookup"} => desk[d].errand \in Writes
        BY <1>2, <2>2, AfterFacts DEF next
      <3>2. Move(d, IF row.pc = "free" THEN FreeDesk ELSE row)
        BY <1>10, <2>4 DEF FindAccount, Proceed, next
      <3>3. /\ row \in DeskRows /\ row.pc = next /\ row.errand = desk[d].errand
            /\ row.session = desk[d].session /\ row.self = desk[d].self
            /\ row.target = desk[d].target /\ row.password = desk[d].password
            /\ row.touch = desk[d].touch
        <4>1. next \in DeskPcs
          BY <3>1 DEF DeskPcs
        <4>2. QED  BY <1>2, <4>1 DEF DeskRows
      <3> HIDE DEF row
      <3>4. Move(d, row)
        BY <1>10, <3>2
      <3>5. DeskHolds(desk[d])'
        BY <1>1, <1>2, <1>3, <1>5, <2>1, <2>4, <3>1, <3>3, <3>4
        DEF DeskHolds, OfCookie, OfPassword, OfAccounts, DeskPcs
      <3>6. QED  BY <1>4, <3>3, <3>4, <3>5
    <2>5. QED  BY <2>3, <2>4
  <1>11. ASSUME NEW pc \in {"lastAdmin", "promoted", "remove", "repass"}, On(d, pc),
                \/ desk[d].pc \in {"lookup", "lastAdmin"} /\ pc # "repass"
                \/ desk[d].pc = "recheck" /\ pc = "repass"
         PROVE  SessionsInv'
    <2> DEFINE row == [desk[d] EXCEPT !.pc = pc]
    <2>1. /\ row \in DeskRows /\ row.pc = pc /\ row.errand = desk[d].errand
          /\ row.session = desk[d].session /\ row.self = desk[d].self
          /\ row.target = desk[d].target /\ row.password = desk[d].password
          /\ row.touch = desk[d].touch /\ Move(d, row)
      <3>1. pc \in DeskPcs
        BY DEF DeskPcs
      <3>2. QED  BY <1>2, <1>11, <3>1 DEF DeskRows, On
    <2> HIDE DEF row
    <2>2. DeskHolds(desk[d])'
      BY <1>1, <1>2, <1>3, <1>5, <1>11, <2>1
      DEF DeskHolds, OfCookie, OfPassword, OfAccounts, DeskPcs
    <2>3. QED  BY <1>4, <2>1, <2>2
  <1>12. CASE FindTarget(d) \/ LastAdmin(d) \/ Recheck(d)
    BY <1>6, <1>11, <1>12 DEF FindTarget, LastAdmin, Recheck, At
  <1>13. QED
    BY <1>6, <1>7, <1>8, <1>9, <1>10, <1>12 DEF Errands, OwnErrands, Writes

\* The writes of accounts: an id that was ever taken is not given again, and a new password
\* takes its account off the swept ones.
LEMMA SessionsAccounts ==
  ASSUME SessionsInv, NEW d \in Desks,
         InsertAccount(d) \/ Promote(d) \/ Remove(d) \/ UpdatePassword(d)
  PROVE  SessionsInv'
  <1>1. /\ desk[d] \in DeskRows /\ DeskHolds(desk[d])
        /\ admin \in [Admins -> AdminRows] /\ session \in [SessionIds -> SessionRows]
        /\ swept \subseteq Admins
    BY DEF SessionsInv, ConsoleTypeOK, DeskRows, DesksHold
  <1>2. UNCHANGED <<deskTime, session, kept, crossed>>
    BY DEF InsertAccount, Promote, Remove, UpdatePassword, Rest
  <1>3. SessionsStay /\ Issued' = Issued
    BY <1>2, SessionSame
  <1>4. /\ admin' \in [Admins -> AdminRows] /\ AccountsStay
        /\ swept' \subseteq swept
        /\ \A a \in Admins : admin'[a].exists /\ a \in swept' =>
             \/ admin[a].exists /\ admin'[a].password = admin[a].password
             \/ ~Known(a)
    <2>1. CASE InsertAccount(d)
      <3> DEFINE t == desk[d].target
      <3>1. t \in Admins /\ desk[d].password \in Passwords /\ swept' = swept
        BY <1>1, <2>1 DEF InsertAccount, DeskHolds, OfCookie, OfAccounts, DeskPcs, At, Rest, Writes
      <3>2. CASE admin[t].exists \/ admin[t].gone
        <4>1. admin' = admin
          BY <2>1, <3>2 DEF InsertAccount
        <4>2. QED  BY <1>1, <3>1, <4>1, AdminSame
      <3>3. CASE ~(admin[t].exists \/ admin[t].gone)
        <4>1. PICK role \in Roles :
                admin' = [admin EXCEPT ![t] = [exists |-> TRUE, gone |-> FALSE, role |-> role,
                                               password |-> desk[d].password]]
          BY <2>1, <3>3 DEF InsertAccount
        <4>2. ~Known(t) /\ \A a \in Admins : a # t => admin'[a] = admin[a]
          BY <1>1, <3>3, <4>1 DEF Known
        <4>3. QED  BY <1>1, <3>1, <4>1, <4>2 DEF AdminRows, AccountsStay, Known
      <3>4. QED  BY <3>2, <3>3
    <2>2. CASE Promote(d)
      <3> DEFINE t == desk[d].target
      <3>1. t \in Admins /\ swept' = swept
        BY <1>1, <2>2 DEF Promote, DeskHolds, OfCookie, OfAccounts, DeskPcs, At, Rest
      <3>2. \A a \in Admins : /\ admin'[a] \in AdminRows /\ admin'[a].exists = admin[a].exists
                              /\ admin'[a].gone = admin[a].gone
                              /\ admin'[a].password = admin[a].password
        BY <1>1, <2>2, <3>1 DEF Promote, AdminRows, Roles
      <3>3. admin' \in [Admins -> AdminRows]
        BY <1>1, <2>2, <3>1, <3>2 DEF Promote
      <3>4. QED  BY <3>1, <3>2, <3>3 DEF AccountsStay, Known
    <2>3. CASE Remove(d)
      <3> DEFINE t == desk[d].target
      <3>1. t \in Admins /\ swept' = swept
        BY <1>1, <2>3 DEF Remove, DeskHolds, OfCookie, OfAccounts, DeskPcs, At, Rest
      <3>2. \/ admin' = admin
            \/ admin' = [admin EXCEPT ![t] = [admin[t] EXCEPT !.exists = FALSE, !.gone = TRUE]]
            \/ admin' = [admin EXCEPT ![t] = [admin[t] EXCEPT !.role = "readonly"]]
        BY <2>3 DEF Remove
      <3>3. /\ [admin[t] EXCEPT !.exists = FALSE, !.gone = TRUE] \in AdminRows
            /\ [admin[t] EXCEPT !.role = "readonly"] \in AdminRows
        BY <1>1, <3>1 DEF AdminRows, Roles
      <3>4. admin' \in [Admins -> AdminRows]
        BY <1>1, <3>1, <3>2, <3>3
      <3>5. \A a \in Admins : /\ admin[a].gone => admin'[a].gone
                              /\ admin[a].exists => admin'[a].exists \/ admin'[a].gone
                              /\ admin'[a].exists => admin[a].exists
                              /\ admin'[a].password = admin[a].password
        <4>1. CASE admin' = admin
          BY <4>1
        <4>2. CASE admin' = [admin EXCEPT ![t] = [admin[t] EXCEPT !.exists = FALSE, !.gone = TRUE]]
          BY <1>1, <3>1, <4>2 DEF AdminRows
        <4>3. CASE admin' = [admin EXCEPT ![t] = [admin[t] EXCEPT !.role = "readonly"]]
          BY <1>1, <3>1, <4>3 DEF AdminRows
        <4>4. QED  BY <3>2, <4>1, <4>2, <4>3
      <3>6. QED  BY <3>1, <3>4, <3>5 DEF AccountsStay, Known
    <2>4. CASE UpdatePassword(d)
      <3> DEFINE t == desk[d].self
      <3>1. t \in Admins /\ desk[d].password \in Passwords
        BY <1>1, <2>4
        DEF UpdatePassword, DeskHolds, OfCookie, OfPassword, DeskPcs, At, Known
      <3>2. CASE admin[t].exists
        <4>1. /\ admin' = [admin EXCEPT ![t] = [admin[t] EXCEPT !.password = desk[d].password]]
              /\ swept' = swept \ {t}
          BY <2>4, <3>2 DEF UpdatePassword
        <4>2. /\ [admin[t] EXCEPT !.password = desk[d].password] \in AdminRows
              /\ [admin[t] EXCEPT !.password = desk[d].password].exists = admin[t].exists
              /\ [admin[t] EXCEPT !.password = desk[d].password].gone = admin[t].gone
          BY <1>1, <3>1 DEF AdminRows
        <4>3. admin' \in [Admins -> AdminRows]
          BY <1>1, <3>1, <4>1, <4>2
        <4>4. \A a \in Admins : /\ admin'[a].exists = admin[a].exists
                                /\ admin'[a].gone = admin[a].gone
                                /\ a # t => admin'[a] = admin[a]
          BY <1>1, <3>1, <4>1, <4>2
        <4>5. QED  BY <4>1, <4>3, <4>4 DEF AccountsStay, Known
      <3>3. CASE ~admin[t].exists
        <4>1. admin' = admin /\ swept' = swept
          BY <2>4, <3>3 DEF UpdatePassword
        <4>2. QED  BY <1>1, <4>1, AdminSame
      <3>4. QED  BY <3>2, <3>3
    <2>5. QED  BY <2>1, <2>2, <2>3, <2>4
  <1>5. PICK row \in DeskRows :
          /\ Move(d, row)
          /\ \/ row = FreeDesk
             \/ desk[d].pc = "remove" /\ row.pc = "revokeAll"
             \/ desk[d].pc = "repass" /\ row.pc = "revokeOthers"
          /\ row # FreeDesk => /\ row.errand = desk[d].errand /\ row.session = desk[d].session
                               /\ row.self = desk[d].self /\ row.target = desk[d].target
                               /\ row.password = desk[d].password /\ row.touch = desk[d].touch
    <2>1. CASE Move(d, FreeDesk)
      BY <2>1, FreeRow
    <2>2. CASE Remove(d) /\ On(d, "revokeAll")
      <3> DEFINE next == [desk[d] EXCEPT !.pc = "revokeAll"]
      <3>1. /\ next \in DeskRows /\ next.pc = "revokeAll" /\ next.errand = desk[d].errand
            /\ next.session = desk[d].session /\ next.self = desk[d].self
            /\ next.target = desk[d].target /\ next.password = desk[d].password
            /\ next.touch = desk[d].touch
        BY <1>1 DEF DeskRows, DeskPcs
      <3>2. Move(d, next) /\ desk[d].pc = "remove"
        BY <2>2 DEF Remove, On, At
      <3> HIDE DEF next
      <3>3. QED  BY <3>1, <3>2
    <2>3. CASE UpdatePassword(d) /\ On(d, "revokeOthers")
      <3> DEFINE next == [desk[d] EXCEPT !.pc = "revokeOthers"]
      <3>1. /\ next \in DeskRows /\ next.pc = "revokeOthers" /\ next.errand = desk[d].errand
            /\ next.session = desk[d].session /\ next.self = desk[d].self
            /\ next.target = desk[d].target /\ next.password = desk[d].password
            /\ next.touch = desk[d].touch
        BY <1>1 DEF DeskRows, DeskPcs
      <3>2. Move(d, next) /\ desk[d].pc = "repass"
        BY <2>3 DEF UpdatePassword, On, At
      <3> HIDE DEF next
      <3>3. QED  BY <3>1, <3>2
    <2>4. \/ Move(d, FreeDesk)
          \/ Remove(d) /\ On(d, "revokeAll")
          \/ UpdatePassword(d) /\ On(d, "revokeOthers")
      BY DEF InsertAccount, Promote, Remove, UpdatePassword
    <2>5. QED  BY <2>1, <2>2, <2>3, <2>4
  <1>6. /\ desk' \in [Desks -> DeskRows] /\ desk'[d] = row
        /\ \A e \in Desks : e # d => desk'[e] = desk[e]
    BY <1>5, Moved DEF SessionsInv
  <1>7. DeskHolds(desk[d])'
    <2>1. CASE row = FreeDesk
      BY <1>6, <2>1, FreeHolds
    <2>2. CASE row # FreeDesk
      <3>1. /\ desk[d].session \in Issued /\ Known(desk[d].self)
            /\ row.pc = "revokeAll" => desk[d].errand \in Writes
            /\ row.pc = "revokeOthers" => desk[d].errand = "password"
            /\ desk[d].errand \in Writes => desk[d].target \in Admins
            /\ desk[d].errand # "read" => desk[d].password \in Passwords
            /\ desk[d].touch => session[desk[d].session].remember
        BY <1>1, <1>5, <2>2 DEF DeskHolds, OfCookie, OfAccounts, OfPassword, DeskPcs
      <3>2. Known(desk[d].self)'
        <4>1. desk[d].self \in Admins /\ desk'[d].self = desk[d].self
          BY <1>5, <1>6, <2>2, <3>1 DEF Known
        <4>2. admin'[desk[d].self].exists \/ admin'[desk[d].self].gone
          BY <1>4, <3>1, <4>1 DEF AccountsStay, Known
        <4>3. QED  BY <4>1, <4>2 DEF Known
      <3>3. QED
        BY <1>2, <1>3, <1>5, <1>6, <2>2, <3>1, <3>2
        DEF DeskHolds, OfCookie, OfAccounts, OfPassword, DeskPcs
    <2>3. QED  BY <2>1, <2>2
  <1>8. DesksHold'
    BY <1>3, <1>4, <1>6, <1>7, OthersHold DEF SessionsInv
  <1>9. ConsoleTypeOK'
    BY <1>1, <1>2, <1>4, <1>6 DEF SessionsInv, ConsoleTypeOK, DeskRows
  <1>10. IdsInOrder' /\ ShortSessionsEnd'
    BY <1>2, <1>3 DEF SessionsInv, IdsInOrder, SessionsKeepTheirWord, ShortSessionsEnd
  <1>11. SessionsKnown'
    BY <1>2, <1>4 DEF SessionsInv, SessionsKnown, AccountsStay, Known
  <1>12. OldPasswordsOut'
    <2> SUFFICES ASSUME NEW i \in SessionIds, session'[i].exists, session'[i].admin \in swept',
                        admin'[session'[i].admin].exists
                 PROVE  \/ session'[i].password = admin'[session'[i].admin].password
                        \/ i \in kept' \/ session'[i].late
      BY DEF OldPasswordsOut
    <2> DEFINE a == session[i].admin
    <2>1. session'[i] = session[i] /\ Known(a) /\ a \in swept
      BY <1>2, <1>4 DEF SessionsInv, SessionsKnown
    <2>2. admin[a].exists /\ admin'[a].password = admin[a].password
      BY <1>4, <2>1 DEF Known
    <2>3. QED
      BY <1>2, <2>1, <2>2 DEF SessionsInv, SessionsKeepTheirWord, OldPasswordsOut
  <1>13. QED
    BY <1>8, <1>9, <1>10, <1>11, <1>12 DEF SessionsInv, SessionsKeepTheirWord

\* Ids of sessions were given out in order, so that the next is their number plus one.
LEMMA NextSession ==
  ASSUME IdsInOrder
  PROVE  \E n \in 0..MaxSessions : Issued = 1..n /\ Cardinality(Issued) = n
  <1>1. PICK n \in 0..MaxSessions : Issued = 1..n
    BY DEF IdsInOrder
  <1>2. n \in Int /\ 1 \in Int /\ n >= 0
    BY ConsoleAssumption
  <1>3. Cardinality(1..n) = IF 1 > n THEN 0 ELSE n - 1 + 1
    BY <1>2, FS_Interval
  <1>4. Cardinality(1..n) = n
    BY <1>2, <1>3
  <1>5. QED  BY <1>1, <1>4

\* A new session: it lasts as its login asked, and is late if the password has changed since.
LEMMA SessionsIssue ==
  ASSUME SessionsInv, NEW d \in Desks, IssueSession(d) PROVE SessionsInv'
  <1> DEFINE next == Cardinality({i \in SessionIds : session[i].used}) + 1
             r == desk[d]
             ttl == IF r.remember THEN LongTtl ELSE ShortTtl
             isLate == admin[r.self].password # r.password
             new == [used |-> TRUE, exists |-> TRUE, admin |-> r.self, created |-> deskTime,
                     expires |-> deskTime + ttl, remember |-> r.remember,
                     password |-> r.password, late |-> isLate]
  <1>1. /\ r \in DeskRows /\ deskTime \in Nat /\ Known(r.self) /\ r.password \in Passwords
        /\ session \in [SessionIds -> SessionRows]
    BY DEF SessionsInv, ConsoleTypeOK, DeskRows, DesksHold, DeskHolds, IssueSession, At
  <1>2. PICK n \in 0..MaxSessions : Issued = 1..n /\ Cardinality(Issued) = n
    BY NextSession DEF SessionsInv
  <1>3. next = n + 1 /\ next \in SessionIds /\ next \notin Issued
    BY <1>2, ConsoleAssumption DEF IssueSession, SessionIds, Issued
  <1>4. /\ session' = [session EXCEPT ![next] = new] /\ Move(d, FreeDesk)
        /\ UNCHANGED <<admin, deskTime, swept, kept, crossed>>
    BY DEF IssueSession, Rest
  <1> HIDE DEF next, ttl, isLate
  <1>5. ttl \in Nat /\ isLate \in BOOLEAN /\ (~r.remember => ttl = ShortTtl)
    BY ConsoleAssumption DEF ttl, isLate
  <1>6. new \in SessionRows
    BY <1>1, <1>5 DEF SessionRows, DeskRows, Known
  <1>7. /\ new.used /\ new.exists /\ new.admin = r.self /\ new.remember = r.remember
        /\ new.created = deskTime /\ new.expires = deskTime + ttl
        /\ new.password = r.password /\ new.late = isLate
    OBVIOUS
  <1> HIDE DEF new
  <1>8. /\ session' \in [SessionIds -> SessionRows] /\ session'[next] = new
        /\ \A i \in SessionIds : i # next => session'[i] = session[i]
    BY <1>1, <1>3, <1>4, <1>6
  <1>9. Issued' = Issued \cup {next}
    BY <1>3, <1>7, <1>8 DEF Issued
  <1>10. SessionsStay /\ AccountsStay
    BY <1>3, <1>4, <1>8, <1>9, AdminSame DEF SessionsStay, Issued
  <1>11. /\ desk' \in [Desks -> DeskRows] /\ desk'[d] = FreeDesk
         /\ \A e \in Desks : e # d => desk'[e] = desk[e]
    BY <1>4, FreeRow, Moved DEF SessionsInv
  <1>12. DesksHold'
    BY <1>10, <1>11, FreeHolds, OthersHold DEF SessionsInv
  <1>13. IdsInOrder'
    <2>1. Issued' = 1..(n + 1) /\ n + 1 \in 0..MaxSessions
      BY <1>2, <1>3, <1>9, ConsoleAssumption DEF SessionIds
    <2>2. QED  BY <2>1 DEF IdsInOrder
  <1>14. ConsoleTypeOK'
    BY <1>4, <1>8, <1>11 DEF SessionsInv, ConsoleTypeOK, DeskRows
  <1>15. SessionsKnown'
    BY <1>1, <1>4, <1>7, <1>8 DEF SessionsInv, SessionsKnown, Known
  <1>16. ShortSessionsEnd'
    BY <1>5, <1>7, <1>8 DEF SessionsInv, SessionsKeepTheirWord, ShortSessionsEnd
  <1>17. OldPasswordsOut'
    <2>1. \A i \in SessionIds \ {next} : session'[i] = session[i]
      BY <1>8
    <2>2. session'[next].password = admin'[session'[next].admin].password \/ session'[next].late
      BY ZenonT(40), <1>4, <1>7, <1>8 DEF isLate
    <2>3. QED
      BY <1>4, <2>1, <2>2 DEF SessionsInv, SessionsKeepTheirWord, OldPasswordsOut
  <1>18. QED
    BY <1>12, <1>13, <1>14, <1>15, <1>16, <1>17 DEF SessionsInv, SessionsKeepTheirWord

\* A session loses its row, or a long one gets a later end; nothing else of it changes.
EndsOrRenews(i) ==
  /\ session'[i].used = session[i].used /\ session'[i].admin = session[i].admin
  /\ session'[i].created = session[i].created /\ session'[i].remember = session[i].remember
  /\ session'[i].password = session[i].password /\ session'[i].late = session[i].late
  /\ session'[i].exists => session[i].exists
  /\ session'[i].expires = session[i].expires \/ session[i].remember

\* The other writes of sessions: they are removed, or a long one is renewed.
LEMMA SessionsWrites ==
  ASSUME SessionsInv, NEW d \in Desks,
         (\E i \in SessionIds : Logout(d, i)) \/ Touch(d) \/ RevokeAll(d) \/ RevokeOthers(d)
  PROVE  SessionsInv'
  <1>1. /\ desk[d] \in DeskRows /\ DeskHolds(desk[d])
        /\ session \in [SessionIds -> SessionRows] /\ desk \in [Desks -> DeskRows]
    BY DEF SessionsInv, ConsoleTypeOK, DeskRows, DesksHold
  <1>2. UNCHANGED <<admin, deskTime, crossed>> /\ AccountsStay
    BY AdminSame DEF Logout, Touch, RevokeAll, RevokeOthers, Rest
  <1>3. /\ session' \in [SessionIds -> SessionRows]
        /\ \A i \in SessionIds : EndsOrRenews(i)
    <2>1. ASSUME NEW i \in SessionIds, Logout(d, i)
          PROVE  session' \in [SessionIds -> SessionRows] /\ \A j \in SessionIds : EndsOrRenews(j)
      BY <1>1, <2>1 DEF Logout, SessionRows, EndsOrRenews
    <2>2. CASE Touch(d)
      <3> DEFINE j == desk[d].session
      <3>1. /\ j \in Issued /\ j \in SessionIds /\ session[j].remember
            /\ desk[d].now + LongTtl \in Nat
        BY <1>1, <2>2, ConsoleAssumption DEF Touch, At, DeskHolds, OfCookie, DeskPcs, DeskRows, Issued
      <3>2. \/ session' = session
            \/ session' = [session EXCEPT ![j] =
                             [session[j] EXCEPT !.expires = desk[d].now + LongTtl]]
        BY <2>2 DEF Touch
      <3>3. CASE session' = session
        BY <1>1, <3>3 DEF EndsOrRenews
      <3>4. CASE session' = [session EXCEPT ![j] =
                              [session[j] EXCEPT !.expires = desk[d].now + LongTtl]]
        BY <1>1, <3>1, <3>4 DEF SessionRows, EndsOrRenews
      <3>5. QED  BY <3>2, <3>3, <3>4
    <2>3. CASE RevokeAll(d) \/ RevokeOthers(d)
      <3>1. PICK a, but : session' = Without(a, but)
        BY <2>3 DEF RevokeAll, RevokeOthers
      <3>2. \A i \in SessionIds : session'[i] \in {session[i], [session[i] EXCEPT !.exists = FALSE]}
        BY <3>1 DEF Without
      <3>3. DOMAIN session' = SessionIds /\ session' = [i \in SessionIds |-> session'[i]]
        BY <3>1 DEF Without
      <3>4. ASSUME NEW i \in SessionIds PROVE session'[i] \in SessionRows /\ EndsOrRenews(i)
        <4>1. session[i] \in SessionRows
          BY <1>1
        <4>2. CASE session'[i] = session[i]
          BY <4>1, <4>2 DEF EndsOrRenews
        <4>3. CASE session'[i] = [session[i] EXCEPT !.exists = FALSE]
          BY <4>1, <4>3 DEF EndsOrRenews, SessionRows
        <4>4. QED  BY <3>2, <4>2, <4>3
      <3>5. QED  BY <3>3, <3>4
    <2>4. QED  BY <2>1, <2>2, <2>3
  <1>4. Issued' = Issued /\ SessionsStay
    BY <1>3 DEF Issued, SessionsStay, EndsOrRenews
  <1>5. /\ desk' \in [Desks -> DeskRows] /\ DeskHolds(desk[d])'
        /\ \A e \in Desks : e # d => desk'[e] = desk[e]
    <2>1. CASE \E i \in SessionIds : Logout(d, i)
      <3>1. desk' = desk
        BY <2>1 DEF Logout
      <3>2. QED  BY <1>1, <1>2, <1>4, <3>1, HoldsStay
    <2>2. CASE Move(d, FreeDesk)
      BY <2>2, FreeRow, Moved, FreeHolds DEF SessionsInv
    <2>3. CASE Touch(d) /\ ~Move(d, FreeDesk)
      <3> DEFINE next == After(desk[d], IF desk[d].remember THEN "admin" ELSE "readonly")
                 row == [desk[d] EXCEPT !.pc = next, !.touch = FALSE, !.remember = FALSE]
      <3>1. /\ next \in {"free", "recheck", "insert", "lastAdmin", "lookup"}
            /\ next = "recheck" => desk[d].errand = "password"
            /\ next \in {"insert", "lastAdmin", "lookup"} => desk[d].errand \in Writes
        BY <1>1, AfterFacts DEF Roles
      <3> HIDE DEF next
      <3>2. /\ row \in DeskRows /\ row.pc = next /\ row.errand = desk[d].errand
            /\ row.session = desk[d].session /\ row.self = desk[d].self
            /\ row.target = desk[d].target /\ row.password = desk[d].password
            /\ ~row.touch
        <4>1. next \in DeskPcs
          BY <3>1 DEF DeskPcs
        <4>2. QED  BY <1>1, <4>1 DEF DeskRows
      <3>3. Move(d, IF row.pc = "free" THEN FreeDesk ELSE row) /\ desk[d].pc = "touch"
        BY <2>3 DEF Touch, Proceed, At, next
      <3> HIDE DEF row
      <3>4. Move(d, row)
        BY <2>3, <3>3
      <3>5. /\ desk' \in [Desks -> DeskRows] /\ desk'[d] = row
            /\ \A e \in Desks : e # d => desk'[e] = desk[e]
        BY <3>2, <3>4, Moved DEF SessionsInv
      <3>6. /\ row.session \in Issued /\ row.self \in Admins
            /\ row.errand \in Writes => row.target \in Admins
            /\ row.errand # "read" => row.password \in Passwords
        BY <1>1, <3>2, <3>3 DEF DeskHolds, OfCookie, DeskPcs, Known
      <3>7. Known(row.self)
        BY <1>1, <3>2, <3>3 DEF DeskHolds, OfCookie, DeskPcs
      <3>8. DeskHolds(desk[d])'
        BY <1>2, <1>4, <3>1, <3>2, <3>5, <3>6, <3>7
        DEF DeskHolds, OfCookie, OfPassword, OfAccounts, DeskPcs, Known
      <3>9. QED  BY <3>5, <3>8
    <2>4. QED  BY <2>1, <2>2, <2>3 DEF RevokeAll, RevokeOthers
  <1>6. DesksHold'
    BY <1>2, <1>4, <1>5, OthersHold DEF SessionsInv
  <1>7. swept' \subseteq Admins /\ kept' \subseteq SessionIds /\ kept \subseteq kept'
    <2>1. CASE RevokeOthers(d)
      <3>1. desk[d].session \in SessionIds /\ desk[d].self \in Admins
        BY <1>1, <2>1 DEF RevokeOthers, DeskHolds, OfCookie, DeskPcs, At, Issued, Known
      <3>2. QED  BY <2>1, <3>1 DEF RevokeOthers, SessionsInv, ConsoleTypeOK
    <2>2. CASE ~RevokeOthers(d)
      BY <2>2 DEF Logout, Touch, RevokeAll, Rest, SessionsInv, ConsoleTypeOK
    <2>3. QED  BY <2>1, <2>2
  <1>8. ConsoleTypeOK'
    BY <1>2, <1>3, <1>5, <1>7 DEF SessionsInv, ConsoleTypeOK, DeskRows
  <1>9. IdsInOrder' /\ SessionsKnown'
    BY <1>2, <1>3, <1>4 DEF SessionsInv, IdsInOrder, SessionsKnown, Known, EndsOrRenews
  <1>10. ShortSessionsEnd'
    BY <1>3 DEF SessionsInv, SessionsKeepTheirWord, ShortSessionsEnd, EndsOrRenews
  <1>11. OldPasswordsOut'
    <2> SUFFICES ASSUME NEW i \in SessionIds, session'[i].exists, session'[i].admin \in swept',
                        admin'[session'[i].admin].exists
                 PROVE  \/ session'[i].password = admin'[session'[i].admin].password
                        \/ i \in kept' \/ session'[i].late
      BY DEF OldPasswordsOut
    <2>1. CASE session[i].admin \in swept
      BY <1>2, <1>3, <1>7, <2>1
      DEF SessionsInv, SessionsKeepTheirWord, OldPasswordsOut, EndsOrRenews
    <2>2. CASE session[i].admin \notin swept
      <3>1. /\ session' = Without(session[i].admin, desk[d].session)
            /\ kept' = kept \cup {desk[d].session}
        BY <1>3, <2>2 DEF Logout, Touch, RevokeAll, RevokeOthers, Rest, EndsOrRenews
      <3>2. CASE i = desk[d].session
        BY <3>1, <3>2
      <3>3. CASE i # desk[d].session
        BY <1>1, <3>1, <3>3 DEF Without, SessionRows
      <3>4. QED  BY <3>2, <3>3
    <2>3. QED  BY <2>1, <2>2
  <1>12. QED
    BY <1>6, <1>8, <1>9, <1>10, <1>11 DEF SessionsInv, SessionsKeepTheirWord

-----------------------------------------------------------------------------
\* Init: the first session is in order, and was obtained with the password of its account.
LEMMA SessionsStart == ConsoleInit => SessionsInv
  <1> SUFFICES ASSUME ConsoleInit PROVE SessionsInv
    OBVIOUS
  <1>1. PICK first \in Admins, p \in Passwords, others \in SUBSET Admins, remember \in BOOLEAN :
       /\ first \notin others
       /\ admin = [a \in Admins |-> [exists |-> a \in others \cup {first}, gone |-> FALSE,
                                     password |-> p, role |-> IF a = first THEN "admin" ELSE "readonly"]]
       /\ session = [i \in SessionIds |->
            IF i = 1 THEN [used |-> TRUE, exists |-> TRUE, admin |-> first, created |-> 0,
                           expires |-> IF remember THEN LongTtl ELSE ShortTtl,
                           remember |-> remember, password |-> p, late |-> FALSE]
            ELSE NoSession]
    BY DEF ConsoleInit
  <1>2. /\ deskTime \in {0, LongTtl - 1} /\ desk = [d \in Desks |-> FreeDesk]
        /\ swept = Admins /\ kept = {} /\ crossed = FALSE
    BY DEF ConsoleInit
  <1>3. LongTtl - 1 \in Nat /\ LongTtl \in Nat /\ ShortTtl \in Nat
    BY ConsoleAssumption
  <1>4. \A i \in SessionIds : i # 1 => session[i] = NoSession
    BY <1>1
  <1> DEFINE end == IF remember THEN LongTtl ELSE ShortTtl
             one == [used |-> TRUE, exists |-> TRUE, admin |-> first, created |-> 0,
                     expires |-> end, remember |-> remember, password |-> p, late |-> FALSE]
  <1>5. 1 \in SessionIds => session[1] = one
    BY <1>1
  <1> HIDE DEF end
  <1>6. end \in Nat /\ (~remember => end = ShortTtl)
    BY <1>3 DEF end
  <1>7. one \in SessionRows /\ NoSession \in SessionRows
    BY <1>6 DEF SessionRows, NoSession
  <1>8. session \in [SessionIds -> SessionRows]
    <2>1. DOMAIN session = SessionIds /\ session = [i \in SessionIds |-> session[i]]
      BY <1>1
    <2>2. QED  BY <1>4, <1>5, <1>7, <2>1
  <1>9. admin \in [Admins -> AdminRows] /\ admin[first].exists
    <2> DEFINE role(a) == IF a = first THEN "admin" ELSE "readonly"
               there(a) == a \in others \cup {first}
    <2>1. admin = [a \in Admins |-> [exists |-> there(a), gone |-> FALSE,
                                     password |-> p, role |-> role(a)]]
      BY <1>1
    <2>2. \A a \in Admins : role(a) \in Roles /\ there(a) \in BOOLEAN
      BY DEF Roles
    <2>3. there(first)
      OBVIOUS
    <2> HIDE DEF role, there
    <2>4. QED  BY <2>1, <2>2, <2>3 DEF AdminRows
  <1>10. ConsoleTypeOK
    <2>1. desk \in [Desks -> DeskRows]
      BY <1>2, FreeRow
    <2>2. deskTime \in Nat /\ crossed \in BOOLEAN /\ swept \subseteq Admins /\ kept \subseteq SessionIds
      <3>1. deskTime \in Nat
        BY <1>2, <1>3
      <3>2. swept = Admins /\ kept = {} /\ crossed = FALSE
        BY <1>2
      <3>3. QED  BY <3>1, <3>2, Zenon
    <2> HIDE <1>1
    <2>3. QED  BY <1>8, <1>9, <2>1, <2>2 DEF ConsoleTypeOK, DeskRows
  <1>11. IdsInOrder
    <2>1. Issued = {i \in SessionIds : i = 1}
      BY <1>4, <1>5 DEF Issued, NoSession
    <2>2. CASE MaxSessions = 0
      <3>1. Issued = 1..0 /\ 0 \in 0..MaxSessions
        BY <2>1, <2>2 DEF SessionIds
      <3>2. QED  BY <3>1 DEF IdsInOrder
    <2>3. CASE MaxSessions # 0
      <3>1. Issued = 1..1 /\ 1 \in 0..MaxSessions
        BY <2>1, <2>3, ConsoleAssumption DEF SessionIds
      <3>2. QED  BY <3>1 DEF IdsInOrder
    <2>4. QED  BY <2>2, <2>3
  <1>12. SessionsKnown
    BY <1>4, <1>5, <1>9 DEF SessionsKnown, Known, NoSession
  <1>13. DesksHold
    <2>1. ASSUME NEW d \in Desks PROVE DeskHolds(desk[d])
      <3>1. desk[d] = FreeDesk
        BY <1>2
      <3>2. QED  BY <3>1, FreeRow DEF DeskHolds, OfCookie, OfPassword, OfAccounts
    <2>2. QED  BY <2>1 DEF DesksHold
  <1>14. ShortSessionsEnd
    BY <1>3, <1>4, <1>5, <1>6 DEF ShortSessionsEnd, NoSession
  <1>15. OldPasswordsOut
    <2>1. admin[first].password = p
      BY <1>1
    <2>2. QED  BY <1>4, <1>5, <2>1 DEF OldPasswordsOut, NoSession
  <1>16. QED
    BY <1>10, <1>11, <1>12, <1>13, <1>14, <1>15 DEF SessionsInv, SessionsKeepTheirWord

\* Every step keeps the invariant.
LEMMA SessionsStep == SessionsInv /\ [ConsoleNext]_consoleVars => SessionsInv'
  <1> SUFFICES ASSUME SessionsInv, [ConsoleNext]_consoleVars PROVE SessionsInv'
    OBVIOUS
  <1>1. CASE DeskTick
    <2>1. UNCHANGED <<admin, session, desk, swept, kept, crossed>> /\ deskTime' \in Nat
      BY <1>1 DEF DeskTick, SessionsInv, ConsoleTypeOK
    <2>2. QED
      BY <2>1 DEF SessionsInv, ConsoleTypeOK, IdsInOrder, Issued, SessionsKnown, Known, DesksHold,
                  DeskHolds, SessionsKeepTheirWord, ShortSessionsEnd, OldPasswordsOut
  <1>2. CASE ConsoleStops
    <2>1. UNCHANGED <<deskTime, admin, session, swept, kept, crossed>>
      BY <1>2 DEF ConsoleStops, Rest
    <2>2. \A d \in Desks : desk'[d] = FreeDesk
      BY <1>2 DEF ConsoleStops
    <2>3. desk' \in [Desks -> DeskRows]
      BY <1>2, FreeRow DEF ConsoleStops
    <2>4. DesksHold'
      BY <2>2, FreeHolds DEF DesksHold
    <2>5. ConsoleTypeOK'
      BY <2>1, <2>3 DEF SessionsInv, ConsoleTypeOK, DeskRows
    <2>6. QED
      BY <2>1, <2>4, <2>5 DEF SessionsInv, IdsInOrder, Issued, SessionsKnown, Known,
                              SessionsKeepTheirWord, ShortSessionsEnd, OldPasswordsOut
  <1>3. CASE UNCHANGED consoleVars
    BY <1>3 DEF consoleVars, SessionsInv, ConsoleTypeOK, IdsInOrder, Issued, SessionsKnown, Known,
                DesksHold, DeskHolds, SessionsKeepTheirWord, ShortSessionsEnd, OldPasswordsOut
  <1>4. ASSUME NEW d \in Desks, SessionStep(d) \/ PasswordStep(d) \/ AccountStep(d)
        PROVE  SessionsInv'
    <2>1. SessionStep(d) => SessionsInv'
      BY SessionsReads, SessionsIssue, SessionsWrites DEF SessionStep, Check
    <2>2. PasswordStep(d) => SessionsInv'
      BY SessionsReads, SessionsAccounts, SessionsWrites DEF PasswordStep
    <2>3. AccountStep(d) => SessionsInv'
      BY SessionsReads, SessionsAccounts, SessionsWrites DEF AccountStep, Check
    <2>4. QED  BY <1>4, <2>1, <2>2, <2>3
  <1>5. QED  BY <1>1, <1>2, <1>3, <1>4 DEF ConsoleNext

\* Of any number of overlapping logins, requests and changes of accounts, sessions keep
\* their word: a short one is never renewed, and once a change of password was answered no
\* session of the old one is left but those the property names.
THEOREM SessionsLastAsPromised == ConsoleSpec => [](ConsoleTypeOK /\ SessionsKeepTheirWord)
  <1>1. SessionsInv => ConsoleTypeOK /\ SessionsKeepTheirWord
    BY DEF SessionsInv
  <1>2. QED  BY <1>1, SessionsStart, SessionsStep, PTL DEF ConsoleSpec

-----------------------------------------------------------------------------
\* Someone was about to be removed or demoted by this request and no other.
LEMMA AdminsStart == ConsoleInit => AdminsInv
  <1> SUFFICES ASSUME ConsoleInit PROVE AdminsInv
    OBVIOUS
  <1>1. \A d \in Desks : ~At(d, "remove")
    BY FreeRow DEF ConsoleInit, At
  <1>2. PICK first \in Admins, p \in Passwords, others \in SUBSET Admins :
          admin = [a \in Admins |-> [exists |-> a \in others \cup {first}, gone |-> FALSE,
                                     password |-> p, role |-> IF a = first THEN "admin" ELSE "readonly"]]
    BY ZenonT(40) DEF ConsoleInit
  <1>3. first \in Administrators
    BY <1>2 DEF Administrators
  <1>4. QED  BY <1>1, <1>3 DEF AdminsInv, AdminRemains, RemovalsApart, Administrators

\* A step that neither takes an administrator away nor decides upon a removal.
LEMMA AdminsKept ==
  ASSUME AdminsInv, UNCHANGED crossed, Administrators \subseteq Administrators',
         \A d \in Desks : At(d, "remove")' => At(d, "remove") /\ desk'[d] = desk[d]
  PROVE  AdminsInv'
  <1>1. AdminRemains'
    BY DEF AdminsInv, AdminRemains
  <1>2. RemovalsApart'
    <2> SUFFICES ASSUME ~crossed, NEW d \in Desks, At(d, "remove")'
                 PROVE  /\ \A e \in Desks : At(e, "remove")' => e = d
                        /\ \E b \in Administrators' : b # desk'[d].target
      BY DEF RemovalsApart
    <2>1. At(d, "remove") /\ desk'[d] = desk[d]
      OBVIOUS
    <2>2. QED  BY <2>1 DEF AdminsInv, RemovalsApart
  <1>3. QED  BY <1>1, <1>2 DEF AdminsInv

\* A request moved on, and not to a removal.
LEMMA NotToRemove ==
  ASSUME ConsoleTypeOK, NEW d \in Desks, NEW row \in DeskRows, Move(d, row), row.pc # "remove"
  PROVE  \A e \in Desks : At(e, "remove")' => At(e, "remove") /\ desk'[e] = desk[e]
  BY Moved DEF At

\* Only the check of the last administrator leads to a removal.
LEMMA DeskMoves ==
  ASSUME SessionsInv, NEW d \in Desks, SessionStep(d) \/ PasswordStep(d) \/ AccountStep(d),
         ~LastAdmin(d), ~Remove(d), ~\E i \in SessionIds : Logout(d, i)
  PROVE  \E row \in DeskRows : Move(d, row) /\ row.pc # "remove"
  <1>1. /\ desk[d] \in DeskRows /\ deskTime \in Nat /\ DeskHolds(desk[d])
        /\ admin \in [Admins -> AdminRows] /\ session \in [SessionIds -> SessionRows]
    BY DEF SessionsInv, ConsoleTypeOK, DeskRows, DesksHold
  <1>2. CASE Move(d, FreeDesk)
    BY <1>2, FreeRow
  <1>3. ASSUME NEW pc \in DeskPcs \ {"remove"}, On(d, pc)
        PROVE  \E row \in DeskRows : Move(d, row) /\ row.pc # "remove"
    BY <1>1, <1>3 DEF On, DeskRows
  <1>4. CASE FindTarget(d) \/ Recheck(d) \/ UpdatePassword(d)
    <2>1. Move(d, FreeDesk) \/ \E pc \in {"lastAdmin", "promoted", "repass", "revokeOthers"} : On(d, pc)
      BY <1>4 DEF FindTarget, Recheck, UpdatePassword
    <2>2. QED  BY <1>2, <1>3, <2>1 DEF DeskPcs
  <1>5. CASE \E a \in Admins, p \in Passwords, remember \in BOOLEAN : Login(d, a, p, remember)
    <2>1. PICK a \in Admins, p \in Passwords, remember \in BOOLEAN : Login(d, a, p, remember)
      BY <1>5
    <2> DEFINE row == [FreeDesk EXCEPT !.pc = "issue", !.self = a, !.password = p,
                                       !.remember = remember]
    <2>2. row \in DeskRows /\ Move(d, row) /\ row.pc = "issue"
      BY <2>1, FreeRow DEF Login, DeskRows, DeskPcs
    <2> HIDE DEF row
    <2>3. QED  BY <2>2
  <1>6. ASSUME NEW e \in Errands, NEW i \in SessionIds, NEW a \in Admins \cup {NoAdmin},
               NEW p \in Passwords \cup {NoAdmin}, Request(d, e, i, a, p)
        PROVE  \E row \in DeskRows : Move(d, row) /\ row.pc # "remove"
    <2> DEFINE row == [FreeDesk EXCEPT !.pc = "session", !.errand = e, !.session = i,
                                       !.target = a, !.password = p, !.now = deskTime]
    <2>1. row \in DeskRows /\ Move(d, row) /\ row.pc = "session"
      BY <1>1, <1>6 DEF FreeDesk, Request, DeskRows, DeskPcs
    <2> HIDE DEF row
    <2>2. QED  BY <2>1
  <1>7. CASE FindSession(d) /\ ~Move(d, FreeDesk)
    <2> DEFINE s == session[desk[d].session]
               touch == s.expires - s.created >= LongTtl /\ s.expires - desk[d].now < Threshold
               row == [desk[d] EXCEPT !.pc = "account", !.self = s.admin, !.touch = touch]
    <2>1. Move(d, row) /\ s \in SessionRows
      BY <1>1, <1>7 DEF FindSession, DeskHolds, OfCookie, DeskPcs, At, Issued
    <2> HIDE DEF touch
    <2>2. touch \in BOOLEAN
      BY DEF touch
    <2>3. row \in DeskRows /\ row.pc = "account"
      BY <1>1, <2>1, <2>2 DEF DeskRows, DeskPcs, SessionRows
    <2> HIDE DEF row
    <2>4. QED  BY <2>1, <2>3
  <1>8. ASSUME NEW role \in Roles, NEW row, Proceed(d, row), ~Move(d, FreeDesk),
               \/ row = [desk[d] EXCEPT !.pc = After(desk[d], role)]
               \/ row = [desk[d] EXCEPT !.pc = After(desk[d], role), !.touch = FALSE,
                                        !.remember = FALSE]
        PROVE  \E next \in DeskRows : Move(d, next) /\ next.pc # "remove"
    <2> DEFINE pc == After(desk[d], role)
    <2>1. pc \in {"free", "recheck", "insert", "lastAdmin", "lookup"} /\ pc \in DeskPcs
      BY <1>1, AfterFacts DEF DeskPcs
    <2> HIDE DEF pc
    <2>2. row \in DeskRows /\ row.pc = pc
      BY <1>1, <1>8, <2>1 DEF DeskRows, pc
    <2>3. Move(d, row)
      BY <1>8 DEF Proceed
    <2>4. QED  BY <2>1, <2>2, <2>3
  <1>9. CASE FindAccount(d) /\ ~Move(d, FreeDesk)
    <2>1. admin[desk[d].self].role \in Roles
      BY <1>1, <1>9 DEF FindAccount, At, DeskHolds, OfCookie, DeskPcs, Known, AdminRows
    <2> DEFINE chief == admin[desk[d].self].role = "admin"
               row == [desk[d] EXCEPT !.pc = "touch", !.remember = chief]
    <2>2. CASE Move(d, row)
      <3> HIDE DEF chief
      <3>1. chief \in BOOLEAN
        BY DEF chief
      <3>2. row \in DeskRows /\ row.pc = "touch"
        BY <1>1, <3>1 DEF DeskRows, DeskPcs
      <3> HIDE DEF row
      <3>3. QED  BY <2>2, <3>2
    <2>3. CASE ~Move(d, row)
      <3>1. Proceed(d, [desk[d] EXCEPT !.pc = After(desk[d], admin[desk[d].self].role)])
        BY <1>9, <2>3 DEF FindAccount
      <3>2. QED  BY <1>8, <1>9, <2>1, <3>1
    <2>4. QED  BY <2>2, <2>3
  <1>10. CASE Touch(d) /\ ~Move(d, FreeDesk)
    <2> DEFINE role == IF desk[d].remember THEN "admin" ELSE "readonly"
    <2>1. Proceed(d, [desk[d] EXCEPT !.pc = After(desk[d], role), !.touch = FALSE,
                                     !.remember = FALSE])
      BY <1>10 DEF Touch
    <2>2. role \in Roles
      BY DEF Roles
    <2> HIDE DEF role
    <2>3. QED  BY <1>8, <1>10, <2>1, <2>2
  <1>11. CASE IssueSession(d) \/ InsertAccount(d) \/ Promote(d) \/ RevokeAll(d) \/ RevokeOthers(d)
    BY <1>2, <1>11 DEF IssueSession, InsertAccount, Promote, RevokeAll, RevokeOthers
  <1>12. CASE SessionStep(d)
    BY <1>2, <1>5, <1>6, <1>7, <1>9, <1>10, <1>11, <1>12
    DEF SessionStep, Check, Errands, OwnErrands
  <1>13. CASE PasswordStep(d)
    BY <1>4, <1>6, <1>11, <1>13 DEF PasswordStep, Errands, OwnErrands
  <1>14. CASE AccountStep(d)
    BY <1>2, <1>4, <1>6, <1>7, <1>9, <1>10, <1>11, <1>14 DEF AccountStep, Check, Errands
  <1>15. QED  BY <1>12, <1>13, <1>14

\* Every step keeps somebody who may change things, as long as no two removals overlap.
LEMMA AdminsStep == SessionsInv /\ AdminsInv /\ [ConsoleNext]_consoleVars => AdminsInv'
  <1> SUFFICES ASSUME SessionsInv, AdminsInv, [ConsoleNext]_consoleVars PROVE AdminsInv'
    OBVIOUS
  <1>1. /\ ConsoleTypeOK /\ desk \in [Desks -> DeskRows] /\ admin \in [Admins -> AdminRows]
        /\ DesksHold
    BY DEF SessionsInv, ConsoleTypeOK, DeskRows
  <1>2. CASE DeskTick \/ UNCHANGED consoleVars
    BY <1>2, AdminsKept DEF DeskTick, consoleVars, Administrators, At
  <1>3. CASE ConsoleStops
    <2>1. \A d \in Desks : ~At(d, "remove")'
      BY <1>3, FreeRow DEF ConsoleStops, At
    <2>2. UNCHANGED <<admin, crossed>>
      BY <1>3 DEF ConsoleStops, Rest
    <2>3. QED  BY <2>1, <2>2, AdminsKept DEF Administrators
  <1>4. ASSUME NEW d \in Desks, LastAdmin(d) PROVE AdminsInv'
    <2>1. UNCHANGED admin /\ Administrators' = Administrators
      BY <1>4 DEF LastAdmin, Administrators
    <2>2. CASE Move(d, FreeDesk)
      <3>1. \A e \in Desks : At(e, "remove")' => At(e, "remove") /\ desk'[e] = desk[e]
        BY <1>1, <2>2, NotToRemove, FreeRow
      <3>2. crossed' => crossed \/ \E e \in Desks : At(e, "remove")
        BY <1>4 DEF LastAdmin
      <3>3. ~crossed' => ~crossed
        BY <1>1, <1>4 DEF LastAdmin
      <3>4. AdminRemains'
        <4>1. CASE crossed'
          BY <4>1 DEF AdminRemains
        <4>2. CASE ~crossed'
          BY <2>1, <3>3, <4>2 DEF AdminsInv, AdminRemains
        <4>3. QED  BY <4>1, <4>2
      <3>5. RemovalsApart'
        <4> SUFFICES ASSUME ~crossed', NEW e \in Desks, At(e, "remove")'
                     PROVE  /\ \A f \in Desks : At(f, "remove")' => f = e
                            /\ \E b \in Administrators' : b # desk'[e].target
          BY DEF RemovalsApart
        <4>1. QED  BY <2>1, <3>1, <3>3 DEF AdminsInv, RemovalsApart
      <3>6. QED  BY <3>4, <3>5 DEF AdminsInv
    <2>3. CASE On(d, "remove") /\ Administrators # {desk[d].target}
      <3> DEFINE row == [desk[d] EXCEPT !.pc = "remove"]
      <3>1. row \in DeskRows /\ row.pc = "remove" /\ row.target = desk[d].target /\ Move(d, row)
        BY <1>1, <2>3 DEF On, DeskRows, DeskPcs
      <3> HIDE DEF row
      <3>2. desk'[d] = row /\ \A e \in Desks : e # d => desk'[e] = desk[e]
        BY <1>1, <3>1, Moved
      <3>3. crossed' = (crossed \/ \E e \in Desks : At(e, "remove"))
        BY <1>4 DEF LastAdmin
      <3>4. CASE crossed'
        BY <3>4 DEF AdminsInv, AdminRemains, RemovalsApart
      <3>5. CASE ~crossed'
        <4>1. ~crossed /\ \A e \in Desks : ~At(e, "remove")
          BY <3>3, <3>5
        <4>2. PICK b \in Administrators : b # desk[d].target
          BY <2>3, <4>1 DEF AdminsInv, AdminRemains
        <4>3. \A e \in Desks : At(e, "remove")' => e = d
          BY <3>2, <4>1 DEF At
        <4>4. b \in Administrators' /\ desk'[d].target = desk[d].target
          BY <2>1, <3>1, <3>2
        <4>5. QED
          BY <4>2, <4>3, <4>4 DEF AdminsInv, AdminRemains, RemovalsApart
      <3>6. QED  BY <3>4, <3>5
    <2>4. QED  BY <1>4, <2>2, <2>3 DEF LastAdmin
  <1>5. ASSUME NEW d \in Desks, Remove(d) PROVE AdminsInv'
    <2>1. At(d, "remove") /\ UNCHANGED crossed
      BY <1>5 DEF Remove, Rest
    <2>2. CASE crossed
      BY <2>1, <2>2 DEF AdminsInv, AdminRemains, RemovalsApart
    <2>3. CASE ~crossed
      <3>1. PICK b \in Administrators : b # desk[d].target
        BY <2>1, <2>3 DEF AdminsInv, RemovalsApart
      <3>2. admin'[b] = admin[b]
        BY <1>1, <1>5, <3>1 DEF Remove, Administrators
      <3>3. b \in Administrators'
        BY <3>1, <3>2 DEF Administrators
      <3>4. PICK row \in DeskRows : Move(d, row) /\ row.pc # "remove"
        <4>1. CASE Move(d, FreeDesk)
          BY <4>1, FreeRow
        <4>2. CASE On(d, "revokeAll")
          BY <1>1, <4>2 DEF On, DeskRows, DeskPcs
        <4>3. QED  BY <1>5, <4>1, <4>2 DEF Remove
      <3>5. \A e \in Desks : ~At(e, "remove")'
        <4>1. \A e \in Desks : At(e, "remove") => e = d
          BY <2>1, <2>3 DEF AdminsInv, RemovalsApart
        <4>2. desk'[d] = row /\ \A e \in Desks : e # d => desk'[e] = desk[e]
          BY <1>1, <3>4, Moved
        <4>3. QED  BY <3>4, <4>1, <4>2 DEF At
      <3>6. QED  BY <3>3, <3>5 DEF AdminsInv, AdminRemains, RemovalsApart
    <2>4. QED  BY <2>2, <2>3
  <1>6. ASSUME NEW d \in Desks, SessionStep(d) \/ PasswordStep(d) \/ AccountStep(d),
               ~LastAdmin(d), ~Remove(d)
        PROVE  AdminsInv'
    <2>1. UNCHANGED crossed
      BY <1>6 DEF SessionStep, PasswordStep, AccountStep, Check, Login, IssueSession, Logout,
                  Request, FindSession, FindAccount, Touch, Recheck, UpdatePassword, RevokeOthers,
                  InsertAccount, FindTarget, Promote, RevokeAll, Rest
    <2>2. \/ UNCHANGED admin
          \/ InsertAccount(d) \/ Promote(d) \/ UpdatePassword(d)
      BY <1>6 DEF SessionStep, PasswordStep, AccountStep, Check, Login, IssueSession, Logout,
                  Request, FindSession, FindAccount, Touch, Recheck, RevokeOthers,
                  FindTarget, RevokeAll
    <2>3. Administrators \subseteq Administrators'
      <3>1. CASE UNCHANGED admin
        BY <3>1 DEF Administrators
      <3>2. CASE InsertAccount(d)
        <4>1. \A a \in Admins : admin[a].exists => admin'[a] = admin[a]
          BY <1>1, <3>2 DEF InsertAccount
        <4>2. QED  BY <4>1 DEF Administrators
      <3>3. CASE Promote(d)
        <4>1. \A a \in Admins : /\ admin'[a].exists = admin[a].exists
                                /\ admin'[a].role = admin[a].role \/ admin'[a].role = "admin"
          BY <1>1, <3>3 DEF Promote, AdminRows
        <4>2. QED  BY <4>1 DEF Administrators
      <3>4. CASE UpdatePassword(d)
        <4>1. \A a \in Admins : /\ admin'[a].exists = admin[a].exists
                                /\ admin'[a].role = admin[a].role
          BY <1>1, <3>4 DEF UpdatePassword, AdminRows
        <4>2. QED  BY <4>1 DEF Administrators
      <3>5. QED  BY <2>2, <3>1, <3>2, <3>3, <3>4
    <2>4. \A e \in Desks : At(e, "remove")' => At(e, "remove") /\ desk'[e] = desk[e]
      <3>1. CASE \E i \in SessionIds : Logout(d, i)
        BY <3>1 DEF Logout, At
      <3>2. CASE ~\E i \in SessionIds : Logout(d, i)
        <4>1. PICK row \in DeskRows : Move(d, row) /\ row.pc # "remove"
          BY <1>1, <1>6, <3>2, DeskMoves
        <4>2. QED  BY <1>1, <4>1, NotToRemove
      <3>3. QED  BY <3>1, <3>2
    <2>5. QED  BY <2>1, <2>3, <2>4, AdminsKept
  <1>7. QED
    BY <1>2, <1>3, <1>4, <1>5, <1>6 DEF ConsoleNext

\* Whatever is removed, demoted, created or promoted, in whatever order, somebody who may
\* change things remains as long as no two removals overlap.
THEOREM SomeAdminRemains == ConsoleSpec => []AdminRemains
  <1>1. AdminsInv => AdminRemains
    BY DEF AdminsInv
  <1>2. QED
    BY <1>1, SessionsStart, SessionsStep, AdminsStart, AdminsStep, PTL DEF ConsoleSpec
=============================================================================
