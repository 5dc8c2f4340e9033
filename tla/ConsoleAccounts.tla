-------------------------- MODULE ConsoleAccounts --------------------------
(***************************************************************************)
(* The accounts and sessions of the console: login, the check every admin  *)
(* request starts with and its sliding renewal (auth/admin.ts,             *)
(* http/middleware.ts), and the handlers that create, remove, demote and   *)
(* re-password accounts (handlers/console/auth.ts over store/admin.ts).    *)
(*                                                                         *)
(* Each statement of the store is a step; requests overlap, and the        *)
(* gateway may stop between two of them.  Passwords and cookies are        *)
(* abstract; the audit row that ends a handler is left out.                *)
(***************************************************************************)
EXTENDS Integers, FiniteSets

CONSTANTS
  Admins,      \* admin_accounts.id, one username each
  Passwords,
  NoAdmin,     \* no row
  Desks,       \* console requests that may overlap
  LongTtl,     \* ADMIN_SESSION_REMEMBER_DAYS
  ShortTtl,    \* ADMIN_SESSION_SHORT_HOURS
  Threshold,   \* TOUCH_THRESHOLD_SEC
  MaxSessions, \* bound: sessions issued
  MaxDeskTime  \* bound: the clock stops there

ASSUME ConsoleAssumption ==
  /\ LongTtl \in Nat /\ ShortTtl \in Nat \ {0} /\ Threshold \in Nat
  /\ ShortTtl < Threshold /\ Threshold < LongTtl
  /\ MaxSessions \in Nat /\ MaxDeskTime \in Nat
  /\ NoAdmin \notin Admins

VARIABLES
  deskTime,
  admin,     \* admin_accounts: [Admins -> row]
  session,   \* admin_sessions: [1..MaxSessions -> row]
  desk,      \* [Desks -> state of a request]
  swept,     \* history: accounts whose last change of password removed the sessions
  kept,      \* history: sessions a change of password was made from
  crossed    \* history: two removals of administrators overlapped

consoleVars == <<deskTime, admin, session, desk, swept, kept, crossed>>

SessionIds == 1..MaxSessions
Roles == {"admin", "readonly"}
\* gone: the id of a removed account is never given again.
AdminRows == [exists: BOOLEAN, gone: BOOLEAN, role: Roles, password: Passwords]
\* remember and password: history, how the session was obtained.
SessionRows == [used: BOOLEAN, exists: BOOLEAN, admin: Admins \cup {NoAdmin},
                created: Nat, expires: Nat, remember: BOOLEAN,
                password: Passwords \cup {NoAdmin}, late: BOOLEAN]
NoSession == [used |-> FALSE, exists |-> FALSE, admin |-> NoAdmin, created |-> 0,
              expires |-> 0, remember |-> FALSE, password |-> NoAdmin, late |-> FALSE]

\* Requests that check a session first, and what they go on with.
OwnErrands == {"read", "password"}
Writes == {"create", "delete", "demote", "promote"}
Errands == OwnErrands \cup Writes
FreeDesk == [pc |-> "free", errand |-> "read", session |-> 0, now |-> 0, self |-> NoAdmin,
             target |-> NoAdmin, password |-> NoAdmin, remember |-> FALSE, touch |-> FALSE]
DeskPcs == {"free", "login", "issue", "session", "account", "touch", "insert", "lookup",
            "lastAdmin", "remove", "revokeAll", "promoted", "recheck", "repass", "revokeOthers"}

At(d, pc) == desk[d].pc = pc
Move(d, row) == desk' = [desk EXCEPT ![d] = row]
On(d, pc) == Move(d, [desk[d] EXCEPT !.pc = pc])
Rest == <<deskTime, swept, kept, crossed>>

Administrators == {a \in Admins : admin[a].exists /\ admin[a].role = "admin"}
Accounts == {a \in Admins : admin[a].exists}

-----------------------------------------------------------------------------
\* Login and logout

\* authenticate: the row is read, then its hash is checked.
Login(d, a, p, remember) ==
  /\ At(d, "free") /\ admin[a].exists /\ admin[a].password = p
  /\ Move(d, [FreeDesk EXCEPT !.pc = "issue", !.self = a, !.password = p, !.remember = remember])
  /\ UNCHANGED <<admin, session>> /\ UNCHANGED Rest

\* issueSession, with the clock read when it is called.
IssueSession(d) ==
  LET next == Cardinality({i \in SessionIds : session[i].used}) + 1
      r == desk[d] IN
  /\ At(d, "issue") /\ next <= MaxSessions
  /\ session' = [session EXCEPT ![next] =
       [used |-> TRUE, exists |-> TRUE, admin |-> r.self, created |-> deskTime,
        expires |-> deskTime + (IF r.remember THEN LongTtl ELSE ShortTtl),
        remember |-> r.remember, password |-> r.password,
        late |-> admin[r.self].password # r.password]]
  /\ Move(d, FreeDesk)
  /\ UNCHANGED admin /\ UNCHANGED Rest

\* logout: a cookie that names no row deletes nothing.
Logout(d, i) ==
  /\ At(d, "free") /\ session[i].exists
  /\ session' = [session EXCEPT ![i].exists = FALSE]
  /\ UNCHANGED <<admin, desk>> /\ UNCHANGED Rest

-----------------------------------------------------------------------------
\* verifySession

\* A request comes with a cookie; the handler reads the clock.
Request(d, errand, i, a, p) ==
  /\ At(d, "free") /\ session[i].used
  /\ Move(d, [FreeDesk EXCEPT !.pc = "session", !.errand = errand, !.session = i,
                              !.target = a, !.password = p, !.now = deskTime])
  /\ UNCHANGED <<admin, session>> /\ UNCHANGED Rest

\* Mutant: a session is renewed whenever little of it is left.
FindSessionRenewsAll(d) ==
  LET r == desk[d]  s == session[r.session] IN
  /\ At(d, "session")
  /\ IF ~s.exists \/ r.now >= s.expires
     THEN Move(d, FreeDesk)
     ELSE Move(d, [r EXCEPT !.pc = "account", !.self = s.admin,
                            !.touch = s.expires - r.now < Threshold])
  /\ UNCHANGED <<admin, session>> /\ UNCHANGED Rest

\* findSessionByTokenHash: a missing or expired session is refused; whether it is to
\* be renewed is decided on this row, by its whole length and by what is left of it.
FindSession(d) ==
  LET r == desk[d]  s == session[r.session] IN
  /\ At(d, "session")
  /\ IF ~s.exists \/ r.now >= s.expires
     THEN Move(d, FreeDesk)
     ELSE Move(d, [r EXCEPT !.pc = "account", !.self = s.admin,
                            !.touch = /\ s.expires - s.created >= LongTtl
                                      /\ s.expires - r.now < Threshold])
  /\ UNCHANGED <<admin, session>> /\ UNCHANGED Rest

\* Where the handler goes once the identity stands: reads and the change of one's own
\* password need no role, the writes need "admin".
After(r, role) ==
  CASE r.errand = "read" -> "free"
    [] r.errand = "password" -> "recheck"
    [] r.errand \in Writes /\ role # "admin" -> "free"
    [] r.errand = "create" /\ role = "admin" -> "insert"
    [] r.errand = "delete" /\ role = "admin" -> "lastAdmin"
    [] OTHER -> "lookup"

Proceed(d, row) == Move(d, IF row.pc = "free" THEN FreeDesk ELSE row)

\* findById: a removed account is refused; the role is the one of this row.
FindAccount(d) ==
  LET r == desk[d]  next == After(r, admin[r.self].role) IN
  /\ At(d, "account")
  /\ IF ~admin[r.self].exists THEN Move(d, FreeDesk)
     ELSE IF r.touch THEN Move(d, [r EXCEPT !.pc = "touch", !.remember = (admin[r.self].role = "admin")])
     ELSE Proceed(d, [r EXCEPT !.pc = next])
  /\ UNCHANGED <<admin, session>> /\ UNCHANGED Rest

\* touchSessionExpiry: an UPDATE, which does not bring a deleted session back.
Touch(d) ==
  LET r == desk[d]
      role == IF r.remember THEN "admin" ELSE "readonly" IN
  /\ At(d, "touch")
  /\ session' = IF session[r.session].exists
                THEN [session EXCEPT ![r.session].expires = r.now + LongTtl] ELSE session
  /\ Proceed(d, [r EXCEPT !.pc = After(r, role), !.touch = FALSE, !.remember = FALSE])
  /\ UNCHANGED admin /\ UNCHANGED Rest

-----------------------------------------------------------------------------
\* Accounts

\* createAccount: the name is looked up, the password hashed, the row inserted; the
\* unique key of the name refuses the second of two inserts.
InsertAccount(d) ==
  LET r == desk[d] IN
  /\ At(d, "insert")
  /\ \E role \in Roles :
       admin' = IF admin[r.target].exists \/ admin[r.target].gone THEN admin
                ELSE [admin EXCEPT ![r.target] = [exists |-> TRUE, gone |-> FALSE,
                                                  role |-> role, password |-> r.password]]
  /\ Move(d, FreeDesk)
  /\ UNCHANGED session /\ UNCHANGED Rest

\* updateAccountRole reads its target first; only a demotion asks for the last admin.
FindTarget(d) ==
  LET r == desk[d] IN
  /\ At(d, "lookup")
  /\ IF ~admin[r.target].exists THEN Move(d, FreeDesk)
     ELSE On(d, IF r.errand = "demote" THEN "lastAdmin" ELSE "promoted")
  /\ UNCHANGED <<admin, session>> /\ UNCHANGED Rest

Promote(d) ==
  /\ At(d, "promoted")
  /\ admin' = IF admin[desk[d].target].exists
              THEN [admin EXCEPT ![desk[d].target].role = "admin"] ELSE admin
  /\ Move(d, FreeDesk)
  /\ UNCHANGED session /\ UNCHANGED Rest

\* Mutant: any other account will do, whatever its role.
LastAdminByCount(d) ==
  /\ At(d, "lastAdmin")
  /\ IF Accounts = {desk[d].target} THEN Move(d, FreeDesk) ELSE On(d, "remove")
  /\ crossed' = (crossed \/ \E e \in Desks : At(e, "remove"))
  /\ UNCHANGED <<admin, session, deskTime, swept, kept>>

\* isLastAdminAccount: the roles of all accounts are read and folded.
LastAdmin(d) ==
  /\ At(d, "lastAdmin")
  /\ IF Administrators = {desk[d].target} THEN Move(d, FreeDesk) ELSE On(d, "remove")
  /\ crossed' = (crossed \/ \E e \in Desks : At(e, "remove"))
  /\ UNCHANGED <<admin, session, deskTime, swept, kept>>

\* deleteAccount's DELETE and updateRole's UPDATE to readonly.
Remove(d) ==
  LET r == desk[d] IN
  /\ At(d, "remove")
  /\ \/ /\ admin[r.target].exists /\ r.errand = "delete"
        /\ admin' = [admin EXCEPT ![r.target] = [@ EXCEPT !.exists = FALSE, !.gone = TRUE]]
        /\ On(d, "revokeAll")
     \/ /\ admin[r.target].exists /\ r.errand = "demote"
        /\ admin' = [admin EXCEPT ![r.target].role = "readonly"]
        /\ Move(d, FreeDesk)
     \/ /\ ~admin[r.target].exists
        /\ Move(d, FreeDesk) /\ UNCHANGED admin
  /\ UNCHANGED session /\ UNCHANGED Rest

Without(a, but) == [i \in SessionIds |-> IF session[i].admin = a /\ i # but
                                         THEN [session[i] EXCEPT !.exists = FALSE]
                                         ELSE session[i]]

RevokeAll(d) ==
  /\ At(d, "revokeAll")
  /\ session' = Without(desk[d].target, 0)
  /\ Move(d, FreeDesk)
  /\ UNCHANGED admin /\ UNCHANGED Rest

-----------------------------------------------------------------------------
\* changePassword

\* The present password is checked on the row of the moment; the new one differs.
Recheck(d) ==
  LET r == desk[d] IN
  /\ At(d, "recheck")
  /\ IF admin[r.self].exists /\ admin[r.self].password # r.password
     THEN On(d, "repass") ELSE Move(d, FreeDesk)
  /\ UNCHANGED <<admin, session>> /\ UNCHANGED Rest

UpdatePassword(d) ==
  LET r == desk[d] IN
  /\ At(d, "repass")
  /\ IF admin[r.self].exists
     THEN /\ admin' = [admin EXCEPT ![r.self].password = r.password]
          /\ On(d, "revokeOthers")
          /\ swept' = swept \ {r.self}
     ELSE Move(d, FreeDesk) /\ UNCHANGED <<admin, swept>>
  /\ UNCHANGED <<session, deskTime, kept, crossed>>

\* Mutant: nobody's sessions are removed.
RevokeNone(d) ==
  LET r == desk[d] IN
  /\ At(d, "revokeOthers")
  /\ swept' = swept \cup {r.self} /\ kept' = kept \cup {r.session}
  /\ Move(d, FreeDesk)
  /\ UNCHANGED <<session, admin, deskTime, crossed>>

\* revokeOtherSessionsFor: all but the one whose cookie came with the request.
RevokeOthers(d) ==
  LET r == desk[d] IN
  /\ At(d, "revokeOthers")
  /\ session' = Without(r.self, r.session)
  /\ swept' = swept \cup {r.self} /\ kept' = kept \cup {r.session}
  /\ Move(d, FreeDesk)
  /\ UNCHANGED <<admin, deskTime, crossed>>

-----------------------------------------------------------------------------
DeskTick ==
  /\ deskTime < MaxDeskTime
  /\ deskTime' = deskTime + 1
  /\ UNCHANGED <<admin, session, desk, swept, kept, crossed>>

\* The process ends: the requests it runs are lost, the tables stay.
ConsoleStops ==
  /\ \E d \in Desks : ~At(d, "free")
  /\ desk' = [d \in Desks |-> FreeDesk]
  /\ UNCHANGED <<admin, session>> /\ UNCHANGED Rest

\* The table as admin-bootstrap.ts or any later day leaves it: one administrator with
\* a session, new or near its end, perhaps other accounts.
ConsoleInit ==
  /\ deskTime \in {0, LongTtl - 1}
  /\ \E first \in Admins, p \in Passwords, others \in SUBSET Admins, remember \in BOOLEAN :
       /\ first \notin others
       /\ admin = [a \in Admins |-> [exists |-> a \in others \cup {first}, gone |-> FALSE,
                                     password |-> p, role |-> IF a = first THEN "admin" ELSE "readonly"]]
       /\ session = [i \in SessionIds |->
            IF i = 1 THEN [used |-> TRUE, exists |-> TRUE, admin |-> first, created |-> 0,
                           expires |-> IF remember THEN LongTtl ELSE ShortTtl,
                           remember |-> remember, password |-> p, late |-> FALSE]
            ELSE NoSession]
  /\ desk = [d \in Desks |-> FreeDesk]
  /\ swept = Admins /\ kept = {} /\ crossed = FALSE

Check(d) == FindSession(d) \/ FindAccount(d) \/ Touch(d)

SessionStep(d) ==
  \/ \E a \in Admins, p \in Passwords, remember \in BOOLEAN : Login(d, a, p, remember)
  \/ IssueSession(d)
  \/ \E i \in SessionIds : Logout(d, i)
  \/ \E i \in SessionIds : Request(d, "read", i, NoAdmin, NoAdmin)
  \/ Check(d)

PasswordStep(d) ==
  \/ \E i \in SessionIds, p \in Passwords : Request(d, "password", i, NoAdmin, p)
  \/ Recheck(d) \/ UpdatePassword(d) \/ RevokeOthers(d)

AccountStep(d) ==
  \/ \E i \in SessionIds, e \in Writes, a \in Admins, p \in Passwords : Request(d, e, i, a, p)
  \/ Check(d) \/ InsertAccount(d) \/ FindTarget(d) \/ Promote(d)
  \/ LastAdmin(d) \/ Remove(d) \/ RevokeAll(d)

ConsoleNext == (\E d \in Desks : SessionStep(d) \/ PasswordStep(d) \/ AccountStep(d))
               \/ DeskTick \/ ConsoleStops

ConsoleSpec == ConsoleInit /\ [][ConsoleNext]_consoleVars

-----------------------------------------------------------------------------
ConsoleTypeOK ==
  /\ deskTime \in Nat /\ crossed \in BOOLEAN
  /\ admin \in [Admins -> AdminRows]
  /\ session \in [SessionIds -> SessionRows]
  /\ desk \in [Desks -> [pc: DeskPcs, errand: Errands, session: SessionIds \cup {0}, now: Nat,
                         self: Admins \cup {NoAdmin}, target: Admins \cup {NoAdmin},
                         password: Passwords \cup {NoAdmin}, remember: BOOLEAN, touch: BOOLEAN]]
  /\ swept \subseteq Admins /\ kept \subseteq SessionIds

\* A session of a shared machine ("remember" not ticked) ends ShortTtl after the login,
\* whatever requests are made with it; only long ones are ever renewed.
ShortSessionsEnd ==
  \A i \in SessionIds : session[i].used /\ ~session[i].remember
                        => session[i].expires = session[i].created + ShortTtl

\* Once a change of password was answered, every session of that account was obtained
\* with the present password, made the change itself, or came from a login that had
\* read the old hash before the change.
OldPasswordsOut ==
  \A i \in SessionIds :
    LET a == session[i].admin IN
    session[i].exists /\ a \in swept /\ admin[a].exists
      => session[i].password = admin[a].password \/ i \in kept \/ session[i].late

\* Sessions are what their login asked for and last no longer than their password.
SessionsKeepTheirWord == ShortSessionsEnd /\ OldPasswordsOut

\* Removals and demotions leave someone who may change things, as long as no two of
\* them overlap: roles, not accounts, are counted.
AdminRemains == crossed \/ Administrators # {}
=============================================================================
