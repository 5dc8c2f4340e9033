------------------------------ MODULE MCConsole ------------------------------
(***************************************************************************)
(* A small instance of the console's own state: its accounts and sessions  *)
(* (ConsoleAccounts), the limits it and the client of the meeting API run  *)
(* under (RateLimits), and the rules administrators edit (RuleDesk).  They *)
(* share no state, so one run looks at all of them by a choice of focus:   *)
(* only the part that the focus names moves.                               *)
(***************************************************************************)
EXTENDS ConsoleAccounts, RateLimits, RuleDesk, TLC

CONSTANTS p1, p2, a1, w1, m1

VARIABLE focus

-----------------------------------------------------------------------------
\* ConsoleAccounts: accounts, sessions and passwords.
ConsoleFoci == {"accounts", "sessions", "passwords"}
OnlyAdmin == Accounts = {a1}
OnePassword == \A d \in Desks : desk[d].password \in {w1, NoAdmin}
ConsoleStart ==
  /\ ConsoleInit
  /\ admin[a1].role = "admin" /\ \A a \in Admins : admin[a].password = w1
  /\ session[1].remember /\ session[1].admin = a1
  /\ focus # "passwords" => deskTime = 0
  /\ focus = "passwords" => OnlyAdmin /\ deskTime = LongTtl - 1
  /\ focus = "sessions" => OnlyAdmin
  /\ focus \notin ConsoleFoci => OnlyAdmin
ConsoleMove ==
  \/ focus = "accounts" /\ (\E d \in Desks : AccountStep(d)) /\ OnePassword'
  \/ focus = "sessions" /\ (DeskTick \/ \E d \in Desks : SessionStep(d))
  \/ focus = "passwords" /\ \E d \in Desks : SessionStep(d) \/ PasswordStep(d)
  \/ focus \in ConsoleFoci /\ ConsoleStops

-----------------------------------------------------------------------------
\* RateLimits: the client of the meeting API, the login limiter.
RateFoci == {"client", "logins"}
RateMove == (focus = "client" /\ ClientNext) \/ (focus = "logins" /\ LoginNext)

-----------------------------------------------------------------------------
\* RuleDesk: many stacks against facts that are filled in, few tables that are edited.
DeskFoci == {"stacks", "desk"}
Conds(t, h) == [f \in RuleFields |-> IF f = "title" THEN t ELSE h]
Row(kind, priority, join, conds, effect, subject) ==
  [kind |-> kind, priority |-> priority, enabled |-> TRUE, readable |-> TRUE, join |-> join,
   conds |-> conds, effect |-> effect, subject |-> subject, assets |-> RuleAssets]
StackRows(priorities) ==
  {Row("allow", n, j, Conds(t, h), e, p1) :
     n \in priorities, j \in {"and", "or"}, t \in {"any", "has", "broken"},
     h \in {"any", "has"}, e \in Effects}
StackTables == {<<a, b>> : a \in StackRows({1}), b \in StackRows({1, 2})}
DenyTitle == Row("allow", 2, "and", Conds("has", "any"), "shut", p1)
AllowAll == Row("allow", 1, "and", Conds("any", "any"), "open", p1)
AllowHost == Row("allow", 1, "and", Conds("any", "has"), "open", p2)
FetchHost == Row("fetch", 1, "and", Conds("any", "has"), "open", NoSubject)
FetchAll == Row("fetch", 1, "and", Conds("any", "any"), "open", NoSubject)
ArchiveEither == Row("archive", 1, "or", Conds("has", "not"), "open", NoSubject)
DeskTables == {<<>>, <<DenyTitle, AllowAll>>, <<FetchAll, AllowHost>>}
SomeTables == StackTables \cup DeskTables
SomeDrafts == {DenyTitle, FetchHost, ArchiveEither}
SomePatches == {[enabled |-> FALSE], [priority |-> 1], [assets |-> {}],
                [kind |-> "fetch", subject |-> NoSubject], [conds |-> Conds("not", "has")]}
\* The facts of the first meeting; the second is there for a preview to look at, or not.
FactsOf(x) == [m \in RuleMeetings |-> IF m = m1 THEN x ELSE Conds("yes", "no")]
DeskStart ==
  /\ focus \notin DeskFoci => rules = <<>> /\ hand = {} /\ facts = FactsOf(Conds("yes", "yes"))
  /\ focus = "stacks" =>
       /\ rules \in StackTables /\ hand = {}
       /\ facts \in {FactsOf(Conds(t, h)) : t \in FactValues, h \in FactValues}
  /\ focus = "desk" =>
       /\ rules \in DeskTables /\ hand \in {{}, {m1} \X {"allow"}}
       /\ facts \in {FactsOf(Conds(t, "yes")) : t \in {"yes", "gap"}}
  /\ DeskInit
DeskMove ==
  \/ focus = "desk" /\ DeskNext
  \/ /\ focus = "stacks"
     /\ \E m \in RuleMeetings, f \in RuleFields, v \in FactValues : Backfill(m, f, v)

-----------------------------------------------------------------------------
Foci == ConsoleFoci \cup RateFoci \cup DeskFoci
OfficeInit == /\ focus \in Foci
              /\ ConsoleStart /\ RateInit /\ DeskStart

OfficeNext ==
  \/ ConsoleMove /\ UNCHANGED <<focus, rateVars, deskVars>>
  \/ RateMove /\ UNCHANGED <<focus, consoleVars, deskVars>>
  \/ DeskMove /\ UNCHANGED <<focus, consoleVars, rateVars>>

OfficeSpec == OfficeInit /\ [][OfficeNext]_<<focus, consoleVars, rateVars, deskVars>>

\* Requests are told apart by nothing but their name.
OfficeSymmetry == Permutations(Callers) \cup Permutations(Desks) \cup Permutations(Editors)

\* Every variable of the three components holds a value of its kind.
OfficeTypeOK == ConsoleTypeOK /\ RateTypeOK /\ DeskTypeOK
=============================================================================
