----------------------------- MODULE AccessGate -----------------------------
(***************************************************************************)
(* What an external program may fetch: the gate in front of the gateway    *)
(* (policy/access.ts, policy/override.ts, policy/grant.ts), the handlers   *)
(* that answer from it (http/handlers/meetings.ts), the console actions    *)
(* that change what it reads (handlers/console/grants.ts, store/grants.ts, *)
(* store/programs.ts), the inventory the console shows                     *)
(* (worker/visibility.ts) and the round that grants meetings by itself     *)
(* (worker/auto-grant.ts).                                                 *)
(*                                                                         *)
(* The gate reads the facts of a meeting, its archive state, the program,  *)
(* the rules, the override and the grant in separate statements while each *)
(* of them changes.  A set of allow rules is what it lets a program take   *)
(* by a sheet of facts and the archive state (RuleDesk has the walk down   *)
(* the stack); the time rules about age ask is left out: a request asks    *)
(* with its own clock.  The gate takes the facts from meeting_cache, whose *)
(* columns are never NULL; the inventory and the automatic round take them *)
(* from meetings, where a sheet may have gaps.  The clock counts seconds   *)
(* of a token's life, a store write of the console and its audit row are   *)
(* one step.                                                               *)
(***************************************************************************)
EXTENDS Integers, FiniteSets

CONSTANTS
  Programs,     \* service_accounts.id
  Meetings,
  Assets,       \* kinds of assets
  Facts,        \* complete sheets of what rules ask of a meeting: title, host, times
  Sheets,       \* those, and sheets with gaps: NULL columns of meetings
  Fits,         \* [Sheets -> SUBSET Facts]: the complete sheets that agree with one
  RuleSets,     \* allow stacks, as what they let a program take
  Calls,        \* gateway requests that may be answered together
  NoRow,        \* no active row of a table
  NoLimit,      \* asset_types is NULL: no limit beyond the rules
  TokenTtl,     \* DOWNLOAD_TOKEN_TTL_SEC
  MaxClock,     \* bound: the clock stops there
  AdminBound,   \* bound: changes made on the console, and of the rows of a meeting
  RoundBound    \* bound: automatic rounds

ArchiveStates == {"archived", "unarchived"}
Rulings == [Programs \X Sheets \X ArchiveStates -> SUBSET Assets]

\* On a sheet with gaps a stack lets nothing through, or what it would let through
\* whatever the gaps hold (RuleDesk: VerdictsAreExact).
ASSUME RulesAssumption ==
  /\ RuleSets \subseteq Rulings /\ Fits \in [Sheets -> SUBSET Facts]
  /\ Facts \subseteq Sheets /\ \A f \in Facts : Fits[f] = {f}
  /\ \A R \in RuleSets, p \in Programs, s \in Sheets, b \in ArchiveStates :
       R[p, s, b] = {} \/ \A f \in Fits[s] : R[p, f, b] = R[p, s, b]
  /\ NoRow \notin Sheets

ASSUME AccessAssumption ==
  /\ TokenTtl \in Nat \ {0} /\ MaxClock \in Nat
  /\ AdminBound \in Nat /\ RoundBound \in Nat
  /\ NoRow # NoLimit /\ \A s \in SUBSET Assets : s # NoRow /\ s # NoLimit

VARIABLES
  clock,
  program,    \* service_accounts: [Programs -> row]
  ruling,     \* the enabled allow rules
  override,   \* meeting_overrides: the active allow row of a meeting
  grant,      \* meeting_grants: scope of the active row of a program and a meeting
  revoked,    \* meeting_grants: pairs with a revoked row
  cached,     \* meeting_cache: the facts the gate asks the rules about
  shown,      \* meetings: the sheet of facts the console and the worker ask about
  file,       \* where the completed assets of a meeting are
  call,       \* [Calls -> state of a request]
  auto,       \* state of the automatic round
  tokens,     \* download tokens issued
  ledger,     \* audit_log, as far as automatic grants and tokens go
  held,       \* history: when each condition of a fetch last held
  admins, rounds   \* counters of the bounds

console == <<program, ruling, override, grant, revoked>>
world == <<cached, shown, file>>
bounds == <<admins, rounds>>
vars == <<clock, console, world, call, auto, tokens, ledger, held, bounds>>

Pairs == Programs \X Meetings
Scopes == {NoLimit} \cup SUBSET Assets
ProgramRows == [exists: BOOLEAN, enabled: BOOLEAN, auto: BOOLEAN, scope: Scopes \ {{}}]
Denied == [effect |-> "deny", scope |-> NoLimit]
OverrideRows ==    \* a row that denies, or whose effect is not understood: its assets are not read
  [effect: {"allow"}, scope: Scopes] \cup {Denied}
CachedRows == [Meetings -> Facts \cup {NoRow}]
ShownRows == [Meetings -> Sheets \cup {NoRow}]
Overrides == [Meetings -> OverrideRows \cup {NoRow}]
Grants == [Pairs -> Scopes \cup {NoRow}]
Token == [program: Programs, meeting: Meetings, asset: Assets, exp: Nat]

Nothing(xs) == [x \in xs |-> {}]

\* The gateway and the worker are processes of their own: either may not be running.
Idle == [pc |-> "idle", kind |-> "url", program |-> NoRow, meetings |-> {},
         asset |-> NoRow, now |-> 0, facts |-> NoRow, archived |-> NoRow,
         rules |-> NoRow, grants |-> NoRow, verdict |-> Nothing({})]
Resting == [pc |-> "idle", programs |-> {}, program |-> NoRow, scope |-> Nothing({}),
            keys |-> {}, rules |-> NoRow, overrides |-> NoRow, meta |-> NoRow,
            archived |-> NoRow, granted |-> NoRow, revoked |-> NoRow, todo |-> {}, written |-> NoRow,
            activeBefore |-> {}, revokedBefore |-> {}]

-----------------------------------------------------------------------------
\* The decision (pure functions)

\* intersectGrantScope: NULL does not limit, the empty list lets nothing through.
Limit(assets, scope) == IF scope = NoLimit THEN assets ELSE assets \cap scope

\* applyOverride: an override replaces the rules; without a list of assets it keeps
\* the rules' list, and an effect that is not understood denies.
Overridden(assets, row) ==
  CASE row = NoRow -> assets
    [] row # NoRow /\ row.effect = "allow" /\ row.scope = NoLimit -> assets
    [] row # NoRow /\ row.effect = "allow" /\ row.scope # NoLimit -> row.scope
    [] OTHER -> {}

\* applyGrant: without a grant nothing, with one the common part.
ApplyGrant(assets, scope) == IF scope = NoRow THEN {} ELSE Limit(assets, scope)

\* listArchivedMeetingKeys, listMeetingArchives: is there a row of the archive.
ArchiveState(m) == IF file[m] \in {"both", "nas"} THEN "archived" ELSE "unarchived"

\* The verdict on a pair if every statement of the gate read the present rows.
Gate(p, m) ==
  IF program[p].enabled /\ cached[m] # NoRow
  THEN ApplyGrant(Overridden(ruling[p, cached[m], ArchiveState(m)], override[m]), grant[p, m])
  ELSE {}

\* Mutant: a column that is NULL counts as a value like any other.
InventoryFillsGaps(p, m) ==
  IF /\ grant[p, m] # NoRow
     /\ file[m] \in {"local", "both"}
     /\ shown[m] # NoRow
  THEN LET f == CHOOSE f \in Fits[shown[m]] : TRUE
       IN Limit(Overridden(ruling[p, f, ArchiveState(m)], override[m]), grant[p, m])
  ELSE {}

\* evaluateInventory over the program's active grants: what the console lists as
\* fetchable of a meeting, by the sheet of the meetings table: a gap is a fact that is
\* missing, not one that is empty.  The program's own status is not asked.
Inventory(p, m) ==
  IF /\ grant[p, m] # NoRow
     /\ file[m] \in {"local", "both"}
     /\ shown[m] # NoRow
  THEN Limit(Overridden(ruling[p, shown[m], ArchiveState(m)], override[m]), grant[p, m])
  ELSE {}

-----------------------------------------------------------------------------
\* The gateway

Serve(c, change) == call' = [call EXCEPT ![c] = change]
CallOnly == UNCHANGED <<clock, console, world, auto, bounds>>

\* The entry of downloadUrl, getMeeting and listMeetings: the clock is read first.
Ask(c) ==
  /\ call[c].pc = "idle"
  /\ \E p \in Programs :
       \/ \E m \in Meetings, a \in Assets :
            Serve(c, [Idle EXCEPT !.pc = "facts", !.kind = "url", !.program = p,
                                  !.meetings = {m}, !.asset = a, !.now = clock])
       \/ Serve(c, [Idle EXCEPT !.pc = "facts", !.kind = "list", !.program = p,
                                !.meetings = Meetings, !.now = clock])
  /\ CallOnly /\ UNCHANGED <<tokens, ledger>>

\* getByRecordId, listMeetings: the rows of meeting_cache.  A request for an asset of a
\* meeting without one is denied at once, a list has only the meetings with one.
ReadFacts(c) ==
  LET rows == {m \in call[c].meetings : cached[m] # NoRow}
  IN /\ call[c].pc = "facts"
     /\ IF rows = {}
        THEN Serve(c, [call[c] EXCEPT !.pc = "answer", !.verdict = Nothing(call[c].meetings)])
        ELSE Serve(c, [call[c] EXCEPT !.pc = "archived", !.meetings = rows,
                                      !.facts = [m \in rows |-> cached[m]]])
     /\ CallOnly /\ UNCHANGED <<tokens, ledger>>

ReadArchived(c) ==
  /\ call[c].pc = "archived"
  /\ Serve(c, [call[c] EXCEPT !.pc = "status",
                 !.archived = [m \in call[c].meetings |-> ArchiveState(m)]])
  /\ CallOnly /\ UNCHANGED <<tokens, ledger>>

\* Mutant: the status of the program is not asked.
ReadStatusSkipped(c) ==
  /\ call[c].pc = "status"
  /\ Serve(c, [call[c] EXCEPT !.pc = IF call[c].kind = "url" THEN "rules" ELSE "grants"])
  /\ CallOnly /\ UNCHANGED <<tokens, ledger>>

\* isProgramEnabled comes first, a disabled program is answered without the rules;
\* decideMany takes the program's grants next.
ReadStatus(c) ==
  /\ call[c].pc = "status"
  /\ IF ~program[call[c].program].enabled
     THEN Serve(c, [call[c] EXCEPT !.pc = "answer", !.verdict = Nothing(call[c].meetings)])
     ELSE Serve(c, [call[c] EXCEPT !.pc = IF call[c].kind = "url" THEN "rules" ELSE "grants"])
  /\ CallOnly /\ UNCHANGED <<tokens, ledger>>

ReadGrants(c) ==
  /\ call[c].pc = "grants"
  /\ Serve(c, [call[c] EXCEPT !.pc = "rules",
                 !.grants = [m \in call[c].meetings |-> grant[call[c].program, m]]])
  /\ CallOnly /\ UNCHANGED <<tokens, ledger>>

\* The rules of this moment are asked about the facts and the archive state read before.
ReadRules(c) ==
  LET asked(m) == <<call[c].program, call[c].facts[m], call[c].archived[m]>>
  IN /\ call[c].pc = "rules"
     /\ Serve(c, [call[c] EXCEPT !.pc = "override",
                    !.rules = [m \in call[c].meetings |-> ruling[asked(m)]]])
     /\ CallOnly /\ UNCHANGED <<tokens, ledger>>

\* The overrides are the last statement of decideMany; decide asks for the grant only
\* when the rules and the override let something through.
ReadOverride(c) ==
  LET ruled == [m \in call[c].meetings |-> Overridden(call[c].rules[m], override[m])]
      visible == \E m \in call[c].meetings : ruled[m] # {}
  IN /\ call[c].pc = "override"
     /\ IF call[c].kind = "list"
        THEN Serve(c, [call[c] EXCEPT !.pc = "answer",
               !.verdict = [m \in call[c].meetings |-> ApplyGrant(ruled[m], call[c].grants[m])]])
        ELSE Serve(c, [call[c] EXCEPT !.pc = IF visible THEN "grant" ELSE "answer",
                                      !.verdict = ruled])
     /\ CallOnly /\ UNCHANGED <<tokens, ledger>>

ReadGrant(c) ==
  /\ call[c].pc = "grant"
  /\ Serve(c, [call[c] EXCEPT !.pc = "answer",
                 !.verdict = [m \in call[c].meetings |->
                                ApplyGrant(call[c].verdict[m], grant[call[c].program, m])]])
  /\ CallOnly /\ UNCHANGED <<tokens, ledger>>

Target(c) == CHOOSE m \in call[c].meetings : TRUE
Allowed(c) == call[c].kind = "url" /\ call[c].asset \in call[c].verdict[Target(c)]

\* Both kinds of answer write their audit row first; when that fails the request does.
Audit(c) ==
  /\ call[c].pc = "answer"
  /\ \/ /\ ledger' = IF Allowed(c)
                     THEN ledger \cup {<<"url", call[c].program, Target(c), call[c].asset>>}
                     ELSE ledger
        /\ Serve(c, IF Allowed(c) THEN [call[c] EXCEPT !.pc = "issue"] ELSE Idle)
     \/ Serve(c, Idle) /\ UNCHANGED ledger
  /\ CallOnly /\ UNCHANGED tokens

\* Mutant: the address lives from the moment it is signed.
IssueUrlFromNow(c) ==
  /\ call[c].pc = "issue"
  /\ tokens' = IF file[Target(c)] = "absent" THEN tokens
               ELSE tokens \cup {[program |-> call[c].program, meeting |-> Target(c),
                                  asset |-> call[c].asset, exp |-> clock + TokenTtl]}
  /\ Serve(c, Idle)
  /\ CallOnly /\ UNCHANGED ledger

\* Only now is the file looked for; the token counts from the request's own clock.
IssueUrl(c) ==
  /\ call[c].pc = "issue"
  /\ tokens' = IF file[Target(c)] = "absent" THEN tokens
               ELSE tokens \cup {[program |-> call[c].program, meeting |-> Target(c),
                                  asset |-> call[c].asset, exp |-> call[c].now + TokenTtl]}
  /\ Serve(c, Idle)
  /\ CallOnly /\ UNCHANGED ledger

\* verifyDownloadToken and assetContent: no decision is taken again; the local file
\* first, then the copy on the NAS.
Serves(t) == clock < t.exp /\ file[t.meeting] # "absent"

-----------------------------------------------------------------------------
\* The console

Change == admins < AdminBound /\ admins' = admins + 1 /\ UNCHANGED rounds
ConsoleOnly == UNCHANGED <<clock, world, call, auto, tokens, ledger>>

\* createProgram: enabled, without automatic grants; a taken id changes nothing.
CreateProgram(p) ==
  /\ ~program[p].exists
  /\ program' = [program EXCEPT ![p] = [exists |-> TRUE, enabled |-> TRUE,
                                        auto |-> FALSE, scope |-> NoLimit]]
  /\ Change /\ ConsoleOnly /\ UNCHANGED <<ruling, override, grant, revoked>>

\* patchEnabled keeps the grants.
SetEnabled(p, on) ==
  /\ program[p].exists
  /\ program' = [program EXCEPT ![p].enabled = on]
  /\ Change /\ ConsoleOnly /\ UNCHANGED <<ruling, override, grant, revoked>>

\* Mutant: an empty list of assets is accepted.
SetAutoGrantEmpty(p, on, scope) ==
  /\ program[p].exists
  /\ program' = [program EXCEPT ![p] = [@ EXCEPT !.auto = on, !.scope = scope]]
  /\ Change /\ ConsoleOnly /\ UNCHANGED <<ruling, override, grant, revoked>>

\* patchAutoGrant refuses an empty list of assets.
SetAutoGrant(p, on, scope) ==
  /\ program[p].exists /\ scope # {}
  /\ program' = [program EXCEPT ![p] = [@ EXCEPT !.auto = on, !.scope = scope]]
  /\ Change /\ ConsoleOnly /\ UNCHANGED <<ruling, override, grant, revoked>>

\* GrantsStore.grant: an active row with the same scope is kept, another one is revoked
\* and a new row inserted, in one transaction (repeated on a duplicate key).
PutGrant(p, m, scope) ==
  /\ grant' = [grant EXCEPT ![<<p, m>>] = scope]
  /\ revoked' = IF grant[p, m] \in {NoRow, scope} THEN revoked ELSE revoked \cup {<<p, m>>}

GrantMeeting(p, m, scope) ==
  /\ program[p].exists
  /\ PutGrant(p, m, scope)
  /\ Change /\ ConsoleOnly /\ UNCHANGED <<program, ruling, override>>

\* revokeActive: nothing happens when no row is active.
RevokeGrant(p, m) ==
  /\ grant[p, m] # NoRow
  /\ grant' = [grant EXCEPT ![<<p, m>>] = NoRow]
  /\ revoked' = revoked \cup {<<p, m>>}
  /\ Change /\ ConsoleOnly /\ UNCHANGED <<program, ruling, override>>

\* putOverride takes any effect; one that is not understood is denied when it is read.
PutOverride(m, row) ==
  /\ override[m] # row
  /\ override' = [override EXCEPT ![m] = row]
  /\ Change /\ ConsoleOnly /\ UNCHANGED <<program, ruling, grant, revoked>>

RevokeOverride(m) ==
  /\ override[m] # NoRow
  /\ override' = [override EXCEPT ![m] = NoRow]
  /\ Change /\ ConsoleOnly /\ UNCHANGED <<program, ruling, grant, revoked>>

\* createRule, patchRule, deleteRule: another set of enabled rules.
ChangeRules(R) ==
  /\ ruling # R
  /\ ruling' = R
  /\ Change /\ ConsoleOnly /\ UNCHANGED <<program, override, grant, revoked>>

Admin ==
  \/ \E p \in Programs : CreateProgram(p) \/ \E on \in BOOLEAN : SetEnabled(p, on)
  \/ \E p \in Programs, on \in BOOLEAN, scope \in Scopes : SetAutoGrant(p, on, scope)
  \/ \E p \in Programs, m \in Meetings, scope \in Scopes : GrantMeeting(p, m, scope)
  \/ \E p \in Programs, m \in Meetings : RevokeGrant(p, m)
  \/ \E m \in Meetings, row \in OverrideRows : PutOverride(m, row)
  \/ \E m \in Meetings : RevokeOverride(m)
  \/ \E R \in RuleSets : ChangeRules(R)

-----------------------------------------------------------------------------
\* The automatic round

Active == {pair \in Pairs : grant[pair] # NoRow}

\* The programs and their scopes are read once; activeBefore and revokedBefore are
\* history: the pairs with such a row when the round began.
StartRound ==
  LET on == {p \in Programs : program[p].enabled /\ program[p].auto}
  IN /\ auto.pc = "idle" /\ rounds < RoundBound
     /\ rounds' = rounds + 1
     /\ auto' = [Resting EXCEPT !.pc = IF on = {} THEN "idle" ELSE "keys",
                   !.programs = on, !.scope = [p \in on |-> program[p].scope],
                   !.activeBefore = Active, !.revokedBefore = revoked]
     /\ UNCHANGED <<clock, console, world, call, tokens, ledger, admins>>

\* listMeetingKeysWithLocalFiles: every meeting with a completed asset row.
ReadKeys ==
  LET keys == {m \in Meetings : file[m] # "absent"}
  IN /\ auto.pc = "keys"
     /\ auto' = IF keys = {} THEN Resting ELSE [auto EXCEPT !.pc = "shared", !.keys = keys]
     /\ UNCHANGED <<clock, console, world, call, tokens, ledger, bounds>>

\* Promise.all: rules, metadata, archive rows and overrides in any order.
ReadShared ==
  /\ auto.pc = "shared"
  /\ \/ auto.rules = NoRow /\ auto' = [auto EXCEPT !.rules = ruling]
     \/ auto.overrides = NoRow /\ auto' = [auto EXCEPT !.overrides = override]
     \/ auto.meta = NoRow /\ auto' = [auto EXCEPT !.meta = shown]
     \/ /\ auto.archived = NoRow
        /\ auto' = [auto EXCEPT !.archived = [m \in Meetings |-> ArchiveState(m)]]
     \/ /\ NoRow \notin {auto.rules, auto.overrides, auto.meta, auto.archived}
        /\ auto' = [auto EXCEPT !.pc = "next"]
  /\ UNCHANGED <<clock, console, world, call, tokens, ledger, bounds>>

NextProgram ==
  /\ auto.pc = "next"
  /\ IF auto.programs = {} THEN auto' = Resting
     ELSE \E p \in auto.programs :
            auto' = [auto EXCEPT !.pc = "rows", !.programs = @ \ {p}, !.program = p,
                                 !.granted = NoRow, !.revoked = NoRow]
  /\ UNCHANGED <<clock, console, world, call, tokens, ledger, bounds>>

\* Promise.all again: the active rows and the revoked ones, in either order.
ReadRows ==
  LET p == auto.program
  IN /\ auto.pc = "rows"
     /\ \/ /\ auto.granted = NoRow
           /\ auto' = [auto EXCEPT !.granted = {m \in Meetings : grant[p, m] # NoRow}]
        \/ /\ auto.revoked = NoRow
           /\ auto' = [auto EXCEPT !.revoked = {m \in Meetings : <<p, m>> \in revoked}]
        \/ /\ auto.granted # NoRow /\ auto.revoked # NoRow
           /\ auto' = [auto EXCEPT !.pc = "plan"]
     /\ UNCHANGED <<clock, console, world, call, tokens, ledger, bounds>>

\* planAutoGrants: what the rules and the override make of a meeting, by what was read.
Planned(p, m) ==
  IF auto.meta[m] = NoRow THEN {}
  ELSE Overridden(auto.rules[p, auto.meta[m], auto.archived[m]], auto.overrides[m])

\* Mutant: only active rows keep a meeting from being granted.
PlanForgetsRevoked ==
  {m \in auto.keys : m \notin auto.granted /\ Planned(auto.program, m) # {}}

\* A meeting whose metadata are known, without an active row, that the rules let the
\* program take something of, and that nobody ever revoked.
Plan ==
  {m \in auto.keys : /\ m \notin auto.granted
                     /\ Planned(auto.program, m) # {}
                     /\ m \notin auto.revoked}

MakePlan ==
  /\ auto.pc = "plan"
  /\ auto' = [auto EXCEPT !.pc = "write", !.todo = Plan]
  /\ UNCHANGED <<clock, console, world, call, tokens, ledger, bounds>>

\* Mutant: the audit row is written before the grant.
WriteGrantAuditFirst ==
  /\ auto.pc = "write"
  /\ IF auto.todo = {} THEN auto' = [auto EXCEPT !.pc = "next"] /\ UNCHANGED <<grant, revoked, ledger>>
     ELSE \E m \in auto.todo :
            /\ ledger' = ledger \cup {<<"auto", auto.program, m, NoRow>>}
            /\ auto' = [auto EXCEPT !.pc = "audit", !.todo = @ \ {m}, !.written = m]
            /\ UNCHANGED <<grant, revoked>>
  /\ UNCHANGED <<clock, program, ruling, override, world, call, tokens, bounds>>

\* One grant of the plan, with the scope of the switch.
WriteGrant ==
  /\ auto.pc = "write"
  /\ IF auto.todo = {} THEN auto' = [auto EXCEPT !.pc = "next"] /\ UNCHANGED <<grant, revoked>>
     ELSE \E m \in auto.todo :
            /\ PutGrant(auto.program, m, auto.scope[auto.program])
            /\ auto' = [auto EXCEPT !.pc = "audit", !.todo = @ \ {m}, !.written = m]
  /\ UNCHANGED <<clock, program, ruling, override, world, call, tokens, ledger, bounds>>

AuditGrant ==
  /\ auto.pc = "audit"
  /\ ledger' = ledger \cup {<<"auto", auto.program, auto.written, NoRow>>}
  /\ auto' = [auto EXCEPT !.pc = "write", !.written = NoRow]
  /\ UNCHANGED <<clock, console, world, call, tokens, bounds>>

\* A statement of a program throws: the round goes on with the next program; one of
\* the shared statements throws: the round is over; so it is when the process dies.
RoundFails ==
  /\ auto.pc # "idle"
  /\ \/ auto.pc \in {"rows", "plan", "write", "audit"} /\ auto' = [auto EXCEPT !.pc = "next"]
     \/ auto' = Resting
  /\ UNCHANGED <<clock, console, world, call, tokens, ledger, bounds>>

Round == \/ StartRound \/ ReadKeys \/ ReadShared \/ NextProgram \/ ReadRows \/ MakePlan
         \/ WriteGrant \/ AuditGrant \/ RoundFails

-----------------------------------------------------------------------------
\* Downloading, archiving, cleaning and the clock, as the other modules describe them

FileMoves(m) ==
  /\ \/ file[m] = "absent" /\ file' = [file EXCEPT ![m] = "local"]
     \/ file[m] = "local"  /\ file' = [file EXCEPT ![m] = "both"]
     \/ file[m] = "both"   /\ file' = [file EXCEPT ![m] = "nas"]
  /\ UNCHANGED <<clock, console, cached, shown, call, auto, tokens, ledger, bounds>>

\* upsertMany of meeting_cache and the upsert of meetings, by rounds of their own: each
\* overwrites the whole row with what Tencent answered then.
Recache(m, f) ==
  /\ cached[m] # f /\ cached' = [cached EXCEPT ![m] = f]
  /\ Change /\ UNCHANGED <<clock, console, shown, file, call, auto, tokens, ledger>>

Discover(m, s) ==
  /\ shown[m] # s /\ shown' = [shown EXCEPT ![m] = s]
  /\ Change /\ UNCHANGED <<clock, console, cached, file, call, auto, tokens, ledger>>

Tick ==
  /\ clock < MaxClock /\ clock' = clock + 1
  /\ tokens' = {t \in tokens : clock' < t.exp}
  /\ UNCHANGED <<console, world, call, auto, ledger, bounds>>

\* History: the last second at which each row, as far as an answer rests on it, stood:
\* a program was enabled, an override left an asset or named it, a grant covered it, the
\* rules, the facts of a meeting and its archive state were these.
Marks ==
  ({"enabled"} \X Programs)
    \cup ({"kept", "forced"} \X Meetings \X Assets)
    \cup ({"granted"} \X Programs \X Meetings \X Assets)
    \cup ({"rules"} \X RuleSets)
    \cup ({"facts"} \X Meetings \X Facts)
    \cup ({"archived"} \X Meetings \X ArchiveStates)
So(x) ==
  \/ x[1] = "enabled" /\ program[x[2]].enabled
  \/ x[1] = "kept" /\ x[3] \in Overridden(Assets, override[x[2]])
  \/ x[1] = "forced" /\ x[3] \in Overridden({}, override[x[2]])
  \/ x[1] = "granted" /\ x[4] \in ApplyGrant(Assets, grant[x[2], x[3]])
  \/ x[1] = "rules" /\ ruling = x[2]
  \/ x[1] = "facts" /\ cached[x[2]] = x[3]
  \/ x[1] = "archived" /\ ArchiveState(x[2]) = x[3]
Never == -1

\* A condition of a fetch stood at t or later, by the history h.  The override names the
\* asset, or rules that stood then name it for facts that stood then: the gate reads them
\* in different statements, so they need not have stood together.
Conditions == {"enabled", "named", "kept", "granted"}
Stood(cond, h, t, p, m, a) ==
  \/ cond = "enabled" /\ h[<<"enabled", p>>] >= t
  \/ cond = "kept" /\ h[<<"kept", m, a>>] >= t
  \/ cond = "granted" /\ h[<<"granted", p, m, a>>] >= t
  \/ /\ cond = "named"
     /\ \E f \in Facts :
          /\ h[<<"facts", m, f>>] >= t
          /\ \/ h[<<"forced", m, a>>] >= t
             \/ \E R \in RuleSets, b \in ArchiveStates :
                  /\ a \in R[p, f, b]
                  /\ h[<<"rules", R>>] >= t /\ h[<<"archived", m, b>>] >= t

\* The tables are new, or hold what the console put there on an earlier day.
Init ==
  /\ clock \in {0, MaxClock}
  /\ program \in [Programs -> {[exists |-> FALSE, enabled |-> FALSE, auto |-> FALSE, scope |-> NoLimit],
                               [exists |-> TRUE, enabled |-> TRUE, auto |-> TRUE, scope |-> NoLimit]}]
  /\ ruling \in RuleSets
  /\ override \in {[m \in Meetings |-> NoRow], [m \in Meetings |-> Denied]}
  /\ grant \in {[pair \in Pairs |-> NoRow], [pair \in Pairs |-> NoLimit]}
  /\ revoked = {}
  /\ cached \in CachedRows /\ shown \in ShownRows
  /\ file = [m \in Meetings |-> "absent"]
  /\ call \in [Calls -> {Idle, [Idle EXCEPT !.pc = "down"]}]
  /\ auto = Resting
  /\ tokens = {} /\ ledger = {}
  /\ held = [x \in Marks |-> IF So(x) THEN clock ELSE Never]
  /\ admins = 0 /\ rounds \in {0, RoundBound}

Gateway ==
  \E c \in Calls : \/ Ask(c) \/ ReadFacts(c) \/ ReadArchived(c) \/ ReadStatus(c)
                   \/ ReadGrants(c) \/ ReadRules(c) \/ ReadOverride(c) \/ ReadGrant(c)
                   \/ Audit(c) \/ IssueUrl(c)

Step ==
  \/ Gateway
  \/ Admin
  \/ Round
  \/ Tick
  \/ \E m \in Meetings : \/ FileMoves(m)
                         \/ \E f \in Facts : Recache(m, f)
                         \/ \E s \in Sheets : Discover(m, s)

Next ==
  /\ Step
  /\ held' = [x \in Marks |-> IF So(x)' THEN clock' ELSE held[x]]

Spec == Init /\ [][Next]_vars

-----------------------------------------------------------------------------
\* Requests and rounds: what each carries between its statements.
AssetsOf == UNION {[ms -> SUBSET Assets] : ms \in SUBSET Meetings}
GrantsOf == UNION {[ms -> Scopes \cup {NoRow}] : ms \in SUBSET Meetings}
FactsOf == UNION {[ms -> Facts] : ms \in SUBSET Meetings}
StatesOf == UNION {[ms -> ArchiveStates] : ms \in SUBSET Meetings}
ScopesOf == UNION {[ps -> Scopes \ {{}}] : ps \in SUBSET Programs}
CallRows ==
  [pc: {"down", "idle", "facts", "archived", "status", "grants", "rules", "override", "grant", "answer", "issue"},
   kind: {"url", "list"}, program: Programs \cup {NoRow}, meetings: SUBSET Meetings,
   asset: Assets \cup {NoRow}, now: Nat, facts: FactsOf \cup {NoRow},
   archived: StatesOf \cup {NoRow}, rules: AssetsOf \cup {NoRow}, grants: GrantsOf \cup {NoRow}, verdict: AssetsOf]
AutoRows ==
  [pc: {"idle", "keys", "shared", "next", "rows", "plan", "write", "audit"},
   programs: SUBSET Programs, program: Programs \cup {NoRow}, scope: ScopesOf,
   keys: SUBSET Meetings, rules: RuleSets \cup {NoRow}, overrides: Overrides \cup {NoRow},
   meta: ShownRows \cup {NoRow}, archived: [Meetings -> ArchiveStates] \cup {NoRow},
   granted: {NoRow} \cup SUBSET Meetings,
   revoked: {NoRow} \cup SUBSET Meetings, todo: SUBSET Meetings,
   written: Meetings \cup {NoRow}, activeBefore: SUBSET Pairs, revokedBefore: SUBSET Pairs]

AccessTypeOK ==
  /\ clock \in 0..MaxClock
  /\ program \in [Programs -> ProgramRows]
  /\ ruling \in RuleSets /\ override \in Overrides /\ grant \in Grants
  /\ revoked \subseteq Pairs
  /\ cached \in CachedRows /\ shown \in ShownRows
  /\ file \in [Meetings -> {"absent", "local", "both", "nas"}]
  /\ call \in [Calls -> CallRows] /\ auto \in AutoRows
  /\ tokens \subseteq Token
  /\ held \in [Marks -> Int]

\* Everything an answer of the gateway shows or signs an address for rests, condition by
\* condition, on rows that stood at some moment of that very request: a grant revoked, a
\* program disabled, a rule or the facts of a meeting changed before the request came in
\* are never overlooked, however the gate's statements and the changes interleave.  The
\* rows need not have stood together.
AnswersHeld ==
  \A c \in Calls :
    call[c].pc \in {"answer", "issue"} =>
      \A m \in call[c].meetings : \A a \in call[c].verdict[m] :
        \A cond \in Conditions : Stood(cond, held, call[c].now, call[c].program, m, a)

\* An address serves bytes only while each condition stood less than its lifetime ago:
\* the answer of a slow request does not live longer.
RevocationBites ==
  \A t \in tokens : Serves(t) =>
    \E s \in 0..clock :
      /\ clock < s + TokenTtl
      /\ \A cond \in Conditions : Stood(cond, held, s, t.program, t.meeting, t.asset)

\* audit_log never runs ahead of the deed nor behind an address: a row of an automatic
\* grant has its grant written, an address has its row.
LedgerInOrder ==
  /\ \A p \in Programs, m \in Meetings :
       <<"auto", p, m, NoRow>> \in ledger => grant[p, m] # NoRow \/ <<p, m>> \in revoked
  /\ \A t \in tokens : <<"url", t.program, t.meeting, t.asset>> \in ledger

\* Where the two tables do not contradict each other the inventory never lists for an
\* enabled program what the gate would refuse now, whatever columns of meetings are NULL;
\* and it lists all of what the gate lets through of a local file when none is.
InventoryWithinGate ==
  \A p \in Programs, m \in Meetings :
    /\ program[p].enabled /\ shown[m] # NoRow /\ cached[m] \in Fits[shown[m]]
    => /\ Inventory(p, m) \subseteq Gate(p, m)
       /\ shown[m] \in Facts /\ file[m] \in {"local", "both"} =>
            Inventory(p, m) = Gate(p, m)

Wrote(p, m) == auto.pc = "write" /\ auto'.pc = "audit" /\ auto'.written = m /\ auto.program = p

\* The automatic round never writes a grant where one had been revoked before the round
\* began, and replaces none that was active then: what was decided by hand before a
\* round stands, whatever happens during it.
AutoRespectsDecisions ==
  [][\A p \in Programs, m \in Meetings :
       Wrote(p, m) => /\ <<p, m>> \notin auto.revokedBefore
                      /\ <<p, m>> \in auto.activeBefore => <<p, m>> \in revoked]_vars
=============================================================================
