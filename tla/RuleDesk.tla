------------------------------ MODULE RuleDesk ------------------------------
(***************************************************************************)
(* The three stacks of rules: their evaluation over facts that may be      *)
(* missing (policy/conds.ts, policy/stacks.ts, policy/fetch-compat.ts),    *)
(* the preview of a change (policy/preview.ts), and the handlers through   *)
(* which administrators change them (handlers/console/rules.ts over        *)
(* store/policy.ts).                                                       *)
(*                                                                         *)
(* A test of a fact is one keyword, user or number per field: a rule asks  *)
(* that it holds ("has") or that it does not ("not").  Handlers of two     *)
(* administrators overlap between their statements.                        *)
(***************************************************************************)
EXTENDS Integers, FiniteSets, Sequences

CONSTANTS
  RuleFields,   \* fields of a condition that some fact of a meeting answers
  RuleMeetings,
  RulePrograms,
  NoSubject,    \* subject of a rule that has none
  RuleAssets,
  ScanLimit,    \* MEETING_SCAN_LIMIT: meetings that one preview looks at
  TopPriority,
  MaxRuleId,    \* bound: policy_rules.id never goes beyond
  OldTables,    \* what migrations, the seed and older versions may have left: tables of any rows
  Editors,      \* console requests that may overlap
  Drafts,       \* bodies of POST /rules
  Patches,      \* bodies of PATCH /rules/:id: some fields of a row
  MaxEdits      \* bound: requests that write

Kinds == {"fetch", "archive", "allow"}
\* What the test of a field says: it holds, it does not, there is no such data ("none":
\* a meeting without a real end), the column is NULL ("gap").
FactValues == {"yes", "no", "none", "gap"}
Tests == {"any", "has", "not", "broken"}
Effects == {"open", "shut", "bad"}
\* readable: conds is an array of conditions; "any": no condition on that field.
RuleRows == [kind: Kinds, priority: 1..TopPriority, enabled: BOOLEAN, readable: BOOLEAN,
             join: {"and", "or"}, conds: [RuleFields -> Tests], effect: Effects,
             subject: RulePrograms \cup {NoSubject}, assets: SUBSET RuleAssets]
RuleColumns == {"kind", "priority", "enabled", "readable", "join", "conds", "effect",
                "subject", "assets"}
RuleIds == 1..MaxRuleId

ASSUME RuleAssumption ==
  /\ TopPriority \in Nat \ {0} /\ MaxRuleId \in Nat \ {0} /\ MaxEdits \in Nat
  /\ ScanLimit \in Nat \ {0}
  /\ NoSubject \notin RulePrograms
  /\ Drafts \subseteq RuleRows
  /\ \A T \in OldTables : /\ \E n \in 0..MaxRuleId : DOMAIN T = 1..n
                          /\ \A i \in DOMAIN T : T[i] \in RuleRows
  /\ \A p \in Patches : /\ DOMAIN p \subseteq RuleColumns
                        /\ \E r \in RuleRows : \A c \in DOMAIN p : p[c] = r[c]

VARIABLES
  rules,     \* policy_rules: a function from the ids in use to their rows
  nextRule,  \* AUTO_INCREMENT
  facts,     \* [RuleMeetings -> [RuleFields -> FactValues]]
  hand,      \* {<<meeting, kind>>} with an override, which these handlers only read
  editor,    \* [Editors -> state of a handler]
  edits,     \* requests that write so far
  ruleLedger \* audit_log

deskVars == <<rules, nextRule, facts, hand, editor, edits, ruleLedger>>

-----------------------------------------------------------------------------
\* A rule and a meeting (policy/conds.ts)

Tested(r) == {f \in RuleFields : r.conds[f] # "any"}

\* evaluateCond: what is wrong with the condition itself comes before the missing fact.
TestResult(test, fact) ==
  CASE test = "broken" -> "failed"
    [] test # "broken" /\ fact = "gap" -> "missing"
    [] test = "has" /\ fact = "yes" -> "matched"
    [] test = "not" /\ fact = "no" -> "matched"
    [] OTHER -> "failed"
Results(r, x) == {TestResult(r.conds[f], x[f]) : f \in Tested(r)}

\* matchesRule.
Hits(r, x) ==
  /\ r.readable
  /\ \/ Tested(r) = {}
     \/ r.join = "or" /\ "matched" \in Results(r, x)
     \/ r.join = "and" /\ Results(r, x) = {"matched"}

\* Mutant: a conjunction with a missing fact is undecidable whatever its other parts say.
UndecidableAnyGap(r, x) == r.readable /\ ~Hits(r, x) /\ "missing" \in Results(r, x)

\* isUndecidable: a conjunction that fails anyway is decided.
Undecidable(r, x) ==
  /\ r.readable /\ ~Hits(r, x) /\ "missing" \in Results(r, x)
  /\ r.join = "and" => Results(r, x) \subseteq {"matched", "missing"}

-----------------------------------------------------------------------------
\* A stack and a meeting (policy/stacks.ts): T maps ids to rows

\* compareRules: the higher priority, then the older rule.
Earlier(T, i, j) == \/ T[i].priority > T[j].priority
                    \/ T[i].priority = T[j].priority /\ i < j

\* checkSubject: the stacks of the system ignore a subject that was left on a rule.
Applies(k, r, p) == k = "allow" => r.subject = p /\ p # NoSubject

FirstOf(T, S) == CHOOSE i \in S : \A j \in S \ {i} : Earlier(T, i, j)

\* Mutant: a rule that cannot be decided is passed over.
StopsPassesOver(T, k, x, p) ==
  {i \in DOMAIN T : /\ T[i].kind = k /\ T[i].enabled
                    /\ Applies(k, T[i], p) /\ Hits(T[i], x)}

\* The rules at which the walk down the stack would end.
Stops(T, k, x, p) ==
  {i \in DOMAIN T : /\ T[i].kind = k /\ T[i].enabled /\ Applies(k, T[i], p)
                    /\ Hits(T[i], x) \/ Undecidable(T[i], x)}

\* evaluateStack: the fallback, a rule that cannot tell and one with a broken effect all
\* end on the safe side, which carries no assets.
Decide(T, k, x, p) ==
  LET stops == Stops(T, k, x, p)
      i == FirstOf(T, stops)
      shut(rule, source) == [effect |-> "shut", assets |-> {}, rule |-> rule, source |-> source]
  IN IF stops = {} THEN shut(0, "default")
     ELSE IF ~Hits(T[i], x) THEN shut(i, "undecidable")
     ELSE IF T[i].effect = "bad" THEN shut(i, "rule_invalid")
     ELSE [effect |-> T[i].effect, rule |-> i, source |-> "rule",
           assets |-> IF k # "archive" /\ T[i].effect = "open" THEN T[i].assets ELSE {}]

\* fetchStackUnconfigured, fetchRulesInEffect: with no rule to fetch by, everything is.
Unconfigured(T) == \A i \in DOMAIN T : ~(T[i].kind = "fetch" /\ T[i].enabled)
CompatRule == [kind |-> "fetch", priority |-> 1, enabled |-> TRUE, readable |-> TRUE,
               join |-> "and", conds |-> [f \in RuleFields |-> "any"], effect |-> "open",
               subject |-> NoSubject, assets |-> RuleAssets]
WithRow(T, i, r) == [j \in DOMAIN T \cup {i} |-> IF j = i THEN r ELSE T[j]]
Dropped(T, i) == [j \in DOMAIN T \ {i} |-> T[j]]
InEffect(T, k) == IF k = "fetch" /\ Unconfigured(T) THEN WithRow(T, 0, CompatRule) ELSE T

\* The decision by the rules in effect; and what it comes to, whoever made it.
Decision(T, k, x, p) == Decide(InEffect(T, k), k, x, p)
Verdict(T, k, x, p) == LET d == Decision(T, k, x, p)
                       IN [effect |-> d.effect, assets |-> d.assets]

-----------------------------------------------------------------------------
\* The preview of a change (policy/preview.ts)

\* programsOf: the programs some rule of either version names.
ProgramsOf(S, T) == {S[i].subject : i \in {j \in DOMAIN S : S[j].kind = "allow"}}
             \cup {T[i].subject : i \in {j \in DOMAIN T : T[j].kind = "allow"}}
\* scanMeetings: the page of the list that one preview looks at.
Scans == {W \in SUBSET RuleMeetings : Cardinality(W) <= ScanLimit}
\* buildSubjects, of the meetings W that were scanned.
Subjects(W, S, T, k) == IF k = "allow" THEN W \X (ProgramsOf(S, T) \ {NoSubject})
                        ELSE W \X {NoSubject}

\* diffRules, for one stack: the ids whose row differs, comes or goes.
Changed(S, T, k) ==
  {i \in DOMAIN S \cup DOMAIN T :
     /\ ~(i \in DOMAIN S /\ i \in DOMAIN T /\ S[i] = T[i])
     /\ (i \in DOMAIN S /\ S[i].kind = k) \/ (i \in DOMAIN T /\ T[i].kind = k)}

HitBy(S, T, i, x) == (i \in DOMAIN S /\ Hits(S[i], x)) \/ (i \in DOMAIN T /\ Hits(T[i], x))

\* Mutant: the scope is always that of the changed rules.
InScopeNoFlip(S, T, k, x) == \E i \in Changed(S, T, k) : HitBy(S, T, i, x)

\* Which meetings are evaluated at all: those a changed rule hits, all of them when the
\* fallback of the fetch stack turns over.
InScope(S, T, k, x) ==
  \/ \E i \in Changed(S, T, k) : HitBy(S, T, i, x)
  \/ k = "fetch" /\ Unconfigured(S) # Unconfigured(T)

\* previewStackImpact: an override shields whatever differs, be it no more than the rule
\* that decides; of the others, those decided alike by another rule are told apart.
Impact(W, S, T, k) ==
  LET differing == {s \in Subjects(W, S, T, k) :
                      /\ InScope(S, T, k, facts[s[1]])
                      /\ Decision(S, k, facts[s[1]], s[2]) # Decision(T, k, facts[s[1]], s[2])}
      shielded == {s \in differing : <<s[1], k>> \in hand}
      moved == {s \in differing : Verdict(S, k, facts[s[1]], s[2]) # Verdict(T, k, facts[s[1]], s[2])}
  IN [changed |-> moved \ shielded, shielded |-> shielded,
      deciderOnly |-> differing \ (moved \cup shielded)]

\* toStackRule: a draft without an id is compared under this one.
DraftId == -1
\* previewRules: the table that saving would lead to, as the preview sees it.
Candidate(S, T) ==
  LET kept == DOMAIN S \cap DOMAIN T IN
  [i \in kept \cup (IF DOMAIN T \subseteq DOMAIN S THEN {} ELSE {DraftId}) |->
     IF i = DraftId THEN T[CHOOSE j \in DOMAIN T \ DOMAIN S : TRUE] ELSE T[i]]

-----------------------------------------------------------------------------
\* The handlers that write (handlers/console/rules.ts, store/policy.ts)

NoEntry == [op |-> "none", ok |-> FALSE, rule |-> 0, before |-> <<>>, after |-> <<>>]
IdleEditor == [pc |-> "idle", rule |-> 0, patch |-> <<>>, before |-> <<>>, entry |-> NoEntry]
EditorAt(a, pc) == editor[a].pc = pc

\* validateDraft; a field without data is no fault of the rule.
Valid(d) ==
  /\ d.readable /\ Tested(d) # {}
  /\ \A f \in RuleFields : d.conds[f] # "broken"
  /\ d.effect # "bad"
  /\ (d.kind = "allow") <=> (d.subject # NoSubject)

\* The statement is done; its audit row is still to be written.
ToAudit(a, op, ok, i, before, after) ==
  editor' = [editor EXCEPT ![a] =
    [IdleEditor EXCEPT !.pc = "audit",
       !.entry = [op |-> op, ok |-> ok, rule |-> i, before |-> before, after |-> after]]]

\* A request of an administrator.
Sent(a) == EditorAt(a, "idle") /\ edits < MaxEdits /\ edits' = edits + 1

\* createRule: a draft that does not pass is refused, and the refusal audited.
CreateRule(a, d) ==
  /\ Sent(a) /\ nextRule <= MaxRuleId
  /\ IF Valid(d)
     THEN /\ rules' = WithRow(rules, nextRule, d) /\ nextRule' = nextRule + 1
          /\ ToAudit(a, "create", TRUE, nextRule, <<>>, d)
     ELSE /\ ToAudit(a, "create", FALSE, 0, <<>>, d)
          /\ UNCHANGED <<rules, nextRule>>
  /\ UNCHANGED <<facts, hand, ruleLedger>>

\* patchRule reads the row for the audit, deleteRule for its answer: getRule.
ReadRule(a, pc, i, p) ==
  /\ Sent(a)
  /\ editor' = [editor EXCEPT ![a] =
       [IdleEditor EXCEPT !.pc = pc, !.rule = i, !.patch = p, !.before = rules[i]]]
  /\ UNCHANGED <<rules, nextRule, facts, hand, ruleLedger>>

Merged(row, p) == [c \in RuleColumns |-> IF c \in DOMAIN p THEN p[c] ELSE row[c]]

\* Mutant: the patch is laid over the row the handler read first.
PatchRuleStale(a) ==
  LET e == editor[a]  row == Merged(e.before, e.patch) IN
  /\ EditorAt(a, "patch") /\ e.rule \in DOMAIN rules /\ Valid(row)
  /\ rules' = [rules EXCEPT ![e.rule] = row]
  /\ ToAudit(a, "update", TRUE, e.rule, e.before, row)
  /\ UNCHANGED <<nextRule, facts, hand, edits, ruleLedger>>

\* setEnabled, which checks nothing, when nothing else is asked for; else updateRule,
\* which merges into the locked row and checks the whole of it.
PatchRule(a) ==
  LET e == editor[a]  row == Merged(rules[e.rule], e.patch)
      toggle == DOMAIN e.patch = {"enabled"}
      op == IF toggle THEN "toggle" ELSE "update" IN
  /\ EditorAt(a, "patch")
  /\ IF e.rule \notin DOMAIN rules
     THEN editor' = [editor EXCEPT ![a] = IdleEditor] /\ UNCHANGED rules
     ELSE IF toggle \/ Valid(row)
     THEN /\ rules' = [rules EXCEPT ![e.rule] = row]
          /\ ToAudit(a, op, TRUE, e.rule, e.before, row)
     ELSE ToAudit(a, op, FALSE, e.rule, e.before, e.before) /\ UNCHANGED rules
  /\ UNCHANGED <<nextRule, facts, hand, edits, ruleLedger>>

\* deleteRule: the row that was read is what the audit will say was deleted.
DeleteRule(a) ==
  LET e == editor[a] IN
  /\ EditorAt(a, "delete")
  /\ IF e.rule \in DOMAIN rules
     THEN /\ rules' = Dropped(rules, e.rule)
          /\ ToAudit(a, "delete", TRUE, e.rule, e.before, <<>>)
     ELSE editor' = [editor EXCEPT ![a] = IdleEditor] /\ UNCHANGED rules
  /\ UNCHANGED <<nextRule, facts, hand, edits, ruleLedger>>

\* recordRuleAudit.
AuditEdit(a) ==
  /\ EditorAt(a, "audit")
  /\ ruleLedger' = Append(ruleLedger, editor[a].entry)
  /\ editor' = [editor EXCEPT ![a] = IdleEditor]
  /\ UNCHANGED <<rules, nextRule, facts, hand, edits>>

\* The gateway stops: the handlers are gone, the audit row of a write with them.
EditorsStop ==
  /\ editor' = [a \in Editors |-> IdleEditor]
  /\ UNCHANGED <<rules, nextRule, facts, hand, edits, ruleLedger>>

\* A column of meetings that was NULL is filled in by the worker or by the backfill.
Backfill(m, f, v) ==
  /\ facts[m][f] = "gap" /\ v # "gap"
  /\ facts' = [facts EXCEPT ![m][f] = v]
  /\ UNCHANGED <<rules, nextRule, hand, editor, edits, ruleLedger>>

-----------------------------------------------------------------------------
DeskInit ==
  /\ rules \in OldTables /\ nextRule = Cardinality(DOMAIN rules) + 1
  /\ facts \in [RuleMeetings -> [RuleFields -> FactValues]]
  /\ hand \in SUBSET (RuleMeetings \X Kinds)
  /\ editor = [a \in Editors |-> IdleEditor]
  /\ edits = 0 /\ ruleLedger = <<>>

EditStep(a) ==
  \/ \E d \in Drafts : CreateRule(a, d)
  \/ \E i \in DOMAIN rules, p \in Patches : ReadRule(a, "patch", i, p)
  \/ \E i \in DOMAIN rules : ReadRule(a, "delete", i, <<>>)
  \/ PatchRule(a) \/ DeleteRule(a) \/ AuditEdit(a)

DeskNext ==
  \/ \E a \in Editors : EditStep(a)
  \/ EditorsStop
  \/ \E m \in RuleMeetings, f \in RuleFields, v \in FactValues : Backfill(m, f, v)

DeskSpec == DeskInit /\ [][DeskNext]_deskVars

-----------------------------------------------------------------------------
DeskTypeOK ==
  /\ DOMAIN rules \subseteq 1..(nextRule - 1) /\ nextRule \in 1..(MaxRuleId + 1)
  /\ \A i \in DOMAIN rules : rules[i] \in RuleRows
  /\ facts \in [RuleMeetings -> [RuleFields -> FactValues]]
  /\ \A a \in Editors : editor[a].pc \in {"idle", "patch", "delete", "audit"}

\* The ways in which the missing facts of a meeting may turn out.
Completions(x) == {y \in [RuleFields -> FactValues \ {"gap"}] :
                     \A f \in RuleFields : x[f] # "gap" => y[f] = x[f]}
Asked(k) == IF k = "allow" THEN RulePrograms ELSE {NoSubject}

\* A decision reached although facts are missing is the one every completion of them
\* would give: no missing title lets a meeting slip past a rule that denies it
\* (conds.ts, section 4).  And a rule is called undecidable only where the missing
\* facts do matter to it: else it would shut out meetings it can never hit.
VerdictsAreExact ==
  \A k \in Kinds, m \in RuleMeetings : \A p \in Asked(k) :
    LET T == InEffect(rules, k)
        d == Decide(T, k, facts[m], p)
        full == Completions(facts[m])
    IN IF d.source # "undecidable"
       THEN \A y \in full : Decide(T, k, y, p) = d
       ELSE {Hits(T[d.rule], y) : y \in full} = BOOLEAN

\* The verdict of a meeting in force, which an override fixes.
Standing(T, k, s) == IF <<s[1], k>> \in hand THEN "hand" ELSE Verdict(T, k, facts[s[1]], s[2])
\* A meeting that was not scanned is in no list of the preview.  Of the others, it lists as
\* changed just the subjects whose standing verdict the change moves; as shielded those
\* under an override which the rules would decide in another way or by another rule; and
\* apart from both, those decided alike by another rule.
Foretold(W, S, T, k, s) ==
  LET listed == Impact(W, S, Candidate(S, T), k)
      moves == Standing(S, k, s) # Standing(T, k, s)
      differs == Decision(S, k, facts[s[1]], s[2]) # Decision(T, k, facts[s[1]], s[2])
      shields == <<s[1], k>> \in hand
  IN /\ s \in listed.changed <=> s[1] \in W /\ moves
     /\ s \in listed.shielded <=> s[1] \in W /\ shields /\ differs
     /\ s \in listed.deciderOnly <=> s[1] \in W /\ ~shields /\ ~moves /\ differs
\* A new rule that ties with an older one sorts ahead of it in the preview, since its id
\* is DraftId, and behind it once saved: such drafts are set apart.
TiesNone(S, T) ==
  \A i \in DOMAIN T \ DOMAIN S : \A j \in DOMAIN S :
    ~(S[j].kind = T[i].kind /\ S[j].priority = T[i].priority)
Gapless(m) == \A f \in RuleFields : facts[m][f] # "gap"

\* Saving does what its preview said, for every meeting it scanned whose facts are
\* complete: the scope of the preview leaves out no meeting that moves, not even when the
\* first or the last rule to fetch by turns the fallback over.
PreviewTellsKnown ==
  [][TiesNone(rules, rules') =>
       \A W \in Scans, k \in Kinds : \A s \in RuleMeetings \X Asked(k) :
         Gapless(s[1]) => Foretold(W, rules, rules', k, s)]_rules

\* Two edits of one rule at a time lose nothing of each other: a column changes only by
\* a request that names it, and a sound rule stays sound although each request was sent
\* against another version of the row.
EditsMerge ==
  [][\A i \in DOMAIN rules \cap DOMAIN rules' :
       /\ \A c \in RuleColumns : rules'[i][c] # rules[i][c] =>
            \E a \in Editors : /\ EditorAt(a, "patch") /\ editor[a].rule = i
                               /\ editor'[a].pc = "audit" /\ c \in DOMAIN editor[a].patch
       /\ Valid(rules[i]) => Valid(rules'[i])]_rules
=============================================================================
