-------------------------- MODULE AccessGateProofs --------------------------
(***************************************************************************)
(* Proofs about AccessGate for any programs, meetings, assets, requests    *)
(* answered together, and any number of changes and rounds.                *)
(*                                                                         *)
(* What a request or a round holds is stated by operators of the record,   *)
(* the history and the tables, so that one lemma carries it from a state   *)
(* to any later one.                                                       *)
(***************************************************************************)
EXTENDS AccessGate, TLAPS

-----------------------------------------------------------------------------
HeldTypes == [Marks -> Int]

\* The history is never behind the clock for what is so now, and never ahead of it.
HeldInv == \A x \in Marks : held[x] <= clock /\ (So(x) => held[x] = clock)

\* What vs lets a request take stood, under the conditions, at some moment of the request.
Rests(r, vs, conds, h) ==
  \A m \in r.meetings : \A a \in vs[m] : \A cond \in conds :
    Stood(cond, h, r.now, r.program, m, a)

\* So did the facts and the archive states a request has read.
FactsRead(r, h) == /\ r.facts \in [r.meetings -> Facts]
                   /\ \A m \in r.meetings : h[<<"facts", m, r.facts[m]>>] >= r.now
StatesRead(r, h) == /\ r.archived \in [r.meetings -> ArchiveStates]
                    /\ \A m \in r.meetings : h[<<"archived", m, r.archived[m]>>] >= r.now

\* What a request has read, given the history h, the clock t and the audit log l.
CallHolds(r, h, t, l) ==
  r.pc \notin {"down", "idle"} =>
    /\ r.program \in Programs /\ r.now <= t
    /\ r.kind = "url" => r.asset \in Assets /\ \E m \in Meetings : r.meetings = {m}
    /\ r.pc = "grants" => r.kind = "list"
    /\ r.pc \in {"archived", "status", "grants", "rules", "override"} => FactsRead(r, h)
    /\ r.pc \in {"status", "grants", "rules"} => StatesRead(r, h)
    /\ r.pc \in {"grants", "rules", "override", "grant"} =>
         Rests(r, [m \in r.meetings |-> Assets], {"enabled"}, h)
    /\ r.pc \in {"rules", "override"} /\ r.kind = "list" =>
         /\ r.grants \in [r.meetings -> Scopes \cup {NoRow}]
         /\ Rests(r, [m \in r.meetings |-> ApplyGrant(Assets, r.grants[m])], {"granted"}, h)
    /\ r.pc = "override" =>
         r.rules \in [r.meetings -> SUBSET Assets] /\ Rests(r, r.rules, {"named"}, h)
    /\ r.pc = "grant" =>
         /\ r.kind = "url" /\ r.verdict \in [r.meetings -> SUBSET Assets]
         /\ Rests(r, r.verdict, {"named", "kept"}, h)
    /\ r.pc \in {"answer", "issue"} =>
         r.verdict \in [r.meetings -> SUBSET Assets] /\ Rests(r, r.verdict, Conditions, h)
    /\ r.pc = "issue" =>
         /\ r.kind = "url"
         /\ \A m \in r.meetings : /\ r.asset \in r.verdict[m]
                                  /\ <<"url", r.program, m, r.asset>> \in l
CallsHold == \A c \in Calls : CallHolds(call[c], held, clock, ledger)

\* An address has its audit row, and rests on rows that stood a lifetime before its end.
TokenHolds(t, h, now, l) ==
  /\ <<"url", t.program, t.meeting, t.asset>> \in l
  /\ t.exp - TokenTtl \in 0..now
  /\ \A cond \in Conditions : Stood(cond, h, t.exp - TokenTtl, t.program, t.meeting, t.asset)
TokensHold == \A t \in tokens : TokenHolds(t, held, clock, ledger)

\* A pair that was granted at some time, given the grants g and the revoked pairs v.
Taken(pair, g, v) == g[pair] # NoRow \/ pair \in v

\* What the round may still write to: nothing revoked before it, nothing active before
\* it but what was revoked since.
Unwritten(r, m, v) == /\ <<r.program, m>> \notin r.revokedBefore
                      /\ <<r.program, m>> \in r.activeBefore => <<r.program, m>> \in v

\* What the automatic round has read, given the grants g and the revoked pairs v.
InProgram == {"rows", "plan", "write", "audit"}
AutoHolds(r, g, v) ==
  /\ r.programs \subseteq DOMAIN r.scope
  /\ r.pc \in InProgram => r.program \in DOMAIN r.scope
  /\ r.revokedBefore \subseteq v
  /\ \A pair \in r.activeBefore : Taken(pair, g, v)
  /\ r.pc \in {"rows", "plan"} /\ r.granted # NoRow =>
       \A m \in Meetings \ r.granted : <<r.program, m>> \in r.activeBefore => <<r.program, m>> \in v
  /\ r.pc \in {"rows", "plan"} /\ r.revoked # NoRow =>
       \A m \in Meetings : <<r.program, m>> \in r.revokedBefore => m \in r.revoked
  /\ r.pc = "plan" => r.granted # NoRow /\ r.revoked # NoRow
  /\ r.pc \in {"write", "audit"} => \A m \in r.todo : Unwritten(r, m, v)
  /\ r.pc = "audit" => r.written \in Meetings /\ Taken(<<r.program, r.written>>, g, v)

\* The inductive invariant.
AccessInv == /\ AccessTypeOK /\ HeldInv /\ CallsHold /\ TokensHold
             /\ AutoHolds(auto, grant, revoked) /\ LedgerInOrder

-----------------------------------------------------------------------------
\* The decision

\* An override gives what it lists, and of the rest what it does not take away.
LEMMA OverriddenSplit ==
  ASSUME NEW X \in SUBSET Assets, NEW row \in OverrideRows \cup {NoRow}
  PROVE  /\ Overridden(X, row) \subseteq Assets
         /\ \A a : a \in Overridden(X, row) <=>
                     /\ a \in Overridden(Assets, row)
                     /\ a \in X \/ a \in Overridden({}, row)
  <1>1. CASE row = NoRow
    BY <1>1 DEF Overridden
  <1>2. CASE row # NoRow /\ row.effect = "allow" /\ row.scope = NoLimit
    BY <1>2 DEF Overridden
  <1>3. CASE row # NoRow /\ row.effect = "allow" /\ row.scope # NoLimit
    <2>1. row.scope \subseteq Assets
      BY <1>3 DEF OverrideRows, Denied, Scopes
    <2>2. \A Y : Overridden(Y, row) = row.scope
      BY <1>3 DEF Overridden
    <2>3. QED  BY <2>1, <2>2
  <1>4. CASE row # NoRow /\ row.effect # "allow"
    <2>1. \A Y : Overridden(Y, row) = {}
      BY <1>4 DEF Overridden
    <2>2. QED  BY <2>1
  <1>5. QED  BY <1>1, <1>2, <1>3, <1>4

\* A grant lets through of anything what it lets through of everything.
LEMMA GrantSplit ==
  ASSUME NEW X \in SUBSET Assets, NEW scope \in Scopes \cup {NoRow}
  PROVE  /\ ApplyGrant(X, scope) \subseteq Assets
         /\ \A a : a \in ApplyGrant(X, scope) <=> a \in X /\ a \in ApplyGrant(Assets, scope)
  BY DEF ApplyGrant, Limit, Scopes

\* A stack lets a program take assets; on a sheet with gaps none, or those it lets it take
\* on every complete sheet that agrees.
LEMMA RuledAssets ==
  ASSUME NEW R \in RuleSets, NEW p \in Programs, NEW s \in Sheets, NEW b \in ArchiveStates,
         NEW f \in Fits[s]
  PROVE  R[p, s, b] \in SUBSET Assets /\ R[p, f, b] \in SUBSET Assets
         /\ (R[p, s, b] = {} \/ R[p, f, b] = R[p, s, b])
  <1>1. f \in Sheets
    BY RulesAssumption
  <1>2. R \in [Programs \X Sheets \X ArchiveStates -> SUBSET Assets]
    BY RulesAssumption DEF Rulings
  <1>3. R[p, s, b] \in SUBSET Assets /\ R[p, f, b] \in SUBSET Assets
    BY <1>1, <1>2
  <1>4. R[p, s, b] = {} \/ R[p, f, b] = R[p, s, b]
    <2>1. \A S \in RuleSets, q \in Programs, t \in Sheets, c \in ArchiveStates :
            S[q, t, c] = {} \/ \A g \in Fits[t] : S[q, g, c] = S[q, t, c]
      BY Zenon, RulesAssumption
    <2>2. R[p, s, b] = {} \/ \A g \in Fits[s] : R[p, g, b] = R[p, s, b]
      BY Zenon, <2>1
    <2>3. QED  BY Zenon, <2>2
  <1>5. QED  BY <1>3, <1>4

-----------------------------------------------------------------------------
\* The history

Later(h, h2) == \A x \in Marks : h2[x] >= h[x]

\* The marks of the rows that answers rest on.
LEMMA MarkRows ==
  ASSUME NEW p \in Programs, NEW m \in Meetings
  PROVE  /\ <<"enabled", p>> \in Marks
         /\ \A a \in Assets : /\ <<"kept", m, a>> \in Marks /\ <<"forced", m, a>> \in Marks
                             /\ <<"granted", p, m, a>> \in Marks
         /\ \A R \in RuleSets : <<"rules", R>> \in Marks
         /\ \A f \in Facts : <<"facts", m, f>> \in Marks
         /\ \A b \in ArchiveStates : <<"archived", m, b>> \in Marks
  BY DEF Marks

\* What is so now stood now.
LEMMA HeldNow ==
  ASSUME AccessTypeOK, HeldInv, NEW p \in Programs, NEW m \in Meetings
  PROVE  /\ program[p].enabled => held[<<"enabled", p>>] = clock
         /\ \A a \in Assets :
              /\ a \in Overridden(Assets, override[m]) => held[<<"kept", m, a>>] = clock
              /\ a \in Overridden({}, override[m]) => held[<<"forced", m, a>>] = clock
              /\ a \in ApplyGrant(Assets, grant[p, m]) => held[<<"granted", p, m, a>>] = clock
         /\ held[<<"rules", ruling>>] = clock
         /\ cached[m] # NoRow => cached[m] \in Facts /\ held[<<"facts", m, cached[m]>>] = clock
         /\ ArchiveState(m) \in ArchiveStates /\ held[<<"archived", m, ArchiveState(m)>>] = clock
  <1>1. \A x \in Marks : So(x) => held[x] = clock
    BY DEF HeldInv
  <1>2. program[p].enabled => held[<<"enabled", p>>] = clock
    BY <1>1, MarkRows DEF So
  <1>3. ASSUME NEW a \in Assets
        PROVE  /\ a \in Overridden(Assets, override[m]) => held[<<"kept", m, a>>] = clock
               /\ a \in Overridden({}, override[m]) => held[<<"forced", m, a>>] = clock
               /\ a \in ApplyGrant(Assets, grant[p, m]) => held[<<"granted", p, m, a>>] = clock
    <2>1. ASSUME a \in Overridden(Assets, override[m]) PROVE So(<<"kept", m, a>>)
      BY <2>1 DEF So
    <2>2. ASSUME a \in Overridden({}, override[m]) PROVE So(<<"forced", m, a>>)
      BY <2>2 DEF So
    <2>3. ASSUME a \in ApplyGrant(Assets, grant[p, m]) PROVE So(<<"granted", p, m, a>>)
      BY <2>3 DEF So
    <2>4. QED  BY <1>1, <2>1, <2>2, <2>3, MarkRows
  <1>4. held[<<"rules", ruling>>] = clock
    <2>1. ruling \in RuleSets
      BY DEF AccessTypeOK
    <2>2. So(<<"rules", ruling>>)
      BY DEF So
    <2>3. QED  BY <1>1, <2>1, <2>2, MarkRows
  <1>5. ASSUME cached[m] # NoRow
        PROVE  cached[m] \in Facts /\ held[<<"facts", m, cached[m]>>] = clock
    <2>1. cached[m] \in Facts
      BY <1>5 DEF AccessTypeOK, CachedRows
    <2>2. So(<<"facts", m, cached[m]>>)
      BY DEF So
    <2>3. QED  BY <1>1, <2>1, <2>2, MarkRows
  <1>6. ArchiveState(m) \in ArchiveStates /\ held[<<"archived", m, ArchiveState(m)>>] = clock
    <2>1. ArchiveState(m) \in ArchiveStates
      BY DEF ArchiveState, ArchiveStates
    <2>2. So(<<"archived", m, ArchiveState(m)>>)
      BY DEF So
    <2>3. QED  BY <1>1, <2>1, <2>2, MarkRows
  <1>7. QED  BY <1>2, <1>3, <1>4, <1>5, <1>6

LEMMA StoodNow ==
  ASSUME AccessTypeOK, HeldInv, NEW p \in Programs, NEW m \in Meetings, NEW a \in Assets,
         NEW t \in Int, t <= clock
  PROVE  /\ program[p].enabled => Stood("enabled", held, t, p, m, a)
         /\ a \in Overridden(Assets, override[m]) => Stood("kept", held, t, p, m, a)
         /\ a \in ApplyGrant(Assets, grant[p, m]) => Stood("granted", held, t, p, m, a)
  <1>1. clock \in Int /\ clock >= t
    BY DEF AccessTypeOK
  <1>2. /\ program[p].enabled => held[<<"enabled", p>>] >= t
        /\ a \in Overridden(Assets, override[m]) => held[<<"kept", m, a>>] >= t
        /\ a \in ApplyGrant(Assets, grant[p, m]) => held[<<"granted", p, m, a>>] >= t
    BY <1>1, HeldNow
  <1>3. QED  BY <1>2 DEF Stood

\* Every step moves the history on.
LEMMA HeldStep ==
  ASSUME AccessTypeOK, HeldInv, clock' \in Int, clock' >= clock,
         held' = [x \in Marks |-> IF So(x)' THEN clock' ELSE held[x]]
  PROVE  held' \in HeldTypes /\ Later(held, held') /\ HeldInv'
  <1>1. held \in HeldTypes /\ clock \in Int
    BY DEF AccessTypeOK, HeldTypes
  <1>2. ASSUME NEW x \in Marks
        PROVE  /\ held'[x] = IF So(x)' THEN clock' ELSE held[x]
               /\ held[x] \in Int /\ held[x] <= clock
    BY <1>1 DEF HeldInv, HeldTypes
  <1>3. held' \in HeldTypes
    <2> DEFINE val(x) == IF So(x)' THEN clock' ELSE held[x]
    <2>1. ASSUME NEW x \in Marks PROVE val(x) \in Int
      BY <1>2
    <2>2. held' = [x \in Marks |-> val(x)]
      OBVIOUS
    <2> HIDE DEF val
    <2>3. QED  BY <2>1, <2>2 DEF HeldTypes
  <1>4. Later(held, held')
    BY <1>1, <1>2 DEF Later
  <1>5. ASSUME NEW x \in Marks
        PROVE  held'[x] <= clock' /\ (So(x)' => held'[x] = clock')
    BY <1>1, <1>2
  <1>6. QED  BY <1>3, <1>4, <1>5 DEF HeldInv

\* What stood stays so.
LEMMA StoodLater ==
  ASSUME NEW h \in HeldTypes, NEW h2 \in HeldTypes, Later(h, h2), NEW t \in Int,
         NEW p \in Programs, NEW m \in Meetings, NEW a \in Assets, NEW cond,
         Stood(cond, h, t, p, m, a)
  PROVE  Stood(cond, h2, t, p, m, a)
  <1>1. ASSUME NEW x \in Marks, h[x] >= t PROVE h2[x] >= t
    <2>1. h[x] \in Int /\ h2[x] \in Int /\ h2[x] >= h[x]
      BY DEF HeldTypes, Later
    <2>2. QED  BY <1>1, <2>1
  <1>2. CASE cond = "enabled" /\ h[<<"enabled", p>>] >= t
    BY <1>1, <1>2, MarkRows DEF Stood
  <1>3. CASE cond = "kept" /\ h[<<"kept", m, a>>] >= t
    BY <1>1, <1>3, MarkRows DEF Stood
  <1>4. CASE cond = "granted" /\ h[<<"granted", p, m, a>>] >= t
    BY <1>1, <1>4, MarkRows DEF Stood
  <1>5. ASSUME cond = "named", NEW f \in Facts, h[<<"facts", m, f>>] >= t,
               h[<<"forced", m, a>>] >= t
        PROVE  Stood(cond, h2, t, p, m, a)
    <2>1. h2[<<"facts", m, f>>] >= t /\ h2[<<"forced", m, a>>] >= t
      BY <1>1, <1>5, MarkRows
    <2>2. QED  BY <1>5, <2>1 DEF Stood
  <1>6. ASSUME cond = "named", NEW f \in Facts, h[<<"facts", m, f>>] >= t,
               NEW R \in RuleSets, NEW b \in ArchiveStates, a \in R[p, f, b],
               h[<<"rules", R>>] >= t, h[<<"archived", m, b>>] >= t
        PROVE  Stood(cond, h2, t, p, m, a)
    <2>1. /\ h2[<<"facts", m, f>>] >= t /\ h2[<<"rules", R>>] >= t
          /\ h2[<<"archived", m, b>>] >= t
      BY <1>1, <1>6, MarkRows
    <2>2. QED  BY <1>6, <2>1 DEF Stood
  <1>7. QED  BY <1>2, <1>3, <1>4, <1>5, <1>6 DEF Stood

LEMMA RestsLater ==
  ASSUME NEW r \in CallRows, NEW vs \in [r.meetings -> SUBSET Assets], NEW conds,
         NEW h \in HeldTypes, NEW h2 \in HeldTypes, Later(h, h2), r.program \in Programs,
         Rests(r, vs, conds, h)
  PROVE  Rests(r, vs, conds, h2)
  <1> SUFFICES ASSUME NEW m \in r.meetings, NEW a \in vs[m], NEW cond \in conds
               PROVE  Stood(cond, h2, r.now, r.program, m, a)
    BY DEF Rests
  <1>1. m \in Meetings /\ a \in Assets /\ r.now \in Int
    BY DEF CallRows
  <1>2. Stood(cond, h, r.now, r.program, m, a)
    BY DEF Rests
  <1>3. QED  BY <1>1, <1>2, StoodLater

LEMMA ReadLater ==
  ASSUME NEW r \in CallRows, NEW h \in HeldTypes, NEW h2 \in HeldTypes, Later(h, h2)
  PROVE  /\ FactsRead(r, h) => FactsRead(r, h2)
         /\ StatesRead(r, h) => StatesRead(r, h2)
  <1>1. ASSUME NEW x \in Marks, h[x] >= r.now PROVE h2[x] >= r.now
    <2>1. h[x] \in Int /\ h2[x] \in Int /\ h2[x] >= h[x] /\ r.now \in Int
      BY DEF HeldTypes, Later, CallRows
    <2>2. QED  BY <1>1, <2>1
  <1>2. r.meetings \subseteq Meetings
    BY DEF CallRows
  <1>3. ASSUME FactsRead(r, h), NEW m \in r.meetings PROVE h2[<<"facts", m, r.facts[m]>>] >= r.now
    <2>1. <<"facts", m, r.facts[m]>> \in Marks /\ h[<<"facts", m, r.facts[m]>>] >= r.now
      BY <1>2, <1>3 DEF FactsRead, Marks
    <2>2. QED  BY <1>1, <2>1
  <1>4. ASSUME StatesRead(r, h), NEW m \in r.meetings
        PROVE  h2[<<"archived", m, r.archived[m]>>] >= r.now
    <2>1. /\ <<"archived", m, r.archived[m]>> \in Marks
          /\ h[<<"archived", m, r.archived[m]>>] >= r.now
      BY <1>2, <1>4 DEF StatesRead, Marks
    <2>2. QED  BY <1>1, <2>1
  <1>5. QED  BY <1>3, <1>4 DEF FactsRead, StatesRead

LEMMA CallLater ==
  ASSUME NEW r \in CallRows, NEW h \in HeldTypes, NEW h2 \in HeldTypes, Later(h, h2),
         NEW t \in Int, NEW t2 \in Int, t <= t2, NEW l, NEW l2, l \subseteq l2,
         CallHolds(r, h, t, l)
  PROVE  CallHolds(r, h2, t2, l2)
  <1> SUFFICES ASSUME r.pc \notin {"down", "idle"} PROVE CallHolds(r, h2, t2, l2)
    BY DEF CallHolds
  <1>1. r.program \in Programs /\ r.now <= t /\ r.now \in Int /\ r.meetings \subseteq Meetings
    BY DEF CallHolds, CallRows
  <1>2. ASSUME NEW vs \in [r.meetings -> SUBSET Assets], NEW conds, Rests(r, vs, conds, h)
        PROVE  Rests(r, vs, conds, h2)
    BY <1>1, <1>2, RestsLater
  <1>3. /\ FactsRead(r, h) => FactsRead(r, h2)
        /\ StatesRead(r, h) => StatesRead(r, h2)
    BY ReadLater
  <1>4. ASSUME r.grants \in [r.meetings -> Scopes \cup {NoRow}]
        PROVE  [m \in r.meetings |-> ApplyGrant(Assets, r.grants[m])] \in [r.meetings -> SUBSET Assets]
    BY <1>4, GrantSplit
  <1>5. r.pc \in {"grants", "rules", "override", "grant"} =>
          Rests(r, [m \in r.meetings |-> Assets], {"enabled"}, h2)
    BY <1>2 DEF CallHolds
  <1>6. r.pc \in {"rules", "override"} /\ r.kind = "list" =>
          Rests(r, [m \in r.meetings |-> ApplyGrant(Assets, r.grants[m])], {"granted"}, h2)
    BY <1>2, <1>4 DEF CallHolds
  <1>7. /\ r.pc = "override" => Rests(r, r.rules, {"named"}, h2)
        /\ r.pc = "grant" => Rests(r, r.verdict, {"named", "kept"}, h2)
        /\ r.pc \in {"answer", "issue"} => Rests(r, r.verdict, Conditions, h2)
    BY <1>2 DEF CallHolds
  <1>8. r.now <= t2
    BY <1>1
  <1>9. QED  BY <1>3, <1>5, <1>6, <1>7, <1>8 DEF CallHolds

-----------------------------------------------------------------------------
\* The gateway

\* What the rows of a request say of one of its meetings.
LEMMA Served ==
  ASSUME AccessTypeOK, NEW c \in Calls, NEW row \in CallRows, Serve(c, row)
  PROVE  /\ call' \in [Calls -> CallRows] /\ call'[c] = row
         /\ \A b \in Calls : b # c => call'[b] = call[b]
  BY DEF AccessTypeOK, Serve

\* A request that is not being answered.
LEMMA IdleCall == Idle \in CallRows /\ Idle.pc = "idle" /\ Nothing({}) \in AssetsOf
  <1>1. Nothing({}) \in [{} -> SUBSET Assets] /\ {} \in SUBSET Meetings
    BY DEF Nothing
  <1>2. Nothing({}) \in AssetsOf
    BY <1>1 DEF AssetsOf
  <1> DEFINE none == Nothing({})
  <1> HIDE DEF none
  <1>3. Idle = [pc |-> "idle", kind |-> "url", program |-> NoRow, meetings |-> {},
                asset |-> NoRow, now |-> 0, facts |-> NoRow, archived |-> NoRow,
                rules |-> NoRow, grants |-> NoRow, verdict |-> none]
    BY DEF Idle, none
  <1>4. none \in AssetsOf
    BY <1>2 DEF none
  <1>5. QED  BY <1>2, <1>3, <1>4 DEF CallRows

\* Lists of what a request may take are such lists.
LEMMA AssetLists ==
  ASSUME NEW ms \in SUBSET Meetings, NEW vs \in [ms -> SUBSET Assets] PROVE vs \in AssetsOf
  BY DEF AssetsOf
LEMMA ReadLists ==
  ASSUME NEW ms \in SUBSET Meetings
  PROVE  /\ \A fs \in [ms -> Facts] : fs \in FactsOf
         /\ \A bs \in [ms -> ArchiveStates] : bs \in StatesOf
  BY DEF FactsOf, StatesOf
LEMMA GrantLists ==
  ASSUME NEW ms \in SUBSET Meetings, NEW gs \in [ms -> Scopes \cup {NoRow}] PROVE gs \in GrantsOf
  BY DEF GrantsOf

\* Next of a request: what it has read is so, by the history before the step.
CallNext(c) ==
  \E row \in CallRows : Serve(c, row) /\ CallHolds(row, held, clock, ledger')

\* A request comes in.
LEMMA CallAsk ==
  ASSUME AccessInv, NEW c \in Calls, Ask(c) PROVE CallNext(c)
  <1>1. clock \in Nat
    BY DEF AccessInv, AccessTypeOK
  <1>2. PICK p \in Programs :
          \/ \E m \in Meetings, a \in Assets :
               Serve(c, [Idle EXCEPT !.pc = "facts", !.kind = "url", !.program = p,
                                     !.meetings = {m}, !.asset = a, !.now = clock])
          \/ Serve(c, [Idle EXCEPT !.pc = "facts", !.kind = "list", !.program = p,
                                   !.meetings = Meetings, !.now = clock])
    BY DEF Ask
  <1>3. ASSUME NEW m \in Meetings, NEW a \in Assets,
               Serve(c, [Idle EXCEPT !.pc = "facts", !.kind = "url", !.program = p,
                                     !.meetings = {m}, !.asset = a, !.now = clock])
        PROVE  CallNext(c)
    <2> DEFINE row == [Idle EXCEPT !.pc = "facts", !.kind = "url", !.program = p,
                                   !.meetings = {m}, !.asset = a, !.now = clock]
    <2>1. /\ row \in CallRows /\ row.pc = "facts" /\ row.kind = "url" /\ row.program = p
          /\ row.meetings = {m} /\ row.asset = a /\ row.now = clock /\ Serve(c, row)
      BY <1>1, <1>3, IdleCall DEF CallRows
    <2> HIDE DEF row
    <2>2. CallHolds(row, held, clock, ledger')
      BY <1>1, <2>1 DEF CallHolds
    <2>3. QED  BY <2>1, <2>2 DEF CallNext
  <1>4. CASE Serve(c, [Idle EXCEPT !.pc = "facts", !.kind = "list", !.program = p,
                                   !.meetings = Meetings, !.now = clock])
    <2> DEFINE row == [Idle EXCEPT !.pc = "facts", !.kind = "list", !.program = p,
                                   !.meetings = Meetings, !.now = clock]
    <2>1. /\ row \in CallRows /\ row.pc = "facts" /\ row.kind = "list" /\ row.program = p
          /\ row.meetings = Meetings /\ row.now = clock /\ Serve(c, row)
      BY <1>1, <1>4, IdleCall DEF CallRows
    <2> HIDE DEF row
    <2>2. CallHolds(row, held, clock, ledger')
      BY <1>1, <2>1 DEF CallHolds
    <2>3. QED  BY <2>1, <2>2 DEF CallNext
  <1>5. QED  BY <1>2, <1>3, <1>4

\* What every request under way knows of itself.
LEMMA CallFacts ==
  ASSUME AccessInv, NEW c \in Calls, call[c].pc \notin {"down", "idle"}
  PROVE  /\ call[c] \in CallRows /\ CallHolds(call[c], held, clock, ledger)
         /\ call[c].program \in Programs /\ call[c].meetings \subseteq Meetings
         /\ call[c].now <= clock /\ call[c].now \in Nat /\ clock \in Nat
         /\ call[c].kind = "url" =>
              call[c].asset \in Assets /\ \E m \in Meetings : call[c].meetings = {m}
  <1>1. call[c] \in CallRows /\ CallHolds(call[c], held, clock, ledger) /\ clock \in Nat
    BY DEF AccessInv, AccessTypeOK, CallsHold
  <1>2. QED  BY <1>1 DEF CallHolds, CallRows

\* What a request finds now has stood since it came in.
LEMMA StoodAsked ==
  ASSUME AccessInv, NEW c \in Calls, call[c].pc \notin {"down", "idle"},
         NEW m \in call[c].meetings, NEW a \in Assets
  PROVE  /\ program[call[c].program].enabled
              => Stood("enabled", held, call[c].now, call[c].program, m, a)
         /\ a \in Overridden(Assets, override[m])
              => Stood("kept", held, call[c].now, call[c].program, m, a)
         /\ a \in ApplyGrant(Assets, grant[call[c].program, m])
              => Stood("granted", held, call[c].now, call[c].program, m, a)
  <1> DEFINE t == call[c].now
             p == call[c].program
  <1>1. p \in Programs /\ m \in Meetings /\ t \in Int /\ t <= clock
    BY CallFacts
  <1>2. AccessTypeOK /\ HeldInv
    BY DEF AccessInv
  <1> HIDE DEF t, p
  <1>3. /\ program[p].enabled => Stood("enabled", held, t, p, m, a)
        /\ a \in Overridden(Assets, override[m]) => Stood("kept", held, t, p, m, a)
        /\ a \in ApplyGrant(Assets, grant[p, m]) => Stood("granted", held, t, p, m, a)
    BY <1>1, <1>2, StoodNow
  <1>4. QED  BY <1>3 DEF t, p

\* A request that gets nothing.
LEMMA CallNothing ==
  ASSUME AccessInv, NEW c \in Calls, call[c].pc \notin {"down", "idle"},
         Serve(c, [call[c] EXCEPT !.pc = "answer", !.verdict = Nothing(call[c].meetings)])
  PROVE  CallNext(c)
  <1> DEFINE r == call[c]
             none == Nothing(r.meetings)
             row == [r EXCEPT !.pc = "answer", !.verdict = none]
  <1>1. /\ r \in CallRows /\ r.program \in Programs /\ r.meetings \subseteq Meetings
        /\ r.now <= clock /\ r.now \in Nat /\ clock \in Nat
        /\ r.kind = "url" => r.asset \in Assets /\ \E m \in Meetings : r.meetings = {m}
    BY CallFacts
  <1>2. none \in [r.meetings -> SUBSET Assets] /\ \A m \in r.meetings : none[m] = {}
    BY DEF Nothing
  <1>3. none \in AssetsOf
    BY <1>1, <1>2, AssetLists
  <1>4. Serve(c, row)
    OBVIOUS
  <1> HIDE DEF none
  <1>5. /\ row \in CallRows /\ row.pc = "answer" /\ row.kind = r.kind /\ row.program = r.program
        /\ row.meetings = r.meetings /\ row.asset = r.asset /\ row.now = r.now
        /\ row.verdict = none
    BY <1>1, <1>3 DEF CallRows
  <1> HIDE DEF row, r
  <1>6. Rests(row, none, Conditions, held)
    BY <1>2, <1>5 DEF Rests
  <1>7. CallHolds(row, held, clock, ledger')
    BY <1>1, <1>2, <1>5, <1>6 DEF CallHolds
  <1>8. QED  BY <1>4, <1>5, <1>7 DEF CallNext

\* The rows of meeting_cache, and the archive states of the meetings that have one.
LEMMA CallMeetings ==
  ASSUME AccessInv, NEW c \in Calls, ReadFacts(c) PROVE CallNext(c)
  <1> DEFINE r == call[c]
             rows == {m \in r.meetings : cached[m] # NoRow}
             fs == [m \in rows |-> cached[m]]
             row == [r EXCEPT !.pc = "archived", !.meetings = rows, !.facts = fs]
  <1>1. r.pc = "facts"
    BY DEF ReadFacts
  <1>2. /\ r \in CallRows /\ r.program \in Programs /\ r.meetings \subseteq Meetings
        /\ r.now <= clock /\ r.now \in Nat /\ clock \in Nat
        /\ r.kind = "url" => r.asset \in Assets /\ \E m \in Meetings : r.meetings = {m}
    BY <1>1, CallFacts
  <1>3. CASE rows = {}
    BY <1>1, <1>3, CallNothing DEF ReadFacts
  <1>4. CASE rows # {}
    <2>1. Serve(c, row)
      BY <1>4 DEF ReadFacts
    <2>2. ASSUME NEW m \in rows
          PROVE  m \in Meetings /\ cached[m] \in Facts /\ held[<<"facts", m, cached[m]>>] = clock
      BY <1>2, HeldNow DEF AccessInv
    <2>3. /\ rows \subseteq Meetings /\ fs \in [rows -> Facts]
          /\ \A m \in rows : held[<<"facts", m, fs[m]>>] >= r.now
      BY <1>2, <2>2
    <2>4. r.kind = "url" => rows = r.meetings
      BY <1>2, <1>4
    <2> HIDE DEF fs, rows
    <2>5. fs \in FactsOf
      BY <2>3, ReadLists
    <2>6. /\ row \in CallRows /\ row.pc = "archived" /\ row.kind = r.kind
          /\ row.program = r.program /\ row.meetings = rows /\ row.asset = r.asset
          /\ row.now = r.now /\ row.facts = fs
      BY <1>2, <2>3, <2>5 DEF CallRows
    <2> HIDE DEF row, r
    <2>7. FactsRead(row, held)
      BY <2>3, <2>6 DEF FactsRead
    <2>8. CallHolds(row, held, clock, ledger')
      BY <1>2, <2>4, <2>6, <2>7 DEF CallHolds
    <2>9. QED  BY <2>1, <2>6, <2>8 DEF CallNext
  <1>5. QED  BY <1>3, <1>4

LEMMA CallArchive ==
  ASSUME AccessInv, NEW c \in Calls, ReadArchived(c) PROVE CallNext(c)
  <1> DEFINE r == call[c]
             bs == [m \in r.meetings |-> ArchiveState(m)]
             row == [r EXCEPT !.pc = "status", !.archived = bs]
  <1>1. r.pc = "archived" /\ Serve(c, row)
    BY DEF ReadArchived
  <1>2. /\ r \in CallRows /\ r.program \in Programs /\ r.meetings \subseteq Meetings
        /\ r.now <= clock /\ r.now \in Nat /\ clock \in Nat
        /\ CallHolds(r, held, clock, ledger)
        /\ r.kind = "url" => r.asset \in Assets /\ \E m \in Meetings : r.meetings = {m}
    BY <1>1, CallFacts
  <1>3. ASSUME NEW m \in r.meetings
        PROVE  /\ ArchiveState(m) \in ArchiveStates
               /\ held[<<"archived", m, ArchiveState(m)>>] = clock
    BY <1>2, HeldNow DEF AccessInv
  <1>4. /\ bs \in [r.meetings -> ArchiveStates]
        /\ \A m \in r.meetings : held[<<"archived", m, bs[m]>>] >= r.now
    BY <1>2, <1>3
  <1> HIDE DEF bs
  <1>5. bs \in StatesOf
    BY <1>2, <1>4, ReadLists
  <1>6. /\ row \in CallRows /\ row.pc = "status" /\ row.kind = r.kind /\ row.program = r.program
        /\ row.meetings = r.meetings /\ row.asset = r.asset /\ row.now = r.now
        /\ row.facts = r.facts /\ row.archived = bs
    BY <1>2, <1>5 DEF CallRows
  <1>7. FactsRead(r, held)
    BY <1>1, <1>2 DEF CallHolds
  <1> HIDE DEF row, r
  <1>8. FactsRead(row, held) /\ StatesRead(row, held)
    BY <1>4, <1>6, <1>7 DEF FactsRead, StatesRead
  <1>9. CallHolds(row, held, clock, ledger')
    BY <1>2, <1>6, <1>8 DEF CallHolds
  <1>10. QED  BY <1>1, <1>6, <1>9 DEF CallNext

\* The status of the program: what goes on has found it enabled.
LEMMA CallStatus ==
  ASSUME AccessInv, NEW c \in Calls, ReadStatus(c) PROVE CallNext(c)
  <1> DEFINE r == call[c]
  <1>1. r.pc = "status"
    BY DEF ReadStatus
  <1>2. /\ r \in CallRows /\ r.program \in Programs /\ r.meetings \subseteq Meetings
        /\ r.now <= clock /\ r.now \in Nat /\ clock \in Nat
        /\ CallHolds(r, held, clock, ledger)
        /\ r.kind = "url" => r.asset \in Assets /\ \E m \in Meetings : r.meetings = {m}
    BY <1>1, CallFacts
  <1>3. CASE ~program[r.program].enabled
    BY <1>1, <1>3, CallNothing DEF ReadStatus
  <1>4. CASE program[r.program].enabled
    <2> DEFINE pc == IF r.kind = "url" THEN "rules" ELSE "grants"
               row == [r EXCEPT !.pc = pc]
    <2>1. Serve(c, row)
      BY <1>4 DEF ReadStatus
    <2>2. /\ pc \in {"rules", "grants"}
          /\ pc = "rules" => r.kind = "url"
          /\ pc = "grants" => r.kind = "list"
      BY <1>2 DEF CallRows
    <2> HIDE DEF pc
    <2>3. /\ row \in CallRows /\ row.pc = pc /\ row.kind = r.kind /\ row.program = r.program
          /\ row.meetings = r.meetings /\ row.asset = r.asset /\ row.now = r.now
          /\ row.facts = r.facts /\ row.archived = r.archived
      BY <1>2, <2>2 DEF CallRows
    <2>4. ASSUME NEW m \in r.meetings, NEW a \in Assets
          PROVE  Stood("enabled", held, r.now, r.program, m, a)
      BY <1>1, <1>4, StoodAsked
    <2>5. FactsRead(r, held) /\ StatesRead(r, held)
      BY <1>1, <1>2 DEF CallHolds
    <2> HIDE DEF row, r
    <2>6. Rests(row, [m \in row.meetings |-> Assets], {"enabled"}, held)
      BY <2>3, <2>4 DEF Rests
    <2>7. FactsRead(row, held) /\ StatesRead(row, held)
      BY <2>3, <2>5 DEF FactsRead, StatesRead
    <2>8. CallHolds(row, held, clock, ledger')
      BY <1>2, <2>2, <2>3, <2>6, <2>7 DEF CallHolds
    <2>9. QED  BY <2>1, <2>3, <2>8 DEF CallNext
  <1>5. QED  BY <1>3, <1>4

\* The grants of a list, and the rules of either.
LEMMA CallGrants ==
  ASSUME AccessInv, NEW c \in Calls, ReadGrants(c) PROVE CallNext(c)
  <1> DEFINE r == call[c]
             gs == [m \in r.meetings |-> grant[r.program, m]]
             row == [r EXCEPT !.pc = "rules", !.grants = gs]
  <1>1. r.pc = "grants" /\ Serve(c, row)
    BY DEF ReadGrants
  <1>2. /\ r \in CallRows /\ r.program \in Programs /\ r.meetings \subseteq Meetings
        /\ r.now <= clock /\ r.now \in Nat /\ clock \in Nat
        /\ CallHolds(r, held, clock, ledger)
    BY <1>1, CallFacts
  <1>3. gs \in [r.meetings -> Scopes \cup {NoRow}]
    BY <1>2 DEF AccessInv, AccessTypeOK, Grants, Pairs
  <1>4. gs \in GrantsOf
    BY <1>2, <1>3, GrantLists
  <1>5. ASSUME NEW m \in r.meetings, NEW a \in ApplyGrant(Assets, gs[m])
        PROVE  Stood("granted", held, r.now, r.program, m, a)
    <2>1. a \in ApplyGrant(Assets, grant[r.program, m]) /\ a \in Assets
      BY <1>3, GrantSplit
    <2>2. QED  BY <1>1, <2>1, StoodAsked
  <1> HIDE DEF gs
  <1>6. /\ row \in CallRows /\ row.pc = "rules" /\ row.kind = r.kind /\ row.program = r.program
        /\ row.meetings = r.meetings /\ row.asset = r.asset /\ row.now = r.now /\ row.grants = gs
        /\ row.facts = r.facts /\ row.archived = r.archived
    BY <1>2, <1>4 DEF CallRows
  <1>7. /\ FactsRead(r, held) /\ StatesRead(r, held) /\ r.kind = "list"
        /\ Rests(r, [m \in r.meetings |-> Assets], {"enabled"}, held)
    BY <1>1, <1>2 DEF CallHolds
  <1> HIDE DEF row, r
  <1>8. Rests(row, [m \in row.meetings |-> ApplyGrant(Assets, row.grants[m])], {"granted"}, held)
    BY <1>5, <1>6 DEF Rests
  <1>9. Rests(row, [m \in row.meetings |-> Assets], {"enabled"}, held)
    BY <1>6, <1>7 DEF Rests
  <1>10. FactsRead(row, held) /\ StatesRead(row, held)
    BY <1>6, <1>7 DEF FactsRead, StatesRead
  <1>11. CallHolds(row, held, clock, ledger')
    BY <1>2, <1>3, <1>6, <1>7, <1>8, <1>9, <1>10 DEF CallHolds
  <1>12. QED  BY <1>1, <1>6, <1>11 DEF CallNext

\* The rules of now are asked about the facts and the archive state read before.
LEMMA CallRules ==
  ASSUME AccessInv, NEW c \in Calls, ReadRules(c) PROVE CallNext(c)
  <1> DEFINE r == call[c]
             rs == [m \in r.meetings |-> ruling[<<r.program, r.facts[m], r.archived[m]>>]]
             row == [r EXCEPT !.pc = "override", !.rules = rs]
  <1>1. r.pc = "rules" /\ Serve(c, row)
    BY DEF ReadRules
  <1>2. /\ r \in CallRows /\ r.program \in Programs /\ r.meetings \subseteq Meetings
        /\ r.now <= clock /\ r.now \in Nat /\ clock \in Nat
        /\ CallHolds(r, held, clock, ledger)
        /\ r.kind = "url" => r.asset \in Assets /\ \E m \in Meetings : r.meetings = {m}
    BY <1>1, CallFacts
  <1>3. /\ FactsRead(r, held) /\ StatesRead(r, held)
        /\ Rests(r, [m \in r.meetings |-> Assets], {"enabled"}, held)
        /\ r.kind = "list" =>
             /\ r.grants \in [r.meetings -> Scopes \cup {NoRow}]
             /\ Rests(r, [m \in r.meetings |-> ApplyGrant(Assets, r.grants[m])], {"granted"}, held)
    BY <1>1, <1>2 DEF CallHolds
  <1>4. ruling \in RuleSets /\ ruling \in Rulings
    BY RulesAssumption DEF AccessInv, AccessTypeOK
  <1>5. ASSUME NEW m \in r.meetings
        PROVE  /\ r.facts[m] \in Facts /\ r.archived[m] \in ArchiveStates
               /\ <<r.program, r.facts[m], r.archived[m]>> \in Programs \X Sheets \X ArchiveStates
               /\ held[<<"facts", m, r.facts[m]>>] >= r.now
               /\ held[<<"archived", m, r.archived[m]>>] >= r.now
    BY <1>2, <1>3, RulesAssumption DEF FactsRead, StatesRead
  <1>6. rs \in [r.meetings -> SUBSET Assets]
    BY <1>4, <1>5 DEF Rulings
  <1>7. rs \in AssetsOf
    BY <1>2, <1>6, AssetLists
  <1>8. ASSUME NEW m \in r.meetings, NEW a \in rs[m]
        PROVE  Stood("named", held, r.now, r.program, m, a)
    <2> DEFINE f == r.facts[m]
               b == r.archived[m]
    <2>1. a \in ruling[r.program, f, b] /\ f \in Facts /\ b \in ArchiveStates
      BY <1>5
    <2>2. held[<<"rules", ruling>>] >= r.now
      BY <1>2, HeldNow DEF AccessInv
    <2>3. held[<<"facts", m, f>>] >= r.now /\ held[<<"archived", m, b>>] >= r.now
      BY <1>5
    <2> HIDE DEF f, b, r
    <2>4. QED  BY <1>4, <2>1, <2>2, <2>3 DEF Stood
  <1> HIDE DEF rs
  <1>9. /\ row \in CallRows /\ row.pc = "override" /\ row.kind = r.kind /\ row.program = r.program
        /\ row.meetings = r.meetings /\ row.asset = r.asset /\ row.now = r.now
        /\ row.grants = r.grants /\ row.facts = r.facts /\ row.rules = rs
    BY <1>2, <1>7 DEF CallRows
  <1> HIDE DEF row, r
  <1>10. Rests(row, rs, {"named"}, held)
    BY <1>8, <1>9 DEF Rests
  <1>11. Rests(row, [m \in row.meetings |-> Assets], {"enabled"}, held)
    BY <1>3, <1>9 DEF Rests
  <1>12. r.kind = "list" =>
          /\ row.grants \in [row.meetings -> Scopes \cup {NoRow}]
          /\ Rests(row, [m \in row.meetings |-> ApplyGrant(Assets, row.grants[m])], {"granted"}, held)
    BY <1>3, <1>9 DEF Rests
  <1>13. FactsRead(row, held)
    BY <1>3, <1>9 DEF FactsRead
  <1>14. CallHolds(row, held, clock, ledger')
    BY <1>2, <1>6, <1>9, <1>10, <1>11, <1>12, <1>13 DEF CallHolds
  <1>15. QED  BY <1>1, <1>9, <1>14 DEF CallNext

\* The overrides: what the rules or the override name and the override keeps.  Of a list
\* the grants are already there; an address asks for its grant only now.
LEMMA CallOverride ==
  ASSUME AccessInv, NEW c \in Calls, ReadOverride(c) PROVE CallNext(c)
  <1> DEFINE r == call[c]
             ruled == [m \in r.meetings |-> Overridden(r.rules[m], override[m])]
             visible == \E m \in r.meetings : ruled[m] # {}
             listed == [m \in r.meetings |-> ApplyGrant(ruled[m], r.grants[m])]
  <1>1. r.pc = "override"
    BY DEF ReadOverride
  <1>2. /\ r \in CallRows /\ r.program \in Programs /\ r.meetings \subseteq Meetings
        /\ r.now <= clock /\ r.now \in Nat /\ clock \in Nat
        /\ CallHolds(r, held, clock, ledger)
        /\ r.kind = "url" => r.asset \in Assets /\ \E m \in Meetings : r.meetings = {m}
    BY <1>1, CallFacts
  <1>3. /\ r.rules \in [r.meetings -> SUBSET Assets] /\ Rests(r, r.rules, {"named"}, held)
        /\ FactsRead(r, held)
        /\ Rests(r, [m \in r.meetings |-> Assets], {"enabled"}, held)
        /\ r.kind = "list" =>
             /\ r.grants \in [r.meetings -> Scopes \cup {NoRow}]
             /\ Rests(r, [m \in r.meetings |-> ApplyGrant(Assets, r.grants[m])], {"granted"}, held)
    BY <1>1, <1>2 DEF CallHolds
  <1>4. override \in Overrides
    BY DEF AccessInv, AccessTypeOK
  <1>5. ASSUME NEW m \in r.meetings
        PROVE  /\ ruled[m] \subseteq Assets
               /\ \A a \in ruled[m] : /\ a \in Overridden(Assets, override[m])
                                      /\ a \in r.rules[m] \/ a \in Overridden({}, override[m])
    <2>1. r.rules[m] \in SUBSET Assets /\ override[m] \in OverrideRows \cup {NoRow}
      BY <1>2, <1>3, <1>4 DEF Overrides
    <2>2. ruled[m] = Overridden(r.rules[m], override[m])
      OBVIOUS
    <2>3. QED  BY <2>1, <2>2, OverriddenSplit
  <1>6. ruled \in [r.meetings -> SUBSET Assets]
    BY <1>5
  <1>7. ASSUME NEW m \in r.meetings, NEW a \in ruled[m]
        PROVE  /\ Stood("named", held, r.now, r.program, m, a)
               /\ Stood("kept", held, r.now, r.program, m, a)
               /\ Stood("enabled", held, r.now, r.program, m, a)
    <2>1. a \in Assets /\ m \in Meetings
      BY <1>2, <1>5
    <2>2. Stood("kept", held, r.now, r.program, m, a)
      BY <1>1, <1>5, <2>1, StoodAsked
    <2>3. Stood("enabled", held, r.now, r.program, m, a)
      BY <1>3, <2>1 DEF Rests
    <2>4. CASE a \in r.rules[m]
      BY <1>3, <2>2, <2>3, <2>4 DEF Rests
    <2>5. CASE a \in Overridden({}, override[m])
      <3>1. held[<<"forced", m, a>>] >= r.now
        BY <1>2, <2>1, <2>5, HeldNow DEF AccessInv
      <3>2. r.facts[m] \in Facts /\ held[<<"facts", m, r.facts[m]>>] >= r.now
        BY <1>3 DEF FactsRead
      <3>3. Stood("named", held, r.now, r.program, m, a)
        BY <3>1, <3>2 DEF Stood
      <3>4. QED  BY <2>2, <2>3, <3>3
    <2>6. QED  BY <1>5, <2>4, <2>5
  <1>8. CASE r.kind = "list"
    <2> DEFINE row == [r EXCEPT !.pc = "answer", !.verdict = listed]
    <2>1. Serve(c, row)
      BY <1>8 DEF ReadOverride
    <2>2. ASSUME NEW m \in r.meetings
          PROVE  /\ listed[m] \subseteq Assets
                 /\ \A a \in listed[m] : a \in ruled[m] /\ a \in ApplyGrant(Assets, r.grants[m])
      <3>1. ruled[m] \in SUBSET Assets /\ r.grants[m] \in Scopes \cup {NoRow}
        BY <1>3, <1>6, <1>8
      <3>2. listed[m] = ApplyGrant(ruled[m], r.grants[m])
        OBVIOUS
      <3> HIDE DEF ruled, listed
      <3>3. QED  BY <3>1, <3>2, GrantSplit
    <2>3. listed \in [r.meetings -> SUBSET Assets]
      BY <2>2
    <2>4. listed \in AssetsOf
      BY <1>2, <2>3, AssetLists
    <2>5. ASSUME NEW m \in r.meetings, NEW a \in listed[m], NEW cond \in Conditions
          PROVE  Stood(cond, held, r.now, r.program, m, a)
      <3>1. a \in ruled[m] /\ a \in ApplyGrant(Assets, r.grants[m])
        BY <2>2
      <3>2. Stood("granted", held, r.now, r.program, m, a)
        BY <1>3, <1>8, <3>1 DEF Rests
      <3>3. QED  BY <1>7, <3>1, <3>2 DEF Conditions
    <2> HIDE DEF listed
    <2>6. /\ row \in CallRows /\ row.pc = "answer" /\ row.kind = r.kind /\ row.program = r.program
          /\ row.meetings = r.meetings /\ row.asset = r.asset /\ row.now = r.now
          /\ row.verdict = listed
      BY <1>2, <2>4 DEF CallRows
    <2> HIDE DEF row, r
    <2>7. Rests(row, listed, Conditions, held)
      BY <2>5, <2>6 DEF Rests
    <2>8. CallHolds(row, held, clock, ledger')
      BY <1>2, <1>8, <2>3, <2>6, <2>7 DEF CallHolds
    <2>9. QED  BY <2>1, <2>6, <2>8 DEF CallNext
  <1>9. CASE r.kind # "list"
    <2> DEFINE pc == IF visible THEN "grant" ELSE "answer"
               row == [r EXCEPT !.pc = pc, !.verdict = ruled]
    <2>1. Serve(c, row)
      BY <1>9 DEF ReadOverride
    <2>2. /\ pc \in {"grant", "answer"}
          /\ pc = "answer" => \A m \in r.meetings : ruled[m] = {}
      BY DEF visible
    <2>3. ruled \in AssetsOf /\ r.kind = "url"
      BY <1>2, <1>6, <1>9, AssetLists DEF CallRows
    <2> HIDE DEF ruled, pc
    <2>4. /\ row \in CallRows /\ row.pc = pc /\ row.kind = r.kind /\ row.program = r.program
          /\ row.meetings = r.meetings /\ row.asset = r.asset /\ row.now = r.now
          /\ row.verdict = ruled
      BY <1>2, <2>2, <2>3 DEF CallRows
    <2> HIDE DEF row, r
    <2>5. Rests(row, ruled, {"named", "kept"}, held)
      BY <1>7, <2>4 DEF Rests
    <2>6. Rests(row, [m \in row.meetings |-> Assets], {"enabled"}, held)
      BY <1>3, <2>4 DEF Rests
    <2>7. pc = "answer" => Rests(row, ruled, Conditions, held)
      BY <2>2, <2>4 DEF Rests
    <2>8. CallHolds(row, held, clock, ledger')
      BY <1>2, <1>6, <2>2, <2>3, <2>4, <2>5, <2>6, <2>7 DEF CallHolds
    <2>9. QED  BY <2>1, <2>4, <2>8 DEF CallNext
  <1>10. QED  BY <1>8, <1>9

LEMMA CallGrant ==
  ASSUME AccessInv, NEW c \in Calls, ReadGrant(c) PROVE CallNext(c)
  <1> DEFINE r == call[c]
             vs == [m \in r.meetings |-> ApplyGrant(r.verdict[m], grant[r.program, m])]
             row == [r EXCEPT !.pc = "answer", !.verdict = vs]
  <1>1. r.pc = "grant" /\ Serve(c, row)
    BY DEF ReadGrant
  <1>2. /\ r \in CallRows /\ r.program \in Programs /\ r.meetings \subseteq Meetings
        /\ r.now <= clock /\ r.now \in Nat /\ clock \in Nat
        /\ CallHolds(r, held, clock, ledger)
        /\ r.kind = "url" => r.asset \in Assets /\ \E m \in Meetings : r.meetings = {m}
    BY <1>1, CallFacts
  <1>3. /\ r.verdict \in [r.meetings -> SUBSET Assets]
        /\ Rests(r, r.verdict, {"named", "kept"}, held)
        /\ Rests(r, [m \in r.meetings |-> Assets], {"enabled"}, held)
    BY <1>1, <1>2 DEF CallHolds
  <1>4. ASSUME NEW m \in r.meetings
        PROVE  /\ vs[m] \subseteq Assets
               /\ \A a \in vs[m] : a \in r.verdict[m] /\ a \in ApplyGrant(Assets, grant[r.program, m])
    <2>1. r.verdict[m] \in SUBSET Assets /\ grant[r.program, m] \in Scopes \cup {NoRow}
      BY <1>2, <1>3 DEF AccessInv, AccessTypeOK, Grants, Pairs
    <2> DEFINE scope == grant[r.program, m]
    <2>2. vs[m] = ApplyGrant(r.verdict[m], scope) /\ scope \in Scopes \cup {NoRow}
      BY <2>1
    <2>3. r.verdict[m] \in SUBSET Assets
      BY <2>1
    <2> HIDE DEF vs, r, scope
    <2>4. /\ vs[m] \subseteq Assets
          /\ \A a \in vs[m] : a \in r.verdict[m] /\ a \in ApplyGrant(Assets, scope)
      BY <2>2, <2>3, GrantSplit
    <2>5. QED  BY <2>4 DEF scope
  <1>5. vs \in [r.meetings -> SUBSET Assets]
    BY <1>4
  <1>6. vs \in AssetsOf
    BY <1>2, <1>5, AssetLists
  <1>7. ASSUME NEW m \in r.meetings, NEW a \in vs[m], NEW cond \in Conditions
        PROVE  Stood(cond, held, r.now, r.program, m, a)
    <2>1. a \in r.verdict[m] /\ a \in ApplyGrant(Assets, grant[r.program, m]) /\ a \in Assets
      BY <1>4
    <2>2. Stood("granted", held, r.now, r.program, m, a)
      BY <1>1, <2>1, StoodAsked
    <2>3. /\ Stood("named", held, r.now, r.program, m, a)
          /\ Stood("kept", held, r.now, r.program, m, a)
          /\ Stood("enabled", held, r.now, r.program, m, a)
      BY <1>3, <2>1 DEF Rests
    <2>4. QED  BY <2>2, <2>3 DEF Conditions
  <1> HIDE DEF vs
  <1>8. /\ row \in CallRows /\ row.pc = "answer" /\ row.kind = r.kind /\ row.program = r.program
        /\ row.meetings = r.meetings /\ row.asset = r.asset /\ row.now = r.now
        /\ row.verdict = vs
    BY <1>2, <1>6 DEF CallRows
  <1> HIDE DEF row, r
  <1>9. Rests(row, vs, Conditions, held)
    BY <1>7, <1>8 DEF Rests
  <1>10. CallHolds(row, held, clock, ledger')
    BY <1>2, <1>5, <1>8, <1>9 DEF CallHolds
  <1>11. QED  BY <1>1, <1>8, <1>10 DEF CallNext

\* The audit row comes before the address.
LEMMA CallEnds ==
  ASSUME AccessInv, NEW c \in Calls, Audit(c) \/ IssueUrl(c) PROVE CallNext(c)
  <1> DEFINE r == call[c]
  <1>1. CASE Serve(c, Idle)
    BY <1>1, IdleCall DEF CallNext, CallHolds
  <1>2. CASE Audit(c) /\ ~Serve(c, Idle)
    <2> DEFINE row == [r EXCEPT !.pc = "issue"]
    <2>1. /\ r.pc = "answer" /\ Allowed(c) /\ Serve(c, row)
          /\ ledger' = ledger \cup {<<"url", r.program, Target(c), r.asset>>}
      BY <1>2 DEF Audit
    <2>2. /\ r \in CallRows /\ r.program \in Programs /\ r.now <= clock /\ r.now \in Nat
          /\ CallHolds(r, held, clock, ledger)
          /\ r.kind = "url" => r.asset \in Assets /\ \E m \in Meetings : r.meetings = {m}
      BY <2>1, CallFacts
    <2>3. /\ r.kind = "url" /\ r.asset \in r.verdict[Target(c)]
          /\ r.verdict \in [r.meetings -> SUBSET Assets] /\ Rests(r, r.verdict, Conditions, held)
      BY <2>1, <2>2 DEF Allowed, CallHolds
    <2>4. \A m \in r.meetings : m = Target(c)
      BY <2>2, <2>3 DEF Target
    <2>5. /\ row \in CallRows /\ row.pc = "issue" /\ row.kind = r.kind /\ row.program = r.program
          /\ row.meetings = r.meetings /\ row.asset = r.asset /\ row.now = r.now
          /\ row.verdict = r.verdict
      BY <2>2 DEF CallRows
    <2> HIDE DEF row, r
    <2>6. Rests(row, row.verdict, Conditions, held)
      BY <2>3, <2>5 DEF Rests
    <2>7. CallHolds(row, held, clock, ledger')
      BY <2>1, <2>2, <2>3, <2>4, <2>5, <2>6 DEF CallHolds
    <2>8. QED  BY <2>1, <2>5, <2>7 DEF CallNext
  <1>3. QED  BY <1>1, <1>2 DEF Audit, IssueUrl

-----------------------------------------------------------------------------
\* What every step does: the tables stay tables, pairs once granted stay granted or
\* revoked, the audit log grows, and requests, the round, addresses and the log hold.
TablesOK ==
  /\ program \in [Programs -> ProgramRows]
  /\ ruling \in RuleSets /\ override \in Overrides /\ grant \in Grants
  /\ revoked \subseteq Pairs
  /\ cached \in CachedRows /\ shown \in ShownRows
  /\ file \in [Meetings -> {"absent", "local", "both", "nas"}]
PairsStay ==
  /\ revoked \subseteq revoked'
  /\ \A pair \in Pairs : Taken(pair, grant, revoked) => Taken(pair, grant', revoked')
GrantRows == \A p \in Programs, m \in Meetings :
               <<"auto", p, m, NoRow>> \in ledger => Taken(<<p, m>>, grant, revoked)
CallsGo == /\ ledger \subseteq ledger' /\ call' \in [Calls -> CallRows]
           /\ \A c \in Calls : CallHolds(call'[c], held, clock, ledger')
TokensGo == tokens' \subseteq Token /\ \A t \in tokens' : TokenHolds(t, held, clock, ledger')
RoundGoes == auto' \in AutoRows /\ AutoHolds(auto', grant', revoked')
StepFacts == /\ clock' \in 0..MaxClock /\ clock <= clock'
             /\ TablesOK' /\ PairsStay /\ GrantRows' /\ CallsGo /\ TokensGo /\ RoundGoes

\* The parts of the invariant, one by one.
LEMMA InvParts ==
  ASSUME AccessInv
  PROVE  /\ clock \in 0..MaxClock /\ TablesOK /\ GrantRows
         /\ call \in [Calls -> CallRows] /\ CallsHold /\ tokens \subseteq Token /\ TokensHold
         /\ auto \in AutoRows /\ AutoHolds(auto, grant, revoked) /\ held \in HeldTypes
  <1>1. GrantRows
    BY DEF AccessInv, LedgerInOrder, GrantRows, Taken
  <1>2. QED  BY <1>1 DEF AccessInv, AccessTypeOK, TablesOK, HeldTypes

\* Where a part is left alone it holds on.
LEMMA SamePairs == ASSUME UNCHANGED <<grant, revoked>> PROVE PairsStay
  BY DEF PairsStay, Taken
LEMMA SameCalls ==
  ASSUME AccessInv, UNCHANGED call, ledger \subseteq ledger' PROVE CallsGo
  <1>1. call \in [Calls -> CallRows] /\ CallsHold /\ held \in HeldTypes /\ clock \in Int
    BY InvParts DEF AccessInv, AccessTypeOK
  <1>2. Later(held, held)
    BY <1>1 DEF Later, HeldTypes
  <1>3. ASSUME NEW c \in Calls PROVE CallHolds(call[c], held, clock, ledger')
    <2>1. call[c] \in CallRows /\ CallHolds(call[c], held, clock, ledger)
      BY <1>1 DEF CallsHold
    <2>2. clock <= clock
      BY <1>1
    <2>3. QED  BY <1>1, <1>2, <2>1, <2>2, CallLater
  <1>4. QED  BY <1>1, <1>3 DEF CallsGo
LEMMA SameTokens ==
  ASSUME AccessInv, tokens' \subseteq tokens, ledger \subseteq ledger' PROVE TokensGo
  BY InvParts DEF TokensGo, TokensHold, TokenHolds

\* A pair that was taken stays so, and with it what the round holds.
LEMMA AutoLater ==
  ASSUME NEW r \in AutoRows, PairsStay, AutoHolds(r, grant, revoked)
  PROVE  AutoHolds(r, grant', revoked')
  <1>1. r.activeBefore \subseteq Pairs /\ DOMAIN r.scope \subseteq Programs
    BY DEF AutoRows, ScopesOf
  <1>2. r.pc = "audit" => <<r.program, r.written>> \in Pairs
    BY <1>1 DEF AutoHolds, InProgram, Pairs
  <1>3. \A pair \in Pairs : Taken(pair, grant, revoked) => Taken(pair, grant', revoked')
    BY DEF PairsStay
  <1>4. revoked \subseteq revoked'
    BY DEF PairsStay
  <1>5. \A pair \in r.activeBefore : Taken(pair, grant', revoked')
    BY <1>1, <1>3 DEF AutoHolds
  <1>6. r.pc = "audit" => Taken(<<r.program, r.written>>, grant', revoked')
    BY <1>2, <1>3 DEF AutoHolds
  <1>7. r.pc \in {"write", "audit"} => \A m \in r.todo : Unwritten(r, m, revoked')
    BY <1>4 DEF AutoHolds, Unwritten
  <1>8. QED  BY <1>4, <1>5, <1>6, <1>7 DEF AutoHolds

LEMMA SameRound ==
  ASSUME AccessInv, UNCHANGED auto, PairsStay PROVE RoundGoes
  <1>1. auto \in AutoRows /\ AutoHolds(auto, grant, revoked)
    BY InvParts
  <1>2. QED  BY <1>1, AutoLater DEF RoundGoes

\* The log says nothing new of grants.
LEMMA SameRows ==
  ASSUME AccessInv, PairsStay, \A p, m : <<"auto", p, m, NoRow>> \in ledger'
                                          => <<"auto", p, m, NoRow>> \in ledger
  PROVE  GrantRows'
  BY InvParts DEF GrantRows, PairsStay, Pairs

\* The gateway.
LEMMA GatewayFacts ==
  ASSUME AccessInv, NEW c \in Calls,
         \/ Ask(c) \/ ReadFacts(c) \/ ReadArchived(c) \/ ReadStatus(c) \/ ReadGrants(c)
         \/ ReadRules(c) \/ ReadOverride(c) \/ ReadGrant(c) \/ Audit(c) \/ IssueUrl(c)
  PROVE  StepFacts
  <1>1. UNCHANGED <<clock, program, ruling, override, grant, revoked, cached, shown, file, auto>>
    BY DEF Ask, ReadFacts, ReadArchived, ReadStatus, ReadGrants, ReadRules, ReadOverride, ReadGrant, Audit, IssueUrl,
           CallOnly, console, world
  <1>2. CallNext(c)
    BY CallAsk, CallMeetings, CallArchive, CallStatus, CallGrants, CallRules, CallOverride, CallGrant, CallEnds
  <1>3. \/ UNCHANGED ledger
        \/ Audit(c) /\ ledger' = ledger \cup {<<"url", call[c].program, Target(c), call[c].asset>>}
    BY DEF Ask, ReadFacts, ReadArchived, ReadStatus, ReadGrants, ReadRules, ReadOverride, ReadGrant, Audit, IssueUrl
  <1>4. /\ ledger \subseteq ledger'
        /\ \A p, m : <<"auto", p, m, NoRow>> \in ledger' => <<"auto", p, m, NoRow>> \in ledger
    BY <1>3
  <1>5. PairsStay /\ GrantRows' /\ RoundGoes
    BY <1>1, <1>4, SamePairs, SameRows, SameRound
  <1>6. CallsGo
    <2>1. PICK row \in CallRows : Serve(c, row) /\ CallHolds(row, held, clock, ledger')
      BY <1>2 DEF CallNext
    <2>2. /\ call' \in [Calls -> CallRows] /\ call'[c] = row
          /\ \A b \in Calls : b # c => call'[b] = call[b]
      BY <2>1, Served DEF AccessInv
    <2>3. ASSUME NEW b \in Calls, b # c PROVE CallHolds(call'[b], held, clock, ledger')
      <3>1. call[b] \in CallRows /\ CallHolds(call[b], held, clock, ledger)
        BY InvParts DEF CallsHold
      <3>2. held \in HeldTypes /\ Later(held, held) /\ clock \in Int /\ clock <= clock
        BY InvParts DEF Later, HeldTypes, AccessInv, AccessTypeOK
      <3>3. CallHolds(call[b], held, clock, ledger')
        BY <1>4, <3>1, <3>2, CallLater
      <3>4. QED  BY <2>2, <2>3, <3>3
    <2>4. QED  BY <1>4, <2>1, <2>2, <2>3 DEF CallsGo
  <1>7. TokensGo
    <2>1. CASE tokens' = tokens
      BY <1>4, <2>1, SameTokens
    <2>2. CASE tokens' # tokens
      <3> DEFINE r == call[c]
                 new == [program |-> r.program, meeting |-> Target(c), asset |-> r.asset,
                         exp |-> r.now + TokenTtl]
      <3>1. r.pc = "issue" /\ tokens' = tokens \cup {new} /\ ledger' = ledger
        BY <2>2 DEF Ask, ReadFacts, ReadArchived, ReadStatus, ReadGrants, ReadRules, ReadOverride, ReadGrant, Audit, IssueUrl
      <3>2. /\ r \in CallRows /\ r.program \in Programs /\ r.now \in Nat
            /\ r.now <= clock /\ clock \in Nat /\ CallHolds(r, held, clock, ledger)
            /\ r.kind = "url" => r.asset \in Assets /\ \E m \in Meetings : r.meetings = {m}
        BY <3>1, CallFacts
      <3>3. /\ r.kind = "url" /\ Rests(r, r.verdict, Conditions, held)
            /\ \A m \in r.meetings : /\ r.asset \in r.verdict[m]
                                     /\ <<"url", r.program, m, r.asset>> \in ledger
        BY <3>1, <3>2 DEF CallHolds
      <3>4. PICK m \in Meetings : r.meetings = {m}
        BY <3>2, <3>3
      <3>5. Target(c) = m
        BY <3>4 DEF Target
      <3>6. \A cond \in Conditions : Stood(cond, held, r.now, r.program, m, r.asset)
        BY <3>3, <3>4 DEF Rests
      <3>7. r.now <= clock /\ clock \in Nat /\ TokenTtl \in Nat
        BY <3>2, AccessAssumption
      <3>8. /\ new \in Token /\ new.program = r.program /\ new.meeting = m
            /\ new.asset = r.asset /\ new.exp = r.now + TokenTtl
        BY <3>2, <3>3, <3>5, <3>7 DEF Token
      <3>9. <<"url", r.program, m, r.asset>> \in ledger
        BY <3>3, <3>4
      <3>10. r.now \in Nat
        BY <3>2
      <3> HIDE DEF new, r
      <3>11. new.exp - TokenTtl = r.now /\ r.now \in 0..clock
        BY <3>7, <3>8, <3>10
      <3>12. TokenHolds(new, held, clock, ledger)
        BY <3>6, <3>8, <3>9, <3>11 DEF TokenHolds
      <3>13. QED
        BY <3>1, <3>8, <3>12, InvParts DEF TokensGo, TokensHold
    <2>3. QED  BY <2>1, <2>2
  <1>8. QED
    BY <1>1, <1>5, <1>6, <1>7, InvParts DEF StepFacts, TablesOK, AccessInv, AccessTypeOK

\* The console, and what changes beside it: whatever leaves requests, the round, the
\* addresses and the log alone.
LEMMA TablesStep ==
  ASSUME AccessInv, UNCHANGED <<clock, call, auto, tokens, ledger>>, TablesOK', PairsStay
  PROVE  StepFacts
  <1>1. CallsGo /\ TokensGo /\ RoundGoes /\ GrantRows'
    BY SameCalls, SameTokens, SameRound, SameRows
  <1>2. QED  BY <1>1, InvParts DEF StepFacts

\* A grant is put or revoked: the pair was not lost.
LEMMA PutStays ==
  ASSUME AccessInv, NEW p \in Programs, NEW m \in Meetings, NEW scope \in Scopes,
         PutGrant(p, m, scope)
  PROVE  /\ grant' \in Grants /\ revoked' \subseteq Pairs /\ PairsStay
         /\ Taken(<<p, m>>, grant', revoked')
  <1>1. grant \in Grants /\ revoked \subseteq Pairs /\ <<p, m>> \in Pairs /\ scope # NoRow
    BY InvParts, AccessAssumption DEF TablesOK, Pairs, Scopes
  <1>2. /\ grant' = [grant EXCEPT ![<<p, m>>] = scope]
        /\ revoked' = revoked \/ revoked' = revoked \cup {<<p, m>>}
    BY DEF PutGrant
  <1>3. grant' \in Grants /\ grant'[<<p, m>>] = scope
        /\ \A pair \in Pairs : pair # <<p, m>> => grant'[pair] = grant[pair]
    BY <1>1, <1>2 DEF Grants
  <1>4. revoked' \subseteq Pairs /\ revoked \subseteq revoked'
    BY <1>1, <1>2
  <1>5. Taken(<<p, m>>, grant', revoked')
    BY <1>1, <1>3 DEF Taken
  <1>6. QED  BY <1>3, <1>4, <1>5 DEF PairsStay, Taken

LEMMA AdminFacts == ASSUME AccessInv, Admin PROVE StepFacts
  <1>1. /\ program \in [Programs -> ProgramRows] /\ ruling \in RuleSets /\ override \in Overrides
        /\ grant \in Grants /\ revoked \subseteq Pairs /\ TablesOK
    BY InvParts DEF TablesOK
  <1>2. ASSUME NEW p \in Programs, NEW on \in BOOLEAN,
               CreateProgram(p) \/ SetEnabled(p, on)
        PROVE  StepFacts
    <2>1. program' \in [Programs -> ProgramRows]
      <3>1. CASE CreateProgram(p)
        <4>1. [exists |-> TRUE, enabled |-> TRUE, auto |-> FALSE, scope |-> NoLimit] \in ProgramRows
          BY AccessAssumption DEF ProgramRows, Scopes
        <4>2. QED  BY <1>1, <3>1, <4>1 DEF CreateProgram
      <3>2. CASE SetEnabled(p, on)
        BY <1>1, <3>2 DEF SetEnabled, ProgramRows
      <3>3. QED  BY <1>2, <3>1, <3>2
    <2>2. UNCHANGED <<clock, call, auto, tokens, ledger, ruling, override, grant, revoked, cached, shown, file>>
      BY <1>2 DEF CreateProgram, SetEnabled, ConsoleOnly, world
    <2>3. TablesOK'
      BY <1>1, <2>1, <2>2 DEF TablesOK
    <2>4. QED  BY <2>2, <2>3, SamePairs, TablesStep
  <1>3. ASSUME NEW p \in Programs, NEW on \in BOOLEAN, NEW scope \in Scopes,
               SetAutoGrant(p, on, scope)
        PROVE  StepFacts
    <2>1. program' \in [Programs -> ProgramRows]
      BY <1>1, <1>3 DEF SetAutoGrant, ProgramRows
    <2>2. UNCHANGED <<clock, call, auto, tokens, ledger, ruling, override, grant, revoked, cached, shown, file>>
      BY <1>3 DEF SetAutoGrant, ConsoleOnly, world
    <2>3. TablesOK'
      BY <1>1, <2>1, <2>2 DEF TablesOK
    <2>4. QED  BY <2>2, <2>3, SamePairs, TablesStep
  <1>4. ASSUME NEW p \in Programs, NEW m \in Meetings, NEW scope \in Scopes,
               GrantMeeting(p, m, scope)
        PROVE  StepFacts
    <2>1. PutGrant(p, m, scope)
          /\ UNCHANGED <<clock, call, auto, tokens, ledger, program, ruling, override, cached, shown, file>>
      BY <1>4 DEF GrantMeeting, ConsoleOnly, world
    <2>2. grant' \in Grants /\ revoked' \subseteq Pairs /\ PairsStay
      BY <2>1, PutStays
    <2>3. TablesOK'
      BY <1>1, <2>1, <2>2 DEF TablesOK
    <2>4. QED  BY <2>1, <2>2, <2>3, TablesStep
  <1>5. ASSUME NEW p \in Programs, NEW m \in Meetings, RevokeGrant(p, m)
        PROVE  StepFacts
    <2>1. /\ UNCHANGED <<clock, call, auto, tokens, ledger, program, ruling, override, cached, shown, file>>
          /\ grant' = [grant EXCEPT ![<<p, m>>] = NoRow] /\ revoked' = revoked \cup {<<p, m>>}
      BY <1>5 DEF RevokeGrant, ConsoleOnly, world
    <2>2. <<p, m>> \in Pairs
      BY DEF Pairs
    <2>3. grant' \in Grants /\ revoked' \subseteq Pairs
      BY <1>1, <2>1, <2>2 DEF Grants
    <2>4. \A pair \in Pairs : pair # <<p, m>> => grant'[pair] = grant[pair]
      BY <1>1, <2>1 DEF Grants
    <2>5. PairsStay
      BY <2>1, <2>4 DEF PairsStay, Taken
    <2>6. TablesOK'
      BY <1>1, <2>1, <2>3 DEF TablesOK
    <2>7. QED  BY <2>1, <2>5, <2>6, TablesStep
  <1>6. ASSUME NEW m \in Meetings, NEW row \in OverrideRows \cup {NoRow},
               override' = [override EXCEPT ![m] = row],
               UNCHANGED <<program, ruling, grant, revoked>>, ConsoleOnly
        PROVE  StepFacts
    <2>1. override' \in Overrides
      BY <1>1, <1>6 DEF Overrides
    <2>2. TablesOK' /\ UNCHANGED <<clock, call, auto, tokens, ledger>>
      BY <1>1, <1>6, <2>1 DEF TablesOK, ConsoleOnly, world
    <2>3. QED  BY <1>6, <2>2, SamePairs, TablesStep
  <1>7. ASSUME NEW R \in RuleSets, ChangeRules(R) PROVE StepFacts
    <2>1. /\ UNCHANGED <<clock, call, auto, tokens, ledger, program, override, grant, revoked, cached, shown, file>>
          /\ ruling' \in RuleSets
      BY <1>7 DEF ChangeRules, ConsoleOnly, world
    <2>2. TablesOK'
      BY <1>1, <2>1 DEF TablesOK
    <2>3. QED  BY <2>1, <2>2, SamePairs, TablesStep
  <1>8. ASSUME NEW m \in Meetings, NEW row \in OverrideRows, PutOverride(m, row) PROVE StepFacts
    BY <1>6, <1>8 DEF PutOverride
  <1>9. ASSUME NEW m \in Meetings, RevokeOverride(m) PROVE StepFacts
    BY <1>6, <1>9 DEF RevokeOverride
  <1>10. ASSUME NEW p \in Programs, CreateProgram(p) PROVE StepFacts
    BY <1>2, <1>10
  <1>11. QED
    BY <1>2, <1>3, <1>4, <1>5, <1>7, <1>8, <1>9, <1>10 DEF Admin

\* Files, metadata and the clock.
Outside == \/ Tick
           \/ \E m \in Meetings : \/ FileMoves(m)
                                  \/ \E f \in Facts : Recache(m, f)
                                  \/ \E s \in Sheets : Discover(m, s)
LEMMA WorldFacts == ASSUME AccessInv, Outside PROVE StepFacts
  <1>1. TablesOK /\ clock \in 0..MaxClock /\ MaxClock \in Nat
    BY InvParts, AccessAssumption
  <1>2. CASE Tick
    <2>1. /\ UNCHANGED <<program, ruling, override, grant, revoked, cached, shown, file, call, auto, ledger>>
          /\ clock' = clock + 1 /\ clock < MaxClock /\ tokens' \subseteq tokens
      BY <1>2 DEF Tick, console, world
    <2>2. CallsGo /\ TokensGo /\ RoundGoes /\ GrantRows' /\ PairsStay
      BY <2>1, SameCalls, SameTokens, SameRound, SameRows, SamePairs
    <2>3. TablesOK'
      BY <1>1, <2>1 DEF TablesOK
    <2>4. clock' \in 0..MaxClock /\ clock <= clock'
      BY <1>1, <2>1
    <2>5. QED  BY <2>2, <2>3, <2>4 DEF StepFacts
  <1>3. ASSUME NEW m \in Meetings,
               \/ FileMoves(m)
               \/ \E f \in Facts : Recache(m, f)
               \/ \E s \in Sheets : Discover(m, s)
        PROVE  StepFacts
    <2>1. UNCHANGED <<program, ruling, override, grant, revoked, call, auto, tokens, ledger, clock>>
      BY <1>3 DEF FileMoves, Recache, Discover, console
    <2>2. /\ cached' \in CachedRows /\ shown' \in ShownRows
          /\ file' \in [Meetings -> {"absent", "local", "both", "nas"}]
      BY <1>1, <1>3 DEF FileMoves, Recache, Discover, TablesOK, CachedRows, ShownRows
    <2>3. TablesOK'
      BY <1>1, <2>1, <2>2 DEF TablesOK
    <2>4. QED  BY <2>1, <2>3, SamePairs, TablesStep
  <1>4. QED  BY <1>2, <1>3 DEF Outside

-----------------------------------------------------------------------------
\* The automatic round

\* A round that rests holds nothing.
LEMMA RestingHolds ==
  /\ Resting \in AutoRows /\ Resting.pc = "idle" /\ Resting.programs = {}
  /\ \A g, v : AutoHolds(Resting, g, v)
  <1> DEFINE none == Nothing({})
  <1>1. none \in ScopesOf
    <2>1. none \in [{} -> Scopes \ {{}}] /\ {} \in SUBSET Programs
      BY DEF Nothing
    <2> HIDE DEF none
    <2>2. QED  BY <2>1 DEF ScopesOf
  <1> HIDE DEF none
  <1>2. Resting = [pc |-> "idle", programs |-> {}, program |-> NoRow, scope |-> none,
                   keys |-> {}, rules |-> NoRow, overrides |-> NoRow, meta |-> NoRow,
                   archived |-> NoRow, granted |-> NoRow, revoked |-> NoRow, todo |-> {}, written |-> NoRow,
                   activeBefore |-> {}, revokedBefore |-> {}]
    BY DEF Resting, none
  <1>3. Resting \in AutoRows
    <2> DEFINE pcs == {"idle", "keys", "shared", "next", "rows", "plan", "write", "audit"}
               ps == Programs \cup {NoRow}
               ms == {NoRow} \cup SUBSET Meetings
               rs == RuleSets \cup {NoRow}
               ss == ShownRows \cup {NoRow}
               bs == [Meetings -> ArchiveStates] \cup {NoRow}
               os == Overrides \cup {NoRow}
               ws == Meetings \cup {NoRow}
    <2>1. /\ "idle" \in pcs /\ {} \in SUBSET Programs /\ NoRow \in ps /\ NoRow \in ms
          /\ NoRow \in rs /\ NoRow \in ss /\ NoRow \in bs /\ NoRow \in os /\ NoRow \in ws /\ {} \in SUBSET Meetings
          /\ {} \in SUBSET Pairs
      OBVIOUS
    <2>2. AutoRows = [pc: pcs, programs: SUBSET Programs, program: ps, scope: ScopesOf,
                      keys: SUBSET Meetings, rules: rs, overrides: os, meta: ss, archived: bs,
                      granted: ms, revoked: ms, todo: SUBSET Meetings, written: ws,
                      activeBefore: SUBSET Pairs, revokedBefore: SUBSET Pairs]
      BY DEF AutoRows
    <2> HIDE DEF pcs, ps, ms, rs, ss, bs, os, ws
    <2>3. QED  BY <1>1, <1>2, <2>1, <2>2
  <1>4. /\ Resting.pc = "idle" /\ Resting.programs = {} /\ Resting.revokedBefore = {}
        /\ Resting.activeBefore = {}
    BY <1>2
  <1> HIDE <1>2
  <1>5. \A g, v : AutoHolds(Resting, g, v)
    BY <1>4 DEF AutoHolds, InProgram
  <1>6. QED  BY <1>3, <1>4, <1>5

\* A step of the round that writes no table.
LEMMA AutoReads ==
  ASSUME AccessInv, UNCHANGED <<clock, console, world, call, tokens, ledger>>,
         auto' \in AutoRows, AutoHolds(auto', grant, revoked)
  PROVE  StepFacts
  <1>1. /\ UNCHANGED <<clock, program, ruling, override, grant, revoked, cached, shown, file, call,
                       tokens, ledger>>
    BY DEF console, world
  <1>2. TablesOK' /\ clock' \in 0..MaxClock /\ clock <= clock'
    BY <1>1, InvParts DEF TablesOK, AccessInv, AccessTypeOK
  <1>3. PairsStay /\ CallsGo /\ TokensGo /\ GrantRows' /\ RoundGoes
    BY <1>1, SamePairs, SameCalls, SameTokens, SameRows DEF RoundGoes
  <1>4. QED  BY <1>2, <1>3 DEF StepFacts

\* The record a round begins with.
StartRow(pc, ps, scope, active, gone) ==
  [Resting EXCEPT !.pc = pc, !.programs = ps, !.scope = scope,
                  !.activeBefore = active, !.revokedBefore = gone]

\* It is such a record.
LEMMA RoundRow ==
  ASSUME NEW pc \in {"idle", "keys"}, NEW ps \in SUBSET Programs,
         NEW scope \in ScopesOf, NEW active \in SUBSET Pairs, NEW gone \in SUBSET Pairs
  PROVE  LET row == StartRow(pc, ps, scope, active, gone)
         IN  /\ row \in AutoRows /\ row.pc = pc /\ row.programs = ps /\ row.scope = scope
             /\ row.activeBefore = active /\ row.revokedBefore = gone
  <1> DEFINE row == StartRow(pc, ps, scope, active, gone)
  <1>1. row \in AutoRows
    BY ZenonT(60), RestingHolds DEF StartRow, AutoRows
  <1>2. /\ row.pc = pc /\ row.programs = ps /\ row.scope = scope
        /\ row.activeBefore = active /\ row.revokedBefore = gone
    BY SMTT(20), RestingHolds DEF StartRow, AutoRows
  <1>3. QED  BY <1>1, <1>2

\* The round begins: what is active or revoked is noted.
LEMMA AutoStarts == ASSUME AccessInv, StartRound PROVE StepFacts
  <1> DEFINE on == {p \in Programs : program[p].enabled /\ program[p].auto}
             pc == IF on = {} THEN "idle" ELSE "keys"
             scope == [p \in on |-> program[p].scope]
             row == StartRow(pc, on, scope, Active, revoked)
  <1>1. /\ auto' = row /\ UNCHANGED <<clock, console, world, call, tokens, ledger>>
    BY DEF StartRound, StartRow
  <1>2. scope \in [on -> Scopes \ {{}}] /\ on \in SUBSET Programs /\ DOMAIN scope = on
    BY InvParts DEF TablesOK, ProgramRows
  <1>3. scope \in ScopesOf
    <2> HIDE DEF scope, on
    <2>1. QED  BY <1>2 DEF ScopesOf
  <1>4. pc \in {"idle", "keys"} /\ Active \subseteq Pairs /\ revoked \subseteq Pairs
    BY InvParts DEF Active, TablesOK
  <1>5. \A pair \in Active : grant[pair] # NoRow
    BY DEF Active
  <1> HIDE DEF scope, pc, on
  <1>6. /\ row \in AutoRows /\ row.pc = pc /\ row.programs = on /\ row.scope = scope
        /\ row.activeBefore = Active /\ row.revokedBefore = revoked
    <2>1. /\ Resting \in AutoRows /\ pc \in {"idle", "keys"} /\ on \in SUBSET Programs
          /\ scope \in ScopesOf /\ Active \in SUBSET Pairs /\ revoked \in SUBSET Pairs
      BY <1>2, <1>3, <1>4, RestingHolds
    <2>2. QED  BY <2>1, RoundRow
  <1> HIDE DEF row
  <1>7. AutoHolds(row, grant, revoked)
    BY <1>2, <1>4, <1>5, <1>6 DEF AutoHolds, InProgram, Taken
  <1>8. QED  BY <1>1, <1>6, <1>7, AutoReads

\* What all programs share is read; the next program is taken.
LEMMA AutoShared == ASSUME AccessInv, ReadKeys \/ ReadShared \/ NextProgram PROVE StepFacts
  <1>1. /\ auto \in AutoRows /\ AutoHolds(auto, grant, revoked) /\ TablesOK
        /\ UNCHANGED <<clock, console, world, call, tokens, ledger>>
    BY InvParts DEF ReadKeys, ReadShared, NextProgram
  <1>2. CASE auto' = Resting
    BY <1>1, <1>2, RestingHolds, AutoReads
  <1>3. CASE ReadKeys /\ auto' # Resting
    <2> DEFINE keys == {m \in Meetings : file[m] # "absent"}
    <2>1. auto' = [auto EXCEPT !.pc = "shared", !.keys = keys] /\ keys \subseteq Meetings
      BY <1>3 DEF ReadKeys
    <2> HIDE DEF keys
    <2>2. /\ auto' \in AutoRows /\ auto'.pc = "shared" /\ auto'.programs = auto.programs
          /\ auto'.scope = auto.scope /\ auto'.activeBefore = auto.activeBefore
          /\ auto'.revokedBefore = auto.revokedBefore
      BY <1>1, <2>1 DEF AutoRows
    <2>3. AutoHolds(auto', grant, revoked)
      BY <1>1, <2>2 DEF AutoHolds, InProgram
    <2>4. QED  BY <1>1, <2>2, <2>3, AutoReads
  <1>4. CASE ReadShared
    <2>1. /\ auto' \in AutoRows /\ auto'.pc \in {"shared", "next"} /\ auto'.programs = auto.programs
          /\ auto'.scope = auto.scope /\ auto'.activeBefore = auto.activeBefore
          /\ auto'.revokedBefore = auto.revokedBefore
      <3>1. CASE auto' = [auto EXCEPT !.pc = "next"]
        BY <1>1, <3>1 DEF AutoRows
      <3>2. CASE auto' = [auto EXCEPT !.rules = ruling]
        BY <1>1, <1>4, <3>2 DEF AutoRows, TablesOK, ReadShared
      <3>3. CASE auto' = [auto EXCEPT !.overrides = override]
        BY <1>1, <1>4, <3>3 DEF AutoRows, TablesOK, ReadShared
      <3>4. CASE auto' = [auto EXCEPT !.meta = shown]
        BY <1>1, <1>4, <3>4 DEF AutoRows, TablesOK, ReadShared
      <3>5. CASE auto' = [auto EXCEPT !.archived = [m \in Meetings |-> ArchiveState(m)]]
        <4> DEFINE bs == [m \in Meetings |-> ArchiveState(m)]
        <4>1. bs \in [Meetings -> ArchiveStates] /\ auto.pc = "shared"
          BY <1>4 DEF ArchiveState, ArchiveStates, ReadShared
        <4>2. auto' = [auto EXCEPT !.archived = bs]
          BY <3>5
        <4> HIDE DEF bs
        <4>3. QED  BY <1>1, <4>1, <4>2 DEF AutoRows
      <3>6. QED  BY <1>4, <3>1, <3>2, <3>3, <3>4, <3>5 DEF ReadShared
    <2>2. AutoHolds(auto', grant, revoked)
      BY <1>1, <2>1 DEF AutoHolds, InProgram
    <2>3. QED  BY <1>1, <2>1, <2>2, AutoReads
  <1>5. CASE NextProgram /\ auto' # Resting
    <2>1. PICK p \in auto.programs :
            auto' = [auto EXCEPT !.pc = "rows", !.programs = @ \ {p}, !.program = p,
                                 !.granted = NoRow, !.revoked = NoRow]
      BY <1>5 DEF NextProgram
    <2>2. p \in Programs /\ p \in DOMAIN auto.scope
      BY <1>1 DEF AutoRows, AutoHolds
    <2> DEFINE rest == auto.programs \ {p}
               row == [auto EXCEPT !.pc = "rows", !.programs = rest, !.program = p,
                                   !.granted = NoRow, !.revoked = NoRow]
    <2>8. auto' = row /\ rest \subseteq Programs
      BY <1>1, <2>1 DEF AutoRows
    <2> HIDE DEF rest
    <2>9. /\ row \in AutoRows /\ row.pc = "rows" /\ row.programs = rest
          /\ row.program = p /\ row.granted = NoRow /\ row.revoked = NoRow
          /\ row.scope = auto.scope /\ row.activeBefore = auto.activeBefore
          /\ row.revokedBefore = auto.revokedBefore
      BY <1>1, <2>2, <2>8 DEF AutoRows
    <2>3. /\ auto' \in AutoRows /\ auto'.pc = "rows" /\ auto'.programs = auto.programs \ {p}
          /\ auto'.program = p /\ auto'.granted = NoRow /\ auto'.revoked = NoRow
          /\ auto'.scope = auto.scope /\ auto'.activeBefore = auto.activeBefore
          /\ auto'.revokedBefore = auto.revokedBefore
      BY <2>8, <2>9 DEF rest
    <2>4. AutoHolds(auto', grant, revoked)
      BY <1>1, <2>2, <2>3 DEF AutoHolds, InProgram
    <2>5. QED  BY <1>1, <2>3, <2>4, AutoReads
  <1>6. QED  BY <1>2, <1>3, <1>4, <1>5

\* The rows of a program, in either order: what was active before the round and is not
\* listed now was revoked since; what was revoked before it is listed.
LEMMA AutoRowsRead == ASSUME AccessInv, ReadRows PROVE StepFacts
  <1> DEFINE p == auto.program
             active == {m \in Meetings : grant[p, m] # NoRow}
             gone == {m \in Meetings : <<p, m>> \in revoked}
  <1>1. /\ auto \in AutoRows /\ AutoHolds(auto, grant, revoked) /\ TablesOK /\ auto.pc = "rows"
        /\ UNCHANGED <<clock, console, world, call, tokens, ledger>>
    BY InvParts DEF ReadRows
  <1>2. /\ active \in SUBSET Meetings /\ gone \in SUBSET Meetings
        /\ \A m \in Meetings \ active : <<p, m>> \in auto.activeBefore => <<p, m>> \in revoked
        /\ \A m \in Meetings : <<p, m>> \in auto.revokedBefore => m \in gone
    BY <1>1 DEF AutoHolds, Taken
  <1>3. \/ auto' = [auto EXCEPT !.granted = active]
        \/ auto' = [auto EXCEPT !.revoked = gone]
        \/ auto.granted # NoRow /\ auto.revoked # NoRow /\ auto' = [auto EXCEPT !.pc = "plan"]
    BY DEF ReadRows
  <1> HIDE DEF active, gone
  <1>4. /\ auto' \in AutoRows /\ auto'.programs = auto.programs /\ auto'.program = p
        /\ auto'.scope = auto.scope /\ auto'.activeBefore = auto.activeBefore
        /\ auto'.revokedBefore = auto.revokedBefore
        /\ auto'.granted \in {auto.granted, active} /\ auto'.revoked \in {auto.revoked, gone}
        /\ auto'.pc \in {"rows", "plan"}
        /\ auto'.pc = "plan" => auto'.granted # NoRow /\ auto'.revoked # NoRow
    <2>1. CASE auto' = [auto EXCEPT !.granted = active]
      BY <1>1, <1>2, <2>1 DEF AutoRows
    <2>2. CASE auto' = [auto EXCEPT !.revoked = gone]
      BY <1>1, <1>2, <2>2 DEF AutoRows
    <2>3. CASE auto.granted # NoRow /\ auto.revoked # NoRow /\ auto' = [auto EXCEPT !.pc = "plan"]
      BY <1>1, <2>3 DEF AutoRows
    <2>4. QED  BY <1>3, <2>1, <2>2, <2>3
  <1>5. AutoHolds(auto', grant, revoked)
    BY <1>1, <1>2, <1>4 DEF AutoHolds, InProgram
  <1>6. QED  BY <1>1, <1>4, <1>5, AutoReads

\* The plan names only what it may write to.
LEMMA AutoPlans == ASSUME AccessInv, MakePlan PROVE StepFacts
  <1>1. /\ auto \in AutoRows /\ AutoHolds(auto, grant, revoked) /\ auto.pc = "plan"
        /\ UNCHANGED <<clock, console, world, call, tokens, ledger>>
        /\ auto' = [auto EXCEPT !.pc = "write", !.todo = Plan]
    BY InvParts DEF MakePlan
  <1>2. /\ Plan \subseteq auto.keys
        /\ \A m \in Plan : m \notin auto.granted /\ m \notin auto.revoked
    BY DEF Plan
  <1>3. Plan \subseteq Meetings
    BY <1>1, <1>2 DEF AutoRows
  <1>4. \A m \in Plan : Unwritten(auto, m, revoked)
    BY <1>1, <1>2, <1>3 DEF AutoHolds, Unwritten
  <1>5. /\ auto' \in AutoRows /\ auto'.pc = "write" /\ auto'.programs = auto.programs
        /\ auto'.program = auto.program /\ auto'.scope = auto.scope
        /\ auto'.activeBefore = auto.activeBefore /\ auto'.revokedBefore = auto.revokedBefore
        /\ auto'.todo = Plan
    BY <1>1, <1>3 DEF AutoRows
  <1>6. AutoHolds(auto', grant, revoked)
    BY <1>1, <1>4, <1>5 DEF AutoHolds, InProgram, Unwritten
  <1>7. QED  BY <1>1, <1>5, <1>6, AutoReads

\* A grant of the plan is written; its audit row follows.
LEMMA AutoWrites == ASSUME AccessInv, WriteGrant PROVE StepFacts
  <1>1. /\ auto \in AutoRows /\ AutoHolds(auto, grant, revoked) /\ auto.pc = "write" /\ TablesOK
        /\ UNCHANGED <<clock, program, ruling, override, cached, shown, file, call, tokens, ledger>>
    BY InvParts DEF WriteGrant, world
  <1>2. CASE auto.todo = {}
    <2>1. /\ auto' = [auto EXCEPT !.pc = "next"] /\ UNCHANGED <<grant, revoked>>
      BY <1>2 DEF WriteGrant
    <2>2. /\ auto' \in AutoRows /\ auto'.pc = "next" /\ auto'.programs = auto.programs
          /\ auto'.scope = auto.scope
          /\ auto'.activeBefore = auto.activeBefore /\ auto'.revokedBefore = auto.revokedBefore
      BY <1>1, <2>1 DEF AutoRows
    <2>3. AutoHolds(auto', grant, revoked)
      BY <1>1, <2>2 DEF AutoHolds, InProgram
    <2>4. QED  BY <1>1, <2>1, <2>2, <2>3, AutoReads DEF console, world
  <1>3. CASE auto.todo # {}
    <2>1. PICK m \in auto.todo :
            /\ PutGrant(auto.program, m, auto.scope[auto.program])
            /\ auto' = [auto EXCEPT !.pc = "audit", !.todo = @ \ {m}, !.written = m]
      BY <1>3 DEF WriteGrant
    <2>2. auto.program \in DOMAIN auto.scope /\ auto.todo \subseteq Meetings
      BY <1>1 DEF AutoHolds, AutoRows, InProgram
    <2>3. auto.program \in Programs /\ auto.scope[auto.program] \in Scopes
      <3>1. PICK ps \in SUBSET Programs : auto.scope \in [ps -> Scopes \ {{}}]
        BY <1>1 DEF AutoRows, ScopesOf
      <3>2. QED  BY <2>2, <3>1
    <2>4. /\ grant' \in Grants /\ revoked' \subseteq Pairs /\ PairsStay
          /\ Taken(<<auto.program, m>>, grant', revoked')
      BY <2>1, <2>2, <2>3, PutStays
    <2>5. /\ auto' \in AutoRows /\ auto'.pc = "audit" /\ auto'.programs = auto.programs
          /\ auto'.program = auto.program /\ auto'.scope = auto.scope
          /\ auto'.activeBefore = auto.activeBefore /\ auto'.revokedBefore = auto.revokedBefore
          /\ auto'.todo = auto.todo \ {m} /\ auto'.written = m
      BY <1>1, <2>1, <2>2 DEF AutoRows
    <2>6. AutoHolds(auto, grant', revoked')
      BY <1>1, <2>4, AutoLater
    <2>7. AutoHolds(auto', grant', revoked')
      BY <1>1, <2>2, <2>4, <2>5, <2>6 DEF AutoHolds, InProgram, Unwritten
    <2>8. CallsGo /\ TokensGo /\ GrantRows'
      BY <1>1, <2>4, SameCalls, SameTokens, SameRows
    <2>9. TablesOK' /\ clock' \in 0..MaxClock /\ clock <= clock'
      BY <1>1, <2>4 DEF TablesOK, AccessInv, AccessTypeOK
    <2>10. QED  BY <2>4, <2>5, <2>7, <2>8, <2>9 DEF StepFacts, RoundGoes
  <1>4. QED  BY <1>2, <1>3

LEMMA AutoAudits == ASSUME AccessInv, AuditGrant PROVE StepFacts
  <1>1. /\ auto \in AutoRows /\ AutoHolds(auto, grant, revoked) /\ auto.pc = "audit" /\ TablesOK
        /\ UNCHANGED <<clock, program, ruling, override, grant, revoked, cached, shown, file, call, tokens>>
        /\ ledger' = ledger \cup {<<"auto", auto.program, auto.written, NoRow>>}
        /\ auto' = [auto EXCEPT !.pc = "write", !.written = NoRow]
    BY InvParts DEF AuditGrant, console, world
  <1>2. /\ auto' \in AutoRows /\ auto'.pc = "write" /\ auto'.programs = auto.programs
        /\ auto'.program = auto.program /\ auto'.scope = auto.scope /\ auto'.todo = auto.todo
        /\ auto'.activeBefore = auto.activeBefore /\ auto'.revokedBefore = auto.revokedBefore
    BY <1>1 DEF AutoRows
  <1>3. AutoHolds(auto', grant, revoked)
    BY <1>1, <1>2 DEF AutoHolds, InProgram, Unwritten
  <1>4. ledger \subseteq ledger' /\ PairsStay
    BY <1>1, SamePairs
  <1>5. CallsGo /\ TokensGo /\ RoundGoes
    BY <1>1, <1>2, <1>3, <1>4, SameCalls, SameTokens DEF RoundGoes
  <1>6. GrantRows'
    <2> SUFFICES ASSUME NEW p \in Programs, NEW m \in Meetings, <<"auto", p, m, NoRow>> \in ledger'
                 PROVE  Taken(<<p, m>>, grant, revoked)
      BY <1>1 DEF GrantRows, Taken
    <2>1. CASE <<"auto", p, m, NoRow>> \in ledger
      BY <2>1, InvParts DEF GrantRows
    <2>2. CASE p = auto.program /\ m = auto.written
      BY <1>1, <2>2 DEF AutoHolds
    <2>3. QED  BY <1>1, <2>1, <2>2
  <1>7. TablesOK' /\ clock' \in 0..MaxClock /\ clock <= clock'
    BY <1>1 DEF TablesOK, AccessInv, AccessTypeOK
  <1>8. QED  BY <1>4, <1>5, <1>6, <1>7 DEF StepFacts

LEMMA AutoFails == ASSUME AccessInv, RoundFails PROVE StepFacts
  <1>1. /\ auto \in AutoRows /\ AutoHolds(auto, grant, revoked)
        /\ UNCHANGED <<clock, console, world, call, tokens, ledger>>
    BY InvParts DEF RoundFails
  <1>2. CASE auto' = Resting
    BY <1>1, <1>2, RestingHolds, AutoReads
  <1>3. CASE auto' = [auto EXCEPT !.pc = "next"]
    <2>1. /\ auto' \in AutoRows /\ auto'.pc = "next" /\ auto'.programs = auto.programs
          /\ auto'.scope = auto.scope
          /\ auto'.activeBefore = auto.activeBefore /\ auto'.revokedBefore = auto.revokedBefore
      BY <1>1, <1>3 DEF AutoRows
    <2>2. AutoHolds(auto', grant, revoked)
      BY <1>1, <2>1 DEF AutoHolds, InProgram
    <2>3. QED  BY <1>1, <2>1, <2>2, AutoReads
  <1>4. QED  BY <1>2, <1>3 DEF RoundFails

LEMMA RoundFacts == ASSUME AccessInv, Round PROVE StepFacts
  BY AutoStarts, AutoShared, AutoRowsRead, AutoPlans, AutoWrites, AutoAudits, AutoFails DEF Round

-----------------------------------------------------------------------------
\* The tables are new or those of an earlier day; nobody asks and no round runs.
LEMMA AccessStart == Init => AccessInv
  <1> SUFFICES ASSUME Init PROVE AccessInv
    OBVIOUS
  <1>1. /\ clock \in {0, MaxClock} /\ ruling \in RuleSets /\ revoked = {}
        /\ cached \in CachedRows /\ shown \in ShownRows /\ file = [m \in Meetings |-> "absent"]
        /\ call \in [Calls -> {Idle, [Idle EXCEPT !.pc = "down"]}]
        /\ auto = Resting /\ tokens = {} /\ ledger = {}
    BY DEF Init
  <1>2. clock \in 0..MaxClock /\ clock \in Int
    BY <1>1, AccessAssumption
  <1>3. program \in [Programs -> ProgramRows]
    <2>1. /\ [exists |-> FALSE, enabled |-> FALSE, auto |-> FALSE, scope |-> NoLimit] \in ProgramRows
          /\ [exists |-> TRUE, enabled |-> TRUE, auto |-> TRUE, scope |-> NoLimit] \in ProgramRows
      BY AccessAssumption DEF ProgramRows, Scopes
    <2>2. QED  BY <2>1 DEF Init
  <1>4. override \in Overrides /\ grant \in Grants
    <2>1. Denied \in OverrideRows
      BY DEF Denied, OverrideRows, Scopes
    <2>2. QED  BY <2>1 DEF Init, Overrides, Grants, Scopes
  <1>5. call \in [Calls -> CallRows] /\ \A c \in Calls : call[c].pc \in {"idle", "down"}
    <2> DEFINE down == [Idle EXCEPT !.pc = "down"]
    <2>1. down \in CallRows /\ down.pc = "down"
      BY IdleCall DEF CallRows
    <2> HIDE DEF down
    <2>2. call \in [Calls -> {Idle, down}]
      BY <1>1 DEF down
    <2>3. QED  BY <2>1, <2>2, IdleCall
  <1>6. held = [x \in Marks |-> IF So(x) THEN clock ELSE Never]
    BY DEF Init
  <1>7. held \in HeldTypes
    <2> DEFINE val(x) == IF So(x) THEN clock ELSE Never
    <2>1. ASSUME NEW x \in Marks PROVE val(x) \in Int
      BY <1>2 DEF Never
    <2>2. held = [x \in Marks |-> val(x)]
      BY <1>6
    <2> HIDE DEF val
    <2>3. QED  BY <2>1, <2>2 DEF HeldTypes
  <1>8. HeldInv
    BY <1>2, <1>6 DEF HeldInv, Never
  <1>9. AccessTypeOK
    BY <1>1, <1>2, <1>3, <1>4, <1>5, <1>7, RestingHolds DEF AccessTypeOK, HeldTypes
  <1>10. CallsHold
    BY <1>5 DEF CallsHold, CallHolds
  <1>11. TokensHold /\ LedgerInOrder
    BY <1>1 DEF TokensHold, LedgerInOrder
  <1>12. AutoHolds(auto, grant, revoked)
    BY <1>1, RestingHolds
  <1>13. QED  BY <1>8, <1>9, <1>10, <1>11, <1>12 DEF AccessInv

\* Every step keeps the invariant.
LEMMA AccessStep == AccessInv /\ [Next]_vars => AccessInv'
  <1>1. ASSUME AccessInv, Next PROVE AccessInv'
    <2>1. StepFacts
      <3>1. Step
        BY <1>1 DEF Next
      <3>2. CASE Gateway
        BY <1>1, <3>2, GatewayFacts DEF Gateway
      <3>3. CASE Admin
        BY <1>1, <3>3, AdminFacts
      <3>4. CASE Round
        BY <1>1, <3>4, RoundFacts
      <3>5. CASE Outside
        BY <1>1, <3>5, WorldFacts
      <3>6. QED  BY <3>1, <3>2, <3>3, <3>4, <3>5 DEF Step, Outside
    <2>2. clock \in Int /\ clock' \in Int /\ clock' >= clock /\ held \in HeldTypes
      BY <1>1, <2>1, InvParts, AccessAssumption DEF StepFacts
    <2>3. held' \in HeldTypes /\ Later(held, held') /\ HeldInv'
      BY <1>1, <2>2, HeldStep DEF Next, AccessInv
    <2>4. AccessTypeOK'
      BY <2>1, <2>3 DEF StepFacts, TablesOK, CallsGo, TokensGo, RoundGoes, AccessTypeOK, HeldTypes
    <2>5. ASSUME NEW c \in Calls PROVE CallHolds(call'[c], held', clock', ledger')
      <3>1. /\ call'[c] \in CallRows /\ CallHolds(call'[c], held, clock, ledger')
        BY <2>1 DEF StepFacts, CallsGo
      <3>2. QED  BY <2>2, <2>3, <3>1, CallLater
    <2>6. TokensHold'
      <3> SUFFICES ASSUME NEW t \in tokens' PROVE TokenHolds(t, held', clock', ledger')
        BY DEF TokensHold
      <3>1. t \in Token /\ TokenHolds(t, held, clock, ledger')
        BY <2>1 DEF StepFacts, TokensGo
      <3>2. /\ t.program \in Programs /\ t.meeting \in Meetings /\ t.asset \in Assets
            /\ t.exp - TokenTtl \in Int
        BY <3>1, AccessAssumption DEF Token
      <3>3. \A cond \in Conditions :
              Stood(cond, held', t.exp - TokenTtl, t.program, t.meeting, t.asset)
        BY <2>2, <2>3, <3>1, <3>2, StoodLater DEF TokenHolds
      <3>4. t.exp - TokenTtl \in 0..clock'
        BY <2>2, <3>1, <3>2 DEF TokenHolds
      <3>5. QED  BY <3>1, <3>3, <3>4 DEF TokenHolds
    <2>7. LedgerInOrder'
      BY <2>1, <2>6 DEF StepFacts, GrantRows, Taken, TokensHold, TokenHolds, LedgerInOrder
    <2>8. AutoHolds(auto, grant, revoked)'
      BY <2>1 DEF StepFacts, RoundGoes
    <2>9. QED  BY <2>3, <2>4, <2>5, <2>6, <2>7, <2>8 DEF AccessInv, CallsHold
  <1>2. ASSUME AccessInv, UNCHANGED vars PROVE AccessInv'
    <2>1. \A x : So(x)' = So(x)
      BY <1>2 DEF vars, console, world, So, ArchiveState
    <2>2. HeldInv'
      BY <1>2, <2>1 DEF vars, AccessInv, HeldInv
    <2>3. QED
      BY <1>2, <2>2 DEF vars, console, world, bounds, AccessInv, AccessTypeOK, CallsHold, TokensHold,
                        LedgerInOrder
  <1>3. QED  BY <1>1, <1>2

\* Whatever the gateway shows or signs an address for rests, condition by condition, on rows
\* that stood at some moment of that very request.
THEOREM AnswersRestOnTheirRequest == Spec => [](AccessTypeOK /\ AnswersHeld)
  <1>1. AccessInv => AccessTypeOK /\ AnswersHeld
    BY DEF AccessInv, CallsHold, CallHolds, Rests, AnswersHeld
  <1>2. QED  BY <1>1, AccessStart, AccessStep, PTL DEF Spec

\* An address serves bytes only while each condition stood less than its lifetime ago.
THEOREM AddressesComeToTheirEnd == Spec => []RevocationBites
  <1>1. AccessInv => RevocationBites
    <2> SUFFICES ASSUME AccessInv, NEW t \in tokens, Serves(t)
                 PROVE  \E s \in 0..clock :
                          /\ clock < s + TokenTtl
                          /\ \A cond \in Conditions :
                               Stood(cond, held, s, t.program, t.meeting, t.asset)
      BY DEF RevocationBites
    <2>1. TokenHolds(t, held, clock, ledger) /\ t.exp \in Nat /\ clock \in Nat /\ clock < t.exp
      BY AccessAssumption DEF AccessInv, AccessTypeOK, TokensHold, Serves, Token
    <2>2. t.exp - TokenTtl \in 0..clock /\ clock < (t.exp - TokenTtl) + TokenTtl
      BY <2>1, AccessAssumption DEF TokenHolds
    <2>3. QED  BY <2>1, <2>2 DEF TokenHolds
  <1>2. QED  BY <1>1, AccessStart, AccessStep, PTL DEF Spec

\* The audit log never runs ahead of an automatic grant nor behind an address.
THEOREM LedgerFollowsDeeds == Spec => []LedgerInOrder
  <1>1. AccessInv => LedgerInOrder
    BY DEF AccessInv
  <1>2. QED  BY <1>1, AccessStart, AccessStep, PTL DEF Spec

\* The console's inventory lists nothing the gate would refuse, where the sheets of the two
\* tables agree, and all of what it lets through where none of the columns is NULL.
THEOREM InventoryTellsTheGate == Spec => []InventoryWithinGate
  <1>1. AccessInv => InventoryWithinGate
    <2> SUFFICES ASSUME AccessInv, NEW p \in Programs, NEW m \in Meetings, program[p].enabled,
                        shown[m] # NoRow, cached[m] \in Fits[shown[m]]
                 PROVE  /\ Inventory(p, m) \subseteq Gate(p, m)
                        /\ shown[m] \in Facts /\ file[m] \in {"local", "both"} =>
                             Inventory(p, m) = Gate(p, m)
      BY DEF InventoryWithinGate
    <2> DEFINE b == ArchiveState(m)
               listed == ruling[p, shown[m], b]
               let == ruling[p, cached[m], b]
               row == override[m]
               scope == grant[p, m]
    <2>1. /\ ruling \in RuleSets /\ shown[m] \in Sheets /\ row \in OverrideRows \cup {NoRow}
          /\ scope \in Scopes \cup {NoRow}
      BY DEF AccessInv, AccessTypeOK, ShownRows, Overrides, Grants, Pairs
    <2>2. cached[m] \in Facts /\ cached[m] # NoRow /\ cached[m] \in Sheets
      BY <2>1, RulesAssumption
    <2>3. b \in ArchiveStates
      BY DEF ArchiveState, ArchiveStates
    <2>4. /\ listed = {} \/ let = listed
          /\ shown[m] \in Facts => let = listed
          /\ let \in SUBSET Assets /\ {} \in SUBSET Assets
      <3>1. shown[m] \in Facts => cached[m] = shown[m]
        BY RulesAssumption
      <3>2. /\ listed = {} \/ let = listed
            /\ let \in SUBSET Assets
        BY <2>1, <2>2, <2>3, RuledAssets
      <3>3. QED  BY <3>1, <3>2
    <2>5. Gate(p, m) = ApplyGrant(Overridden(let, row), scope)
      BY <2>2 DEF Gate
    <2>6. Inventory(p, m) =
            IF scope # NoRow /\ file[m] \in {"local", "both"}
            THEN ApplyGrant(Overridden(listed, row), scope) ELSE {}
      BY DEF Inventory, ApplyGrant
    <2>7. scope = NoRow => Gate(p, m) = {}
      BY <2>5 DEF ApplyGrant
    <2> HIDE DEF listed, let, row, scope, b
    <2>8. Overridden({}, row) \subseteq Overridden(let, row)
      BY <2>1, <2>4, OverriddenSplit
    <2>9. ApplyGrant(Overridden(listed, row), scope) \subseteq ApplyGrant(Overridden(let, row), scope)
      BY <2>4, <2>8 DEF ApplyGrant, Limit
    <2>10. QED  BY <2>4, <2>5, <2>6, <2>7, <2>9
  <1>2. QED  BY <1>1, AccessStart, AccessStep, PTL DEF Spec

\* The automatic round never writes a grant where one was revoked before it began, nor
\* over one that was active then and still is.
THEOREM RoundsRespectDecisions == Spec => AutoRespectsDecisions
  <1>1. AccessInv /\ [Next]_vars =>
          [\A p \in Programs, m \in Meetings :
             Wrote(p, m) => /\ <<p, m>> \notin auto.revokedBefore
                            /\ <<p, m>> \in auto.activeBefore => <<p, m>> \in revoked]_vars
    <2> SUFFICES ASSUME AccessInv, Next, NEW p \in Programs, NEW m \in Meetings, Wrote(p, m)
                 PROVE  /\ <<p, m>> \notin auto.revokedBefore
                        /\ <<p, m>> \in auto.activeBefore => <<p, m>> \in revoked
      OBVIOUS
    <2>1. auto \in AutoRows /\ AutoHolds(auto, grant, revoked) /\ auto.pc = "write"
      BY InvParts DEF Wrote
    <2>2. auto' # auto /\ auto'.pc = "audit" /\ auto'.written = m /\ p = auto.program
      BY <2>1 DEF Wrote
    <2>3. WriteGrant \/ RoundFails
      BY <2>1, <2>2
      DEF Next, Step, Gateway, Admin, Round, Ask, ReadFacts, ReadArchived, ReadStatus, ReadGrants, ReadRules, ReadOverride,
          ReadGrant, Audit, IssueUrl, CallOnly, ConsoleOnly, CreateProgram, SetEnabled, SetAutoGrant,
          GrantMeeting, RevokeGrant, PutOverride, RevokeOverride, ChangeRules, Tick, FileMoves,
          Recache, Discover, StartRound, ReadKeys, ReadShared, NextProgram, ReadRows, MakePlan, AuditGrant
    <2>4. ~RoundFails
      <3>1. [auto EXCEPT !.pc = "next"].pc = "next"
        BY <2>1 DEF AutoRows
      <3>2. QED  BY <2>2, <3>1, RestingHolds DEF RoundFails
    <2>5. WriteGrant
      BY <2>3, <2>4
    <2>6. auto.todo # {}
      <3>1. [auto EXCEPT !.pc = "next"].pc = "next"
        BY <2>1 DEF AutoRows
      <3>2. QED  BY <2>2, <2>5, <3>1 DEF WriteGrant
    <2>7. PICK n \in auto.todo : auto' = [auto EXCEPT !.pc = "audit", !.todo = @ \ {n}, !.written = n]
      BY <2>5, <2>6 DEF WriteGrant
    <2>8. auto'.written = n
      BY <2>1, <2>7 DEF AutoRows
    <2>9. Unwritten(auto, m, revoked)
      BY <2>1, <2>2, <2>7, <2>8 DEF AutoHolds
    <2>10. QED  BY <2>2, <2>9 DEF Unwritten
  <1>2. QED  BY <1>1, AccessStart, AccessStep, PTL DEF Spec, AutoRespectsDecisions
=============================================================================
