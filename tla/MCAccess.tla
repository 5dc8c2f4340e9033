------------------------------ MODULE MCAccess ------------------------------
(***************************************************************************)
(* A small instance of what stands between a client and a file: the gate   *)
(* and the automatic grants (AccessGate), and signing in (SignIn).  They   *)
(* share no state at this level, so one run looks at both by a choice of   *)
(* focus: only the component in focus moves, and only the part of it the   *)
(* focus names.                                                            *)
(***************************************************************************)
EXTENDS AccessGate, SignIn

CONSTANTS p1, c1, u1, f1, f2, gap, video

VARIABLE focus

gateVars == vars

-----------------------------------------------------------------------------
\* AccessGate: the gateway alone, on new tables or on those of an earlier day, or the
\* worker, whose round does not look at the clock nor at meeting_cache, on new ones.
\* Two complete sheets and one that may be either; no rule, one that tells the two apart,
\* one that asks for an archived meeting.  While an address is out the gateway takes no
\* further request, for nothing reads the addresses, and it sees no local file cleaned.
Readings == [s \in {f1, f2, gap} |-> IF s = gap THEN {f1, f2} ELSE {s}]
AllowIf(test(_, _)) ==
  [x \in Programs \X Sheets \X ArchiveStates |-> IF test(x[2], x[3]) THEN {video} ELSE {}]
NoRules == AllowIf(LAMBDA s, b : FALSE)
OnlyFirst == AllowIf(LAMBDA s, b : s = f1)
OnlyArchived == AllowIf(LAMBDA s, b : b = "archived")
SomeRuleSets == {NoRules, OnlyFirst, OnlyArchived}
GateFoci == {"gateway", "worker"}
NoOverrides == [m \in Meetings |-> NoRow]
NoGrants == [pair \in Pairs |-> NoRow]
NoSheets == [m \in Meetings |-> NoRow]
First == [m \in Meetings |-> f1]
GatewayOnly ==
  /\ \A c \in Calls : call[c].pc = "idle"
  /\ \A p \in Programs : program[p].exists
  /\ \/ override = NoOverrides /\ grant = NoGrants /\ cached = First /\ ruling = OnlyFirst
     \/ override = NoOverrides /\ grant # NoGrants /\ cached = First /\ ruling = NoRules
     \/ override = NoOverrides /\ grant # NoGrants /\ cached = NoSheets /\ ruling = OnlyFirst
     \/ override # NoOverrides /\ grant # NoGrants /\ cached = First /\ ruling = OnlyArchived
  /\ shown = [m \in Meetings |-> IF grant = NoGrants THEN f1 ELSE gap]
  /\ rounds = RoundBound /\ clock = 0
WorkerOnly ==
  /\ \A c \in Calls : call[c].pc = "down"
  /\ override = NoOverrides <=> grant = NoGrants
  /\ cached = NoSheets /\ shown \in [Meetings -> {gap, NoRow}]
  /\ ruling = IF shown = NoSheets THEN OnlyFirst ELSE OnlyArchived
  /\ rounds = 0 /\ clock = MaxClock
GateQuiet == /\ clock = 0 /\ rounds = 0 /\ ruling = NoRules
             /\ override = NoOverrides /\ grant = NoGrants
             /\ cached = NoSheets /\ shown = NoSheets
             /\ call = [c \in Calls |-> Idle]
             /\ program = [p \in Programs |->
                  [exists |-> FALSE, enabled |-> FALSE, auto |-> FALSE, scope |-> NoLimit]]
GateStart == /\ focus \notin GateFoci => GateQuiet
             /\ Init
             /\ focus = "gateway" => GatewayOnly
             /\ focus = "worker" => WorkerOnly

-----------------------------------------------------------------------------
\* SignIn: device codes; refresh tokens, from one that was issued; programs.
SignFoci == {"devices", "refreshes", "programs"}
Issued ==
  /\ signTime = 0
  /\ device = [c \in Codes |->
       IF c = c1 THEN [status |-> "authorized", user |-> u1, expires |-> CodeTtl,
                       polled |-> 0, page |-> TRUE]
       ELSE [status |-> "none", user |-> Nobody, expires |-> 0, polled |-> -1, page |-> FALSE]]
  /\ refresh = [t \in TokenIds |->
       IF t = 1 THEN [used |-> TRUE, user |-> u1, family |-> 1, code |-> c1,
                      revoked |-> FALSE, expires |-> RefreshTtl]
       ELSE NoToken]
  /\ request = [s \in Slots |-> Free]
  /\ ended = {} /\ raced = {}
  /\ account = [enabled |-> TRUE, expires |-> MaxSignTime]
  /\ disabledAt = 0 /\ bearerUntil = 0
SignStart == IF focus = "refreshes" THEN Issued ELSE SignInInit
SignMove ==
  \/ focus = "devices" /\ \/ \E c \in Codes : StartDevice(c) \/ OpenPage(c)
                          \/ \E s \in Slots : DeviceStep(s)
  \/ focus = "refreshes" /\ \E s \in Slots : RefreshStep(s)
  \/ focus = "programs" /\ (Toggle \/ \E s \in Slots : ProgramStep(s))
  \/ focus \in SignFoci /\ (SignTick \/ GatewayStops)

-----------------------------------------------------------------------------
AccessInit == /\ focus \in GateFoci \cup SignFoci
              /\ GateStart /\ SignStart

AccessNext ==
  \/ /\ focus \in GateFoci /\ Next
     /\ focus = "worker" => cached' = cached
     /\ focus = "gateway" => /\ shown' = shown
                             /\ tokens # {} => call' = call
                             /\ \A m \in Meetings : file'[m] # "nas"
                             /\ \A p \in Programs : program'[p].auto = program[p].auto
                                                   /\ program'[p].scope = program[p].scope
     /\ UNCHANGED <<focus, signVars>>
  \/ SignMove /\ UNCHANGED <<focus, gateVars>>

AccessSpec == AccessInit /\ [][AccessNext]_<<focus, gateVars, signVars>>

\* Every variable of the two components holds a value of its kind.
ClientsTypeOK == AccessTypeOK /\ SignInTypeOK
=============================================================================
