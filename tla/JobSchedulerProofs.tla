------------------------- MODULE JobSchedulerProofs -------------------------
(***************************************************************************)
(* Proofs about JobScheduler for any catalog, periods, chains, failures,   *)
(* crashes and restarts.                                                   *)
(***************************************************************************)
EXTENDS JobScheduler, SequenceTheorems, FiniteSetTheorems, TLAPS

-----------------------------------------------------------------------------
\* Rewriting the status of some rows keeps job_runs well typed.
LEMMA SetStatusType ==
  ASSUME TypeOK, NEW ids, NEW st \in RunStatuses, SetStatus(ids, st)
  PROVE  runs' \in Seq(RunRows)
  <1>1. runs \in Seq(RunRows)
    BY DEF TypeOK
  <1>2. ASSUME NEW i \in DOMAIN runs
        PROVE  (IF i \in ids THEN [runs[i] EXCEPT !.status = st] ELSE runs[i]) \in RunRows
    <2>1. runs[i] \in RunRows
      BY <1>1, <1>2
    <2>2. QED  BY <2>1 DEF RunRows
  <1>3. DOMAIN runs = 1..Len(runs) /\ Len(runs) \in Nat
    BY <1>1
  <1>4. QED  BY <1>2, <1>3 DEF SetStatus

\* Adding a row keeps job_runs well typed.
LEMMA InsertType ==
  ASSUME TypeOK, NEW j \in Jobs, NEW trigger \in Triggers, NEW st \in RunStatuses,
         NEW at \in Times, Insert(j, trigger, st, at)
  PROVE  runs' \in Seq(RunRows)
  <1>1. [job |-> j, trigger |-> trigger, status |-> st, at |-> at] \in RunRows
    BY DEF RunRows
  <1>2. QED  BY <1>1 DEF TypeOK, Insert

\* What a tick holds.
LEMMA TickFields ==
  ASSUME TypeOK, NEW t \in Ticks
  PROVE  /\ tick[t] \in TickStates
         /\ tick[t].k \in 1..Len(Catalog) /\ tick[t].now \in Times
         /\ JobAt(t) \in Jobs
         /\ \A pc \in {"off", "check"} \cup AwaitingDb : [tick[t] EXCEPT !.pc = pc] \in TickStates
  <1>1. tick[t] \in TickStates
    BY DEF TypeOK
  <1>2. tick[t].k \in 1..Len(Catalog) /\ tick[t].now \in Times
    BY <1>1 DEF TickStates
  <1>3. JobAt(t) \in Jobs
    <2>1. Catalog \in Seq(Jobs)
      BY JobAssumption
    <2>2. QED  BY <1>2, <2>1 DEF JobAt
  <1>4. \A pc \in {"off", "check"} \cup AwaitingDb : [tick[t] EXCEPT !.pc = pc] \in TickStates
    BY <1>1 DEF TickStates
  <1>5. QED  BY <1>1, <1>2, <1>3, <1>4

\* The slots of the time axis are numbered.
LEMMA SlotNat ==
  ASSUME NEW j \in Jobs, NEW n \in Times
  PROVE  SlotOf(j, n) \in Nat
  <1>1. Period[j] \in Nat /\ Period[j] > 0
    BY JobAssumption
  <1>2. n \in Nat
    BY JobAssumption DEF Times
  <1>3. ASSUME NEW p \in Nat, p > 0 PROVE n \div p \in Nat
    BY <1>2, <1>3
  <1>4. QED  BY <1>1, <1>3 DEF SlotOf

\* A tick that is over or not started is a well typed tick.
LEMMA TickOffType == TickOff \in TickStates
  <1>1. Catalog \in Seq(Jobs) /\ Catalog # <<>> /\ MaxClock \in Nat
    BY JobAssumption
  <1>2. 1 \in 1..Len(Catalog) /\ 0 \in Times
    BY <1>1 DEF Times
  <1>3. QED  BY <1>2 DEF TickOff, TickStates

\* Going on to the next catalog entry keeps the ticks well typed.
LEMMA NextEntryType ==
  ASSUME TypeOK, NEW t \in Ticks, NextEntry(t)
  PROVE  tick' \in [Ticks -> TickStates]
  <1>1. tick[t].k < Len(Catalog)
          => [TickOff EXCEPT !.pc = "check", !.k = tick[t].k + 1, !.now = tick[t].now]
               \in TickStates
    <2>1. Len(Catalog) \in Nat
      <3>1. Catalog \in Seq(Jobs)
        BY JobAssumption
      <3>2. QED  BY <3>1
    <2>2. ASSUME tick[t].k < Len(Catalog)
          PROVE  tick[t].k + 1 \in 1..Len(Catalog)
      BY <2>1, <2>2, TickFields
    <2>3. ASSUME NEW k \in 1..Len(Catalog), NEW now \in Times
          PROVE  [TickOff EXCEPT !.pc = "check", !.k = k, !.now = now] \in TickStates
      BY DEF TickOff, TickStates
    <2>4. QED  BY <2>2, <2>3, TickFields
  <1>2. QED  BY <1>1, TickOffType DEF TypeOK, NextEntry

\* Moving a tick to another await keeps the ticks well typed.
LEMMA GoToType ==
  ASSUME TypeOK, NEW t \in Ticks, NEW pc \in {"off", "check"} \cup AwaitingDb, GoTo(t, pc)
  PROVE  tick' \in [Ticks -> TickStates]
  BY TickFields DEF TypeOK, GoTo

\* Launching a round keeps the guard, the rounds and the ticks well typed.
LEMMA LaunchType ==
  ASSUME TypeOK, NEW t \in Ticks, NEW run \in Nat, Launch(t, run)
  PROVE  running' \subseteq Jobs /\ rounds' \subseteq RoundStates /\ tick' \in [Ticks -> TickStates]
  <1>1. [job |-> JobAt(t), run |-> run, at |-> tick[t].now, tick |-> t,
         pc |-> "body", next |-> {}] \in RoundStates
    BY TickFields DEF RoundStates
  <1>2. tick' \in [Ticks -> TickStates]
    BY NextEntryType DEF Launch
  <1>3. QED  BY <1>1, <1>2, TickFields DEF TypeOK, Launch

\* The judgement whether a slot is due keeps the ticks and lastSlot well typed.
LEMMA DueType ==
  ASSUME TypeOK, NEW t \in Ticks, Due(t)
  PROVE  tick' \in [Ticks -> TickStates] /\ lastSlot' \in [Jobs -> Nat]
  <1>1. SlotOf(JobAt(t), tick[t].now) \in Nat
    BY TickFields, SlotNat
  <1>2. CASE lastSlot[JobAt(t)] = SlotOf(JobAt(t), tick[t].now)
    BY <1>2, NextEntryType DEF Due, TypeOK
  <1>3. CASE lastSlot[JobAt(t)] # SlotOf(JobAt(t), tick[t].now)
    <2>1. lastSlot' \in [Jobs -> Nat]
      BY <1>1, <1>3 DEF Due, TypeOK
    <2>2. GoTo(t, "skip") \/ GoTo(t, "start")
      BY <1>3 DEF Due
    <2>3. QED  BY <2>1, <2>2, GoToType DEF AwaitingDb
  <1>4. QED  BY <1>2, <1>3

-----------------------------------------------------------------------------
\* A clock reading and a run of the process keep their types when memory is lost.
LEMMA ForgetType ==
  ASSUME TypeOK, ForgetMemory,
         manual' \in Nat, objectFailures' \in Nat, faults' \in Nat, crashes' \in Nat
  PROVE  TypeOK'
  <1>1. 0 \in Times
    BY JobAssumption DEF Times
  <1>2. tick' \in [Ticks -> TickStates]
    BY TickOffType DEF ForgetMemory
  <1>3. rounds' \subseteq RoundStates /\ running' \subseteq Jobs /\ lastSlot' \in [Jobs -> Nat]
    BY DEF ForgetMemory
  <1>4. QED  BY <1>1, <1>2, <1>3 DEF TypeOK, ForgetMemory, tables

\* Opening a failure item keeps job_failures well typed.
LEMMA RecordFailureType ==
  ASSUME TypeOK, NEW j \in Jobs, NEW target \in Targets \cup {RoundTarget},
         RecordFailure(j, target)
  PROVE  failures' \in [Items -> [open: BOOLEAN, last: Times]]
  <1>1. [open |-> TRUE, last |-> clock] \in [open: BOOLEAN, last: Times]
    BY DEF TypeOK
  <1>2. QED  BY <1>1 DEF TypeOK, RecordFailure, Items

\* Moving a round on keeps the rounds well typed and its job the same.
LEMMA RoundFields ==
  ASSUME NEW r \in RoundStates
  PROVE  /\ r.job \in Jobs /\ r.run \in Nat /\ r.at \in Times /\ r.tick \in Ticks
         /\ r.next \in SUBSET Jobs
         /\ \A pc \in {"body", "finish", "resolve", "chain", "fail", "record"} :
              /\ [r EXCEPT !.pc = pc] \in RoundStates
              /\ [r EXCEPT !.pc = pc].job = r.job
         /\ \A next \in SUBSET Jobs :
              /\ [r EXCEPT !.next = next] \in RoundStates
              /\ [r EXCEPT !.next = next].job = r.job
              /\ [r EXCEPT !.pc = "finish", !.next = next] \in RoundStates
              /\ [r EXCEPT !.pc = "finish", !.next = next].job = r.job
  BY DEF RoundStates

\* Every step of a tick keeps every variable in its type.
LEMMA TickTypeStep ==
  ASSUME TypeOK, NEW t \in Ticks, StartTick(t) \/ TickStep(t) \/ TickThrows(t)
  PROVE  TypeOK'
  <1>1. CASE StartTick(t)
    <2>1. [TickOff EXCEPT !.pc = "check", !.now = clock] \in TickStates
      BY TickOffType DEF TypeOK, TickOff, TickStates
    <2>2. tick' \in [Ticks -> TickStates]
      BY <1>1, <2>1 DEF StartTick, TypeOK
    <2>3. QED  BY <1>1, <2>2 DEF StartTick, TypeOK, tables, counters
  <1>2. CASE Check(t)
    <2>1. CASE JobAt(t) \in running
      BY <1>2, <2>1, DueType DEF Check, TypeOK, tables, counters
    <2>2. CASE JobAt(t) \notin running
      <3>1. GoTo(t, "select") /\ UNCHANGED lastSlot
        BY <1>2, <2>2 DEF Check
      <3>2. tick' \in [Ticks -> TickStates]
        BY <3>1, GoToType DEF AwaitingDb
      <3>3. QED  BY <1>2, <3>1, <3>2 DEF Check, TypeOK, tables, counters
    <2>3. QED  BY <2>1, <2>2
  <1>3. CASE Select(t)
    <2>1. CASE QueuedRuns(JobAt(t)) = {}
      BY <1>3, <2>1, DueType DEF Select, TypeOK, tables, counters
    <2>2. CASE QueuedRuns(JobAt(t)) # {}
      <3>1. QueuedRuns(JobAt(t)) \in SUBSET Nat
        BY DEF QueuedRuns, TypeOK
      <3>2. ASSUME NEW s \in TickStates, NEW S \in SUBSET Nat
            PROVE  [s EXCEPT !.pc = "update", !.claimed = S] \in TickStates
        BY DEF TickStates, AwaitingDb
      <3>3. tick' = [tick EXCEPT ![t] = [tick[t] EXCEPT !.pc = "update",
                                                      !.claimed = QueuedRuns(JobAt(t))]]
        BY <1>3, <2>2 DEF Select, TypeOK
      <3>4. tick' \in [Ticks -> TickStates]
        BY <3>1, <3>2, <3>3, TickFields DEF TypeOK
      <3>5. QED  BY <1>3, <2>2, <3>4 DEF Select, TypeOK, tables, counters
    <2>3. QED  BY <2>1, <2>2
  <1>4. CASE Update(t)
    <2>1. runs' \in Seq(RunRows)
      <3>1. runs \in Seq(RunRows) /\ DOMAIN runs = 1..Len(runs) /\ Len(runs) \in Nat
        BY DEF TypeOK
      <3>2. ASSUME NEW i \in DOMAIN runs
            PROVE  (IF i \in tick[t].claimed /\ runs[i].status = "queued"
                      THEN [runs[i] EXCEPT !.status = "running", !.at = tick[t].now]
                      ELSE runs[i]) \in RunRows
        <4>1. runs[i] \in RunRows /\ tick[t].now \in Times
          BY <3>1, <3>2, TickFields
        <4>2. QED  BY <4>1 DEF RunRows, RunStatuses
      <3>3. runs' = [i \in 1..Len(runs) |->
                       IF i \in tick[t].claimed /\ runs[i].status = "queued"
                         THEN [runs[i] EXCEPT !.status = "running", !.at = tick[t].now]
                         ELSE runs[i]]
        BY <1>4, <3>1 DEF Update
      <3>4. runs' \in [1..Len(runs) -> RunRows]
        BY <3>1, <3>2, <3>3, Zenon
      <3>5. QED  BY <3>1, <3>4
    <2>2. tick[t].claimed \in SUBSET Nat
      BY TickFields DEF TickStates
    <2>3. CASE Cardinality(tick[t].claimed) = 1
      <3>1. PICK i \in tick[t].claimed : LaunchClaimed(t, i)
        BY <1>4, <2>3 DEF Update
      <3>2. running' \subseteq Jobs /\ rounds' \subseteq RoundStates
               /\ tick' \in [Ticks -> TickStates]
        BY <2>2, <3>1, LaunchType DEF LaunchClaimed
      <3>3. lastSlot' \in [Jobs -> Nat]
        BY <3>1, SlotNat, TickFields DEF LaunchClaimed, TypeOK
      <3>4. QED  BY <1>4, <2>1, <3>2, <3>3 DEF Update, TypeOK, counters
    <2>4. CASE Cardinality(tick[t].claimed) # 1
      <3>1. GoTo(t, "coalesce") /\ UNCHANGED <<running, rounds, lastSlot>>
        BY <1>4, <2>4 DEF Update
      <3>2. tick' \in [Ticks -> TickStates]
        BY <3>1, GoToType DEF AwaitingDb
      <3>3. QED  BY <1>4, <2>1, <3>1, <3>2 DEF Update, TypeOK, counters
    <2>5. QED  BY <2>3, <2>4
  <1>5. CASE Coalesce(t)
    <2>1. PICK i \in tick[t].claimed :
            SetStatus(tick[t].claimed \ {i}, "skipped") /\ LaunchClaimed(t, i)
      BY <1>5 DEF Coalesce
    <2>2. i \in Nat
      BY TickFields DEF TickStates
    <2>3. runs' \in Seq(RunRows)
      BY <2>1, SetStatusType DEF RunStatuses
    <2>4. running' \subseteq Jobs /\ rounds' \subseteq RoundStates
               /\ tick' \in [Ticks -> TickStates]
      BY <2>1, <2>2, LaunchType DEF LaunchClaimed
    <2>5. lastSlot' \in [Jobs -> Nat]
      BY <2>1, SlotNat, TickFields DEF LaunchClaimed, TypeOK
    <2>6. QED  BY <1>5, <2>3, <2>4, <2>5 DEF Coalesce, TypeOK, counters
  <1>6. CASE RecordSkip(t)
    <2>1. runs' \in Seq(RunRows)
      BY <1>6, InsertType, TickFields DEF RecordSkip, Triggers, RunStatuses
    <2>2. tick' \in [Ticks -> TickStates]
      BY <1>6, NextEntryType DEF RecordSkip
    <2>3. QED  BY <1>6, <2>1, <2>2 DEF RecordSkip, TypeOK, counters
  <1>7. CASE StartRun(t)
    <2>1. runs' \in Seq(RunRows)
      BY <1>7, InsertType, TickFields DEF StartRun, Triggers, RunStatuses
    <2>2. Len(runs) + 1 \in Nat
      BY DEF TypeOK
    <2>3. running' \subseteq Jobs /\ rounds' \subseteq RoundStates
               /\ tick' \in [Ticks -> TickStates]
      BY <1>7, <2>2, LaunchType DEF StartRun
    <2>4. QED  BY <1>7, <2>1, <2>3 DEF StartRun, TypeOK, counters
  <1>8. CASE TickThrows(t)
    BY <1>8, TickOffType DEF TickThrows, Fault, TypeOK, tables
  <1>9. QED  BY <1>1, <1>2, <1>3, <1>4, <1>5, <1>6, <1>7, <1>8 DEF TickStep

\* Every step of a round keeps every variable in its type.
LEMMA RoundTypeStep ==
  ASSUME TypeOK, NEW r \in rounds,
         \/ RoundStep(r) \/ RoundThrows(r)
         \/ \E target \in Targets : BodyFailsOn(r, target)
         \/ \E j \in Jobs : ChainFails(r, j)
  PROVE  TypeOK'
  <1>1. r \in RoundStates
    BY DEF TypeOK
  <1> USE DEF RoundUnchanged
  <1>2. ASSUME NEW target \in Targets, BodyFailsOn(r, target) PROVE TypeOK'
    <2>1. failures' \in [Items -> [open: BOOLEAN, last: Times]]
      BY <1>1, <1>2, RoundFields, RecordFailureType DEF BodyFailsOn
    <2>2. QED  BY <1>2, <2>1 DEF BodyFailsOn, TypeOK
  <1>3. ASSUME NEW p \in BOOLEAN, BodyReturns(r, p) PROVE TypeOK'
    <2>1. PICK next \in SUBSET Jobs :
            rounds' = (rounds \ {r}) \cup {[r EXCEPT !.pc = "finish", !.next = next]}
      <3>1. (IF p THEN {j \in Jobs : <<r.job, j>> \in Chains} ELSE {}) \in SUBSET Jobs
        OBVIOUS
      <3>2. QED  BY <1>3, <3>1 DEF BodyReturns
    <2>2. rounds' \subseteq RoundStates
      BY <1>1, <2>1, RoundFields DEF TypeOK
    <2>3. QED  BY <1>3, <2>2 DEF BodyReturns, TypeOK, tables, counters
  <1>4. ASSUME NEW pc \in {"body", "finish", "resolve", "chain", "fail", "record"}, RoundTo(r, pc)
        PROVE  rounds' \subseteq RoundStates
    BY <1>1, <1>4, RoundFields DEF RoundTo, TypeOK
  <1>5. CASE BodyThrows(r)
    <2>1. rounds' \subseteq RoundStates
      BY <1>4, <1>5 DEF BodyThrows
    <2>2. QED  BY <1>5, <2>1 DEF BodyThrows, TypeOK, tables, counters
  <1>6. CASE FinishSucceeded(r)
    <2>1. rounds' \subseteq RoundStates
      BY <1>4, <1>6 DEF FinishSucceeded
    <2>2. runs' \in Seq(RunRows)
      BY <1>6, SetStatusType DEF FinishSucceeded, RunStatuses
    <2>3. QED  BY <1>6, <2>1, <2>2 DEF FinishSucceeded, TypeOK, counters
  <1>7. CASE ResolveStale(r)
    <2>1. rounds' \subseteq RoundStates
      BY <1>4, <1>7 DEF ResolveStale
    <2>2. ASSUME NEW i \in Items
          PROVE  (IF i[1] = r.job /\ failures[i].last < r.at
                    THEN [failures[i] EXCEPT !.open = FALSE] ELSE failures[i])
                   \in [open: BOOLEAN, last: Times]
      <3>1. failures[i] \in [open: BOOLEAN, last: Times]
        BY DEF TypeOK
      <3>2. QED  BY <3>1
    <2>3. failures' \in [Items -> [open: BOOLEAN, last: Times]]
      BY <1>7, <2>2 DEF ResolveStale
    <2>4. QED  BY <1>7, <2>1, <2>3 DEF ResolveStale, TypeOK, counters
  <1>8. ASSUME NEW j \in Jobs
        PROVE  [r EXCEPT !.next = r.next \ {j}] \in RoundStates
    BY <1>1, RoundFields
  <1>9. ASSUME NEW j \in Jobs, Chain(r, j) PROVE TypeOK'
    <2>1. rounds' \subseteq RoundStates
      BY <1>8, <1>9 DEF Chain, TypeOK
    <2>2. runs' \in Seq(RunRows)
      <3>1. clock \in Times
        BY DEF TypeOK
      <3>2. QED  BY <1>9, <3>1, InsertType DEF Chain, Triggers, RunStatuses
    <2>3. QED  BY <1>9, <2>1, <2>2 DEF Chain, TypeOK, counters
  <1>10. ASSUME NEW j \in Jobs, ChainFails(r, j) PROVE TypeOK'
    <2>1. rounds' \subseteq RoundStates
      BY <1>8, <1>10 DEF ChainFails, TypeOK
    <2>2. QED  BY SMTT(20), <1>10, <2>1 DEF ChainFails, Fault, TypeOK, tables
  <1>11. CASE RoundEnds(r)
    BY <1>11 DEF RoundEnds, LeaveRound, TypeOK, tables, counters
  <1>12. CASE FinishFailed(r)
    <2>1. rounds' \subseteq RoundStates
      BY <1>4, <1>12 DEF FinishFailed
    <2>2. runs' \in Seq(RunRows)
      BY <1>12, SetStatusType DEF FinishFailed, RunStatuses
    <2>3. QED  BY <1>12, <2>1, <2>2 DEF FinishFailed, TypeOK, counters
  <1>13. CASE RecordRoundFailure(r)
    <2>1. failures' \in [Items -> [open: BOOLEAN, last: Times]]
      BY <1>1, <1>13, RoundFields, RecordFailureType DEF RecordRoundFailure
    <2>2. QED  BY <1>13, <2>1 DEF RecordRoundFailure, LeaveRound, TypeOK, counters
  <1>14. CASE RoundThrows(r)
    <2>1. rounds' \subseteq RoundStates /\ running' \subseteq Jobs
      <3>1. CASE RoundTo(r, "fail") /\ UNCHANGED running
        BY <1>4, <3>1 DEF TypeOK
      <3>2. CASE LeaveRound(r)
        BY <3>2 DEF LeaveRound, TypeOK
      <3>3. QED  BY <1>14, <3>1, <3>2 DEF RoundThrows
    <2>2. QED  BY <1>14, <2>1 DEF RoundThrows, Fault, TypeOK, tables
  <1>15. QED
    BY <1>2, <1>3, <1>5, <1>6, <1>7, <1>9, <1>10, <1>11, <1>12, <1>13, <1>14 DEF RoundStep

\* Every step keeps every variable in its type.
LEMMA TypeStep == TypeOK /\ [Next]_vars => TypeOK'
  <1> SUFFICES ASSUME TypeOK, [Next]_vars PROVE TypeOK'
    OBVIOUS
  <1>1. CASE BootBegin
    BY <1>1 DEF BootBegin, TypeOK, tables, counters
  <1>2. CASE Bootstrap
    <2>1. runs' \in Seq(RunRows)
      BY <1>2, SetStatusType DEF Bootstrap, RunStatuses
    <2>2. lastSlot' \in [Jobs -> Nat]
      BY <1>2, SlotNat DEF Bootstrap, TypeOK
    <2>3. QED  BY <1>2, <2>1, <2>2 DEF Bootstrap, TypeOK, counters
  <1>3. CASE BootstrapFails
    BY <1>3 DEF BootstrapFails, Fault, TypeOK, tables
  <1>4. CASE Crash
    BY <1>4, ForgetType DEF Crash, TypeOK
  <1>5. CASE Stop
    BY <1>5 DEF Stop, TypeOK, tables
  <1>6. CASE Exit
    BY <1>6, ForgetType DEF Exit, TypeOK, counters
  <1>7. ASSUME NEW t \in Ticks, StartTick(t) \/ TickStep(t) \/ TickThrows(t) PROVE TypeOK'
    BY <1>7, TickTypeStep
  <1>8. ASSUME NEW r \in rounds,
               \/ RoundStep(r) \/ RoundThrows(r)
               \/ \E target \in Targets : BodyFailsOn(r, target)
               \/ \E j \in Jobs : ChainFails(r, j)
        PROVE  TypeOK'
    BY <1>8, RoundTypeStep
  <1>9. ASSUME NEW j \in Jobs, EnqueueManual(j) PROVE TypeOK'
    <2>1. clock \in Times
      BY DEF TypeOK
    <2>2. runs' \in Seq(RunRows)
      BY <1>9, <2>1, InsertType DEF EnqueueManual, Triggers, RunStatuses
    <2>3. QED  BY <1>9, <2>2 DEF EnqueueManual, TypeOK, memory
  <1>10. CASE Advance
    <2>1. clock' \in Times
      BY <1>10, JobAssumption DEF Advance, TypeOK, Times
    <2>2. QED  BY <1>10, <2>1 DEF Advance, TypeOK, tables, memory, counters
  <1>11. CASE UNCHANGED vars
    BY <1>11 DEF vars, TypeOK, tables, memory, counters
  <1>12. QED
    BY <1>1, <1>2, <1>3, <1>4, <1>5, <1>6, <1>7, <1>8, <1>9, <1>10, <1>11 DEF Next

\* The initial state is well typed.
LEMMA TypeInit == Init => TypeOK
  <1> SUFFICES ASSUME Init PROVE TypeOK
    OBVIOUS
  <1>1. 0 \in Times
    BY JobAssumption DEF Times
  <1>2. tick \in [Ticks -> TickStates]
    BY TickOffType DEF Init
  <1>3. failures \in [Items -> [open: BOOLEAN, last: Times]]
    BY <1>1 DEF Init, NoItem
  <1>4. lastSlot \in [Jobs -> Nat] /\ runs \in Seq(RunRows)
    BY DEF Init
  <1>5. QED  BY <1>1, <1>2, <1>3, <1>4 DEF Init, TypeOK

\* The scheduler's memory and its two tables are well typed in every reachable
\* state, whatever crashes, restarts, faults and overlapping ticks there are.
THEOREM SchedulerTypeCorrect == Spec => []TypeOK
  BY TypeInit, TypeStep, PTL DEF Spec

-----------------------------------------------------------------------------
(***************************************************************************)
(* Overlap protection, when a tick never finds the one before still        *)
(* running.  The guard is read at one await and set at another; between    *)
(* the two nobody else may launch the job.                                 *)
(***************************************************************************)
OneTick == \A t, u \in Ticks : t = u

\* A tick between the reading of the guard and the launch: its job is free.
AboutToLaunch == {"select", "update", "coalesce", "start"}
JobStillFree == \A t \in Ticks : tick[t].pc \in AboutToLaunch => JobAt(t) \notin running

GuardInv == TypeOK /\ NoOverlap /\ GuardExact /\ JobStillFree

\* A round that is moved on and keeps its job disturbs nothing.
LEMMA RoundMoves ==
  ASSUME GuardInv, NEW r \in rounds, NEW q,
         q.job = r.job, rounds' = (rounds \ {r}) \cup {q},
         UNCHANGED <<running, tick>>
  PROVE  NoOverlap' /\ GuardExact' /\ JobStillFree'
  <1>1. NoOverlap'
    BY DEF GuardInv, NoOverlap
  <1>2. GuardExact'
    BY DEF GuardInv, GuardExact
  <1>3. JobStillFree'
    BY DEF GuardInv, JobStillFree, JobAt
  <1>4. QED  BY <1>1, <1>2, <1>3

\* A round that ends frees its job, and only that one.
LEMMA RoundLeaves ==
  ASSUME GuardInv, NEW r \in rounds, LeaveRound(r), UNCHANGED tick
  PROVE  NoOverlap' /\ GuardExact' /\ JobStillFree'
  <1>1. NoOverlap'
    BY DEF GuardInv, NoOverlap, LeaveRound
  <1>2. GuardExact'
    BY DEF GuardInv, NoOverlap, GuardExact, LeaveRound
  <1>3. JobStillFree'
    BY DEF GuardInv, JobStillFree, JobAt, LeaveRound
  <1>4. QED  BY <1>1, <1>2, <1>3

\* Going on to the next entry leaves the tick before its reading of the guard.
LEMMA NextEntryFree ==
  ASSUME TypeOK, OneTick, NEW t \in Ticks, NextEntry(t)
  PROVE  JobStillFree'
  <1>1. tick'[t].pc \in {"check", "off"}
    BY DEF TypeOK, NextEntry, TickOff
  <1>2. QED  BY <1>1 DEF OneTick, JobStillFree, AboutToLaunch

\* Launching a free job keeps one round per job and the guard exact.
LEMMA LaunchGuarded ==
  ASSUME GuardInv, OneTick, NEW t \in Ticks, JobAt(t) \notin running, NEW run, Launch(t, run)
  PROVE  NoOverlap' /\ GuardExact' /\ JobStillFree'
  <1> DEFINE new == [job |-> JobAt(t), run |-> run, at |-> tick[t].now, tick |-> t,
                     pc |-> "body", next |-> {}]
  <1>1. rounds' = rounds \cup {new} /\ new.job = JobAt(t) /\ running' = running \cup {JobAt(t)}
    BY DEF Launch
  <1>2. \A r \in rounds : r.job # JobAt(t)
    BY DEF GuardInv, GuardExact
  <1> HIDE DEF new
  <1>3. NoOverlap'
    BY <1>1, <1>2 DEF GuardInv, NoOverlap
  <1>4. GuardExact'
    BY <1>1 DEF GuardInv, GuardExact
  <1>5. JobStillFree'
    BY NextEntryFree DEF GuardInv, Launch
  <1>6. QED  BY <1>3, <1>4, <1>5

\* A tick that moves to another await for a job that is free, or to an await
\* after which it does not launch.
LEMMA GoToFree ==
  ASSUME GuardInv, OneTick, NEW t \in Ticks, NEW pc, GoTo(t, pc), UNCHANGED running,
         pc \in AboutToLaunch => JobAt(t) \notin running
  PROVE  JobStillFree'
  <1>1. tick[t] \in TickStates /\ tick' = [tick EXCEPT ![t] = [tick[t] EXCEPT !.pc = pc]]
    BY TickFields DEF GuardInv, GoTo, TypeOK
  <1>2. tick'[t].pc = pc /\ tick'[t].k = tick[t].k
    BY <1>1 DEF GuardInv, TypeOK, TickStates
  <1>3. QED  BY <1>2 DEF OneTick, JobStillFree, JobAt

\* The judgement whether a slot is due, made while the guard says "free" or
\* while it says "running".
LEMMA DueFree ==
  ASSUME GuardInv, OneTick, NEW t \in Ticks, Due(t), UNCHANGED running
  PROVE  JobStillFree'
  <1>1. NextEntry(t) \/ GoTo(t, IF JobAt(t) \in running THEN "skip" ELSE "start")
    BY DEF Due
  <1>2. CASE NextEntry(t)
    BY <1>2, NextEntryFree DEF GuardInv
  <1>3. CASE JobAt(t) \in running /\ GoTo(t, "skip")
    BY <1>3, GoToFree DEF AboutToLaunch
  <1>4. CASE JobAt(t) \notin running /\ GoTo(t, "start")
    BY <1>4, GoToFree DEF AboutToLaunch
  <1>5. QED  BY <1>1, <1>2, <1>3, <1>4

\* Every step of the tick preserves the guard invariant.
LEMMA TickGuardStep ==
  ASSUME GuardInv, OneTick, NEW t \in Ticks, StartTick(t) \/ TickStep(t) \/ TickThrows(t)
  PROVE  NoOverlap' /\ GuardExact' /\ JobStillFree'
  <1>0. ASSUME UNCHANGED <<running, rounds>> PROVE NoOverlap' /\ GuardExact'
    BY <1>0 DEF GuardInv, NoOverlap, GuardExact
  <1>1. CASE StartTick(t)
    <2>1. tick'[t].pc = "check"
      BY <1>1 DEF StartTick, GuardInv, TypeOK, TickOff
    <2>2. QED  BY <1>0, <1>1, <2>1 DEF StartTick, OneTick, JobStillFree, AboutToLaunch
  <1>2. CASE Check(t)
    <2>1. JobStillFree'
      <3>1. CASE JobAt(t) \in running
        BY <1>2, <3>1, DueFree DEF Check
      <3>2. CASE JobAt(t) \notin running
        BY <1>2, <3>2, GoToFree DEF Check
      <3>3. QED  BY <3>1, <3>2
    <2>2. QED  BY <1>0, <1>2, <2>1 DEF Check
  <1>3. CASE Select(t)
    <2>1. CASE QueuedRuns(JobAt(t)) = {}
      BY <1>0, <1>3, <2>1, DueFree DEF Select
    <2>2. CASE QueuedRuns(JobAt(t)) # {}
      <3>1. JobAt(t) \notin running
        BY <1>3 DEF Select, GuardInv, JobStillFree, AboutToLaunch
      <3>2. tick' = [tick EXCEPT ![t] = [tick[t] EXCEPT !.pc = "update",
                                                      !.claimed = QueuedRuns(JobAt(t))]]
        BY <1>3, <2>2 DEF Select, GuardInv, TypeOK
      <3>3. tick[t] \in TickStates
        BY TickFields DEF GuardInv
      <3>4. tick'[t].k = tick[t].k
        BY <3>2, <3>3 DEF GuardInv, TypeOK, TickStates
      <3>5. QED  BY <1>0, <1>3, <3>1, <3>4 DEF Select, OneTick, JobStillFree, JobAt
    <2>3. QED  BY <2>1, <2>2
  <1>4. CASE Update(t)
    <2>1. JobAt(t) \notin running
      BY <1>4 DEF Update, GuardInv, JobStillFree, AboutToLaunch
    <2>2. CASE Cardinality(tick[t].claimed) = 1
      BY <1>4, <2>1, <2>2, LaunchGuarded DEF Update, LaunchClaimed
    <2>3. CASE Cardinality(tick[t].claimed) # 1
      BY <1>0, <1>4, <2>1, <2>3, GoToFree DEF Update
    <2>4. QED  BY <2>2, <2>3
  <1>5. CASE Coalesce(t)
    <2>1. JobAt(t) \notin running
      BY <1>5 DEF Coalesce, GuardInv, JobStillFree, AboutToLaunch
    <2>2. QED  BY <1>5, <2>1, LaunchGuarded DEF Coalesce, LaunchClaimed
  <1>6. CASE RecordSkip(t)
    BY <1>0, <1>6, NextEntryFree DEF RecordSkip, GuardInv
  <1>7. CASE StartRun(t)
    <2>1. JobAt(t) \notin running
      BY <1>7 DEF StartRun, GuardInv, JobStillFree, AboutToLaunch
    <2>2. QED  BY <1>7, <2>1, LaunchGuarded DEF StartRun
  <1>8. CASE TickThrows(t)
    <2>1. tick'[t].pc = "off"
      BY <1>8 DEF TickThrows, GuardInv, TypeOK, TickOff
    <2>2. QED  BY <1>0, <1>8, <2>1 DEF TickThrows, OneTick, JobStillFree, AboutToLaunch
  <1>9. QED  BY <1>1, <1>2, <1>3, <1>4, <1>5, <1>6, <1>7, <1>8 DEF TickStep

\* Every step of a round preserves the guard invariant.
LEMMA RoundGuardStep ==
  ASSUME GuardInv, NEW r \in rounds,
         \/ RoundStep(r) \/ RoundThrows(r)
         \/ \E target \in Targets : BodyFailsOn(r, target)
         \/ \E j \in Jobs : ChainFails(r, j)
  PROVE  NoOverlap' /\ GuardExact' /\ JobStillFree'
  <1>1. r \in RoundStates
    BY DEF GuardInv, TypeOK
  <1> USE DEF RoundUnchanged
  <1>2. ASSUME NEW target \in Targets, BodyFailsOn(r, target)
        PROVE  NoOverlap' /\ GuardExact' /\ JobStillFree'
    BY <1>2 DEF BodyFailsOn, GuardInv, NoOverlap, GuardExact, JobStillFree, JobAt
  <1>3. ASSUME NEW p \in BOOLEAN, BodyReturns(r, p)
        PROVE  NoOverlap' /\ GuardExact' /\ JobStillFree'
    <2>1. PICK next \in SUBSET Jobs :
            rounds' = (rounds \ {r}) \cup {[r EXCEPT !.pc = "finish", !.next = next]}
      <3>1. (IF p THEN {j \in Jobs : <<r.job, j>> \in Chains} ELSE {}) \in SUBSET Jobs
        OBVIOUS
      <3>2. QED  BY <1>3, <3>1 DEF BodyReturns
    <2>2. [r EXCEPT !.pc = "finish", !.next = next].job = r.job
      BY <1>1, RoundFields
    <2>3. QED  BY <1>3, <2>1, <2>2, RoundMoves DEF BodyReturns
  <1>4. ASSUME NEW pc \in {"body", "finish", "resolve", "chain", "fail", "record"},
               RoundTo(r, pc), UNCHANGED <<running, tick>>
        PROVE  NoOverlap' /\ GuardExact' /\ JobStillFree'
    <2>1. [r EXCEPT !.pc = pc].job = r.job
      BY <1>1, RoundFields
    <2>2. QED  BY <1>4, <2>1, RoundMoves DEF RoundTo
  <1>5. ASSUME NEW j \in Jobs, Chain(r, j) \/ ChainFails(r, j)
        PROVE  NoOverlap' /\ GuardExact' /\ JobStillFree'
    <2>1. [r EXCEPT !.next = r.next \ {j}].job = r.job
      BY <1>1 DEF RoundStates
    <2>2. QED  BY <1>5, <2>1, RoundMoves DEF Chain, ChainFails
  <1>6. CASE BodyThrows(r)
    BY <1>4, <1>6 DEF BodyThrows
  <1>7. CASE FinishSucceeded(r)
    BY <1>4, <1>7 DEF FinishSucceeded
  <1>8. CASE ResolveStale(r)
    BY <1>4, <1>8 DEF ResolveStale
  <1>9. CASE RoundEnds(r)
    BY <1>9, RoundLeaves DEF RoundEnds
  <1>10. CASE FinishFailed(r)
    BY <1>4, <1>10 DEF FinishFailed
  <1>11. CASE RecordRoundFailure(r)
    BY <1>11, RoundLeaves DEF RecordRoundFailure
  <1>12. CASE RoundThrows(r)
    BY <1>4, <1>12, RoundLeaves DEF RoundThrows
  <1>13. QED
    BY <1>2, <1>3, <1>5, <1>6, <1>7, <1>8, <1>9, <1>10, <1>11, <1>12 DEF RoundStep

\* The guard invariant is inductive when there is one tick.
LEMMA GuardStep == OneTick /\ GuardInv /\ [Next]_vars => GuardInv'
  <1> SUFFICES ASSUME OneTick, GuardInv, [Next]_vars
               PROVE  NoOverlap' /\ GuardExact' /\ JobStillFree'
    BY TypeStep DEF GuardInv
  <1>1. ASSUME UNCHANGED <<running, rounds, tick>>
        PROVE  NoOverlap' /\ GuardExact' /\ JobStillFree'
    BY <1>1 DEF GuardInv, NoOverlap, GuardExact, JobStillFree, JobAt
  <1>2. ASSUME ForgetMemory PROVE NoOverlap' /\ GuardExact' /\ JobStillFree'
    BY <1>2 DEF ForgetMemory, NoOverlap, GuardExact, JobStillFree, TickOff, AboutToLaunch
  <1>3. CASE BootBegin \/ Bootstrap \/ BootstrapFails \/ Stop
    BY <1>1, <1>3 DEF BootBegin, Bootstrap, BootstrapFails, Stop
  <1>4. CASE Crash \/ Exit
    BY <1>2, <1>4 DEF Crash, Exit
  <1>5. ASSUME NEW t \in Ticks, StartTick(t) \/ TickStep(t) \/ TickThrows(t)
        PROVE  NoOverlap' /\ GuardExact' /\ JobStillFree'
    BY <1>5, TickGuardStep
  <1>6. ASSUME NEW r \in rounds,
               \/ RoundStep(r) \/ RoundThrows(r)
               \/ \E target \in Targets : BodyFailsOn(r, target)
               \/ \E j \in Jobs : ChainFails(r, j)
        PROVE  NoOverlap' /\ GuardExact' /\ JobStillFree'
    BY <1>6, RoundGuardStep
  <1>7. ASSUME NEW j \in Jobs, EnqueueManual(j)
        PROVE  NoOverlap' /\ GuardExact' /\ JobStillFree'
    BY <1>1, <1>7 DEF EnqueueManual, memory
  <1>8. CASE Advance \/ UNCHANGED vars
    BY <1>1, <1>8 DEF Advance, vars, memory
  <1>9. QED  BY <1>3, <1>4, <1>5, <1>6, <1>7, <1>8 DEF Next

\* The guard invariant holds initially.
LEMMA GuardInit == Init => GuardInv
  BY TypeInit DEF Init, GuardInv, NoOverlap, GuardExact, JobStillFree, TickOff, AboutToLaunch

\* The guard invariant holds in every reachable state when there is one tick.
LEMMA GuardHolds == ASSUME OneTick PROVE Spec => []GuardInv
  <1>1. GuardInv /\ [Next]_vars => GuardInv'
    BY GuardStep
  <1>2. QED  BY <1>1, GuardInit, PTL DEF Spec

\* With one tick at a time two rounds of a job never run together, whatever is
\* queued, thrown or restarted: the overlap guard does what it is for, and what
\* the timer does not guarantee is the only thing missing.
THEOREM SingleTickNoOverlap == ASSUME OneTick PROVE Spec => []NoOverlap
  <1>1. GuardInv => NoOverlap
    BY DEF GuardInv
  <1>2. QED  BY <1>1, GuardHolds, PTL

\* With one tick at a time the guard holds exactly the jobs in flight: a job is
\* never locked out by a round that has ended, in whatever way it ended.
THEOREM SingleTickGuardExact == ASSUME OneTick PROVE Spec => []GuardExact
  <1>1. GuardInv => GuardExact
    BY DEF GuardInv
  <1>2. QED  BY <1>1, GuardHolds, PTL

-----------------------------------------------------------------------------
(***************************************************************************)
(* The rows of job_runs, when there is one tick: every round has a row of  *)
(* its own whose status is what the round has come to, and what a tick has *)
(* claimed is touched by nobody else.                                      *)
(***************************************************************************)

\* Rewriting the status of some rows changes nothing else of job_runs.
LEMMA StatusSet ==
  ASSUME TypeOK, NEW ids, NEW st, SetStatus(ids, st)
  PROVE  /\ DOMAIN runs' = DOMAIN runs
         /\ \A i \in DOMAIN runs :
              /\ runs'[i].job = runs[i].job /\ runs'[i].trigger = runs[i].trigger
              /\ runs'[i].at = runs[i].at
              /\ i \in ids => runs'[i].status = st
              /\ i \notin ids => runs'[i].status = runs[i].status
  <1>1. runs' = [i \in DOMAIN runs |->
                   IF i \in ids THEN [runs[i] EXCEPT !.status = st] ELSE runs[i]]
    BY DEF SetStatus
  <1>2. ASSUME NEW i \in DOMAIN runs
        PROVE  /\ runs'[i].job = runs[i].job /\ runs'[i].trigger = runs[i].trigger
               /\ runs'[i].at = runs[i].at
               /\ i \in ids => runs'[i].status = st
               /\ i \notin ids => runs'[i].status = runs[i].status
    <2>1. runs[i] \in RunRows
      BY <1>2 DEF TypeOK
    <2>2. runs'[i] = IF i \in ids THEN [runs[i] EXCEPT !.status = st] ELSE runs[i]
      BY <1>1, <1>2
    <2>3. QED  BY <2>1, <2>2 DEF RunRows
  <1>3. DOMAIN runs' = DOMAIN runs
    BY <1>1
  <1>4. QED  BY <1>2, <1>3

\* Adding a row leaves the others as they are.
LEMMA RowInserted ==
  ASSUME TypeOK, NEW j, NEW trigger, NEW st, NEW at, Insert(j, trigger, st, at)
  PROVE  /\ DOMAIN runs' = DOMAIN runs \cup {Len(runs) + 1}
         /\ Len(runs) + 1 \notin DOMAIN runs
         /\ \A i \in DOMAIN runs : runs'[i] = runs[i]
         /\ runs'[Len(runs) + 1].job = j /\ runs'[Len(runs) + 1].trigger = trigger
         /\ runs'[Len(runs) + 1].status = st /\ runs'[Len(runs) + 1].at = at
  <1> DEFINE row == [job |-> j, trigger |-> trigger, status |-> st, at |-> at]
  <1>1. runs' = Append(runs, row)
    BY DEF Insert
  <1>2. runs \in Seq(RunRows) /\ Len(runs) \in Nat /\ DOMAIN runs = 1..Len(runs)
    BY DEF TypeOK
  <1> HIDE DEF row
  <1>3. DOMAIN runs' = 1..(Len(runs) + 1)
    BY <1>1, <1>2
  <1>4. \A i \in DOMAIN runs : runs'[i] = runs[i]
    BY <1>1, <1>2
  <1>5. runs'[Len(runs) + 1] = row
    BY <1>1, <1>2
  <1>6. QED  BY <1>2, <1>3, <1>4, <1>5 DEF row

\* The UPDATE of claimQueued: the claimed rows that are queued become running rows of now.
LEMMA RowsClaimed ==
  ASSUME TypeOK, NEW t \in Ticks, Update(t)
  PROVE  /\ DOMAIN runs' = DOMAIN runs
         /\ \A i \in DOMAIN runs :
              /\ runs'[i].job = runs[i].job /\ runs'[i].trigger = runs[i].trigger
              /\ i \in tick[t].claimed /\ runs[i].status = "queued"
                   => runs'[i].status = "running" /\ runs'[i].at = tick[t].now
              /\ ~(i \in tick[t].claimed /\ runs[i].status = "queued") => runs'[i] = runs[i]
  <1>1. runs' = [i \in DOMAIN runs |->
                   IF i \in tick[t].claimed /\ runs[i].status = "queued"
                     THEN [runs[i] EXCEPT !.status = "running", !.at = tick[t].now]
                     ELSE runs[i]]
    BY DEF Update
  <1>2. ASSUME NEW i \in DOMAIN runs
        PROVE  /\ runs'[i].job = runs[i].job /\ runs'[i].trigger = runs[i].trigger
               /\ i \in tick[t].claimed /\ runs[i].status = "queued"
                    => runs'[i].status = "running" /\ runs'[i].at = tick[t].now
               /\ ~(i \in tick[t].claimed /\ runs[i].status = "queued") => runs'[i] = runs[i]
    <2>1. runs[i] \in RunRows
      BY <1>2 DEF TypeOK
    <2>2. runs'[i] = IF i \in tick[t].claimed /\ runs[i].status = "queued"
                       THEN [runs[i] EXCEPT !.status = "running", !.at = tick[t].now]
                       ELSE runs[i]
      BY <1>1, <1>2
    <2>3. QED  BY <2>1, <2>2 DEF RunRows
  <1>3. DOMAIN runs' = DOMAIN runs
    BY <1>1
  <1>4. QED  BY <1>2, <1>3

\* What the row of a round says while the round is at one of its awaits.
Stands(pc, status) ==
  /\ pc \in {"body", "finish"} => status = "running"
  /\ pc \in {"resolve", "chain"} => status = "succeeded"
  /\ pc = "fail" => status \in {"running", "succeeded"}
  /\ pc = "record" => status = "failed"

RoundsRun ==
  \A r \in rounds : /\ r.run \in DOMAIN runs /\ runs[r.run].job = r.job
                    /\ Stands(r.pc, runs[r.run].status)

ClaimsHeld ==
  \A t \in Ticks : tick[t].pc \in {"update", "coalesce"} =>
    \A i \in tick[t].claimed :
      /\ i \in DOMAIN runs /\ runs[i].job = JobAt(t)
      /\ tick[t].pc = "update" => runs[i].status = "queued"
      /\ tick[t].pc = "coalesce" => runs[i].status = "running" /\ runs[i].at = tick[t].now

AsleepQuiet == ~Alive => rounds = {} /\ \A t \in Ticks : tick[t].pc = "off"

RunsInv == GuardInv /\ RoundsRun /\ ClaimsHeld /\ AsleepQuiet

\* What a step may do to the verdicts of finished runs: the body of VerdictFinal.
VerdictKept ==
  \A i \in DOMAIN runs :
    runs[i].status \in Terminal =>
      \/ runs'[i].status = runs[i].status
      \/ /\ runs[i].status = "succeeded" /\ runs'[i].status = "failed"
         /\ \E r \in rounds : r.run = i /\ r.pc = "fail"

\* Every row stays, with its job, its status and its time.
RowsStay ==
  \A i \in DOMAIN runs : /\ i \in DOMAIN runs' /\ runs'[i].job = runs[i].job
                         /\ runs'[i].status = runs[i].status /\ runs'[i].at = runs[i].at

\* The row of a round is not among the rows a tick has claimed.
LEMMA RunNotClaimed ==
  ASSUME RunsInv, NEW r \in rounds, NEW t \in Ticks, tick[t].pc \in {"update", "coalesce"}
  PROVE  r.run \notin tick[t].claimed
  <1>1. r.job \in running
    BY DEF RunsInv, GuardInv, GuardExact
  <1>2. JobAt(t) \notin running
    BY DEF RunsInv, GuardInv, JobStillFree, AboutToLaunch
  <1>3. QED  BY <1>1, <1>2 DEF RunsInv, RoundsRun, ClaimsHeld

\* Where the rows, the rounds and the ticks stay, everything said of them stays.
LEMMA RunsStay ==
  ASSUME RunsInv, RowsStay
  PROVE  /\ VerdictKept
         /\ UNCHANGED rounds => RoundsRun'
         /\ UNCHANGED tick => ClaimsHeld'
  <1>1. VerdictKept
    BY DEF RowsStay, VerdictKept
  <1>2. UNCHANGED rounds => RoundsRun'
    BY DEF RowsStay, RunsInv, RoundsRun
  <1>3. UNCHANGED tick => ClaimsHeld'
    BY DEF RowsStay, RunsInv, ClaimsHeld, JobAt
  <1>4. QED  BY <1>1, <1>2, <1>3

\* A round that moves on, while no row but its own changes its status.
LEMMA RunMoves ==
  ASSUME RunsInv, NEW r \in rounds, NEW q,
         q.run = r.run, q.job = r.job, rounds' = (rounds \ {r}) \cup {q}, UNCHANGED tick,
         \A i \in DOMAIN runs : /\ i \in DOMAIN runs' /\ runs'[i].job = runs[i].job
                                /\ runs'[i].at = runs[i].at
                                /\ i # r.run => runs'[i].status = runs[i].status,
         Stands(q.pc, runs'[r.run].status)
  PROVE  RoundsRun' /\ ClaimsHeld'
  <1>1. \A s \in rounds \ {r} : s.run # r.run
    BY DEF RunsInv, GuardInv, NoOverlap, RoundsRun
  <1>2. RoundsRun'
    BY <1>1 DEF RunsInv, RoundsRun
  <1>3. ClaimsHeld'
    BY RunNotClaimed DEF RunsInv, ClaimsHeld, JobAt
  <1>4. QED  BY <1>2, <1>3

\* A round that leaves.
LEMMA RunLeaves ==
  ASSUME RunsInv, NEW r \in rounds, LeaveRound(r), UNCHANGED <<tick, runs>>
  PROVE  RoundsRun' /\ ClaimsHeld' /\ VerdictKept
  <1>1. RowsStay
    BY DEF RowsStay
  <1>2. RoundsRun'
    BY DEF RunsInv, RoundsRun, LeaveRound
  <1>3. QED  BY <1>1, <1>2, RunsStay

\* A new round whose row is running, while the rows of the others stay what they are.
LEMMA RunLaunched ==
  ASSUME RunsInv, NEW t \in Ticks, NEW run, Launch(t, run),
         run \in DOMAIN runs', runs'[run].job = JobAt(t), runs'[run].status = "running",
         \A r \in rounds : /\ r.run \in DOMAIN runs' /\ runs'[r.run].job = runs[r.run].job
                           /\ runs'[r.run].status = runs[r.run].status
  PROVE  RoundsRun'
  <1> DEFINE new == [job |-> JobAt(t), run |-> run, at |-> tick[t].now, tick |-> t,
                     pc |-> "body", next |-> {}]
  <1>1. rounds' = rounds \cup {new} /\ new.job = JobAt(t) /\ new.run = run /\ new.pc = "body"
    BY DEF Launch
  <1>2. Stands(new.pc, runs'[run].status)
    BY <1>1 DEF Stands
  <1> HIDE DEF new
  <1>3. QED  BY <1>1, <1>2 DEF RunsInv, RoundsRun

\* A tick that goes on to the next entry, or ends, holds no claim.
LEMMA NoClaimAfter ==
  ASSUME TypeOK, OneTick, NEW t \in Ticks, NextEntry(t)
  PROVE  ClaimsHeld'
  <1>1. tick'[t].pc \in {"check", "off"}
    BY DEF TypeOK, NextEntry, TickOff
  <1>2. QED  BY <1>1 DEF OneTick, ClaimsHeld

\* A tick that goes to an await at which nothing is claimed.
LEMMA NoClaimAt ==
  ASSUME TypeOK, OneTick, NEW t \in Ticks, NEW pc, GoTo(t, pc), pc \notin {"update", "coalesce"}
  PROVE  ClaimsHeld'
  <1>1. tick'[t].pc = pc
    <2>1. tick[t] \in TickStates
      BY TickFields
    <2>2. QED  BY <2>1 DEF TypeOK, GoTo, TickStates
  <1>2. QED  BY <1>1 DEF OneTick, ClaimsHeld

\* The judgement whether a slot is due claims nothing.
LEMMA NoClaimDue ==
  ASSUME TypeOK, OneTick, NEW t \in Ticks, Due(t)
  PROVE  ClaimsHeld'
  <1>1. NextEntry(t) \/ GoTo(t, IF JobAt(t) \in running THEN "skip" ELSE "start")
    BY DEF Due
  <1>2. CASE NextEntry(t)
    BY <1>2, NoClaimAfter
  <1>3. CASE GoTo(t, IF JobAt(t) \in running THEN "skip" ELSE "start")
    <2>1. (IF JobAt(t) \in running THEN "skip" ELSE "start") \notin {"update", "coalesce"}
      OBVIOUS
    <2>2. QED  BY <1>3, <2>1, NoClaimAt
  <1>4. QED  BY <1>1, <1>2, <1>3

\* Every step of the tick.
LEMMA TickRunsStep ==
  ASSUME RunsInv, OneTick, NEW t \in Ticks, StartTick(t) \/ TickStep(t) \/ TickThrows(t)
  PROVE  RoundsRun' /\ ClaimsHeld' /\ VerdictKept
  <1>0. TypeOK
    BY DEF RunsInv, GuardInv
  <1>1. CASE StartTick(t)
    <2>1. tick'[t].pc = "check"
      BY <1>0, <1>1 DEF StartTick, TypeOK, TickOff
    <2>2. ClaimsHeld'
      BY <2>1 DEF OneTick, ClaimsHeld
    <2>3. RowsStay
      BY <1>1 DEF StartTick, tables, RowsStay
    <2>4. QED  BY <1>1, <2>2, <2>3, RunsStay DEF StartTick
  <1>2. CASE Check(t)
    <2>1. RowsStay
      BY <1>2 DEF Check, tables, RowsStay
    <2>2. ClaimsHeld'
      <3>1. CASE JobAt(t) \in running
        BY <1>0, <1>2, <3>1, NoClaimDue DEF Check
      <3>2. CASE JobAt(t) \notin running
        BY <1>0, <1>2, <3>2, NoClaimAt DEF Check
      <3>3. QED  BY <3>1, <3>2
    <2>3. QED  BY <1>2, <2>1, <2>2, RunsStay DEF Check
  <1>3. CASE Select(t)
    <2>1. RowsStay
      BY <1>3 DEF Select, tables, RowsStay
    <2>2. ClaimsHeld'
      <3>1. CASE QueuedRuns(JobAt(t)) = {}
        BY <1>0, <1>3, <3>1, NoClaimDue DEF Select
      <3>2. CASE QueuedRuns(JobAt(t)) # {}
        <4>1. tick' = [tick EXCEPT ![t] = [tick[t] EXCEPT !.pc = "update",
                                                        !.claimed = QueuedRuns(JobAt(t))]]
          BY <1>0, <1>3, <3>2 DEF Select, TypeOK
        <4>2. tick[t] \in TickStates
          BY <1>0, TickFields
        <4>3. tick'[t].k = tick[t].k /\ tick'[t].pc = "update"
                /\ tick'[t].claimed = QueuedRuns(JobAt(t))
          BY <1>0, <4>1, <4>2 DEF TypeOK, TickStates
        <4>4. runs' = runs
          BY <1>3 DEF Select, tables
        <4>5. QED  BY <4>3, <4>4 DEF OneTick, ClaimsHeld, JobAt, QueuedRuns
      <3>3. QED  BY <3>1, <3>2
    <2>3. QED  BY <1>3, <2>1, <2>2, RunsStay DEF Select
  <1>4. CASE Update(t)
    <2>0. tick[t].pc = "update"
      BY <1>4 DEF Update
    <2>1. \A i \in tick[t].claimed :
            /\ i \in DOMAIN runs' /\ runs'[i].job = JobAt(t)
            /\ runs'[i].status = "running" /\ runs'[i].at = tick[t].now
      BY <1>0, <1>4, <2>0, RowsClaimed DEF RunsInv, ClaimsHeld
    <2>2. \A r \in rounds : /\ r.run \in DOMAIN runs' /\ runs'[r.run].job = runs[r.run].job
                            /\ runs'[r.run].status = runs[r.run].status
      BY <1>0, <1>4, <2>0, RowsClaimed, RunNotClaimed DEF RunsInv, RoundsRun
    <2>3. VerdictKept
      BY <1>0, <1>4, RowsClaimed DEF VerdictKept, Terminal
    <2>4. CASE Cardinality(tick[t].claimed) = 1
      <3>1. PICK i \in tick[t].claimed : LaunchClaimed(t, i)
        BY <1>4, <2>4 DEF Update
      <3>2. RoundsRun'
        BY <2>1, <2>2, <3>1, RunLaunched DEF LaunchClaimed
      <3>3. ClaimsHeld'
        BY <1>0, <3>1, NoClaimAfter DEF LaunchClaimed, Launch
      <3>4. QED  BY <2>3, <3>2, <3>3
    <2>5. CASE Cardinality(tick[t].claimed) # 1
      <3>1. GoTo(t, "coalesce") /\ rounds' = rounds
        BY <1>4, <2>5 DEF Update
      <3>2. RoundsRun'
        BY <2>2, <3>1 DEF RunsInv, RoundsRun
      <3>3. tick'[t].pc = "coalesce" /\ tick'[t].k = tick[t].k
              /\ tick'[t].claimed = tick[t].claimed /\ tick'[t].now = tick[t].now
        <4>1. tick[t] \in TickStates
          BY <1>0, TickFields
        <4>2. QED  BY <1>0, <3>1, <4>1 DEF GoTo, TypeOK, TickStates
      <3>4. ClaimsHeld'
        BY <2>1, <3>3 DEF OneTick, ClaimsHeld, JobAt
      <3>5. QED  BY <2>3, <3>2, <3>4
    <2>6. QED  BY <2>4, <2>5
  <1>5. CASE Coalesce(t)
    <2>0. tick[t].pc = "coalesce"
      BY <1>5 DEF Coalesce
    <2>1. PICK i \in tick[t].claimed :
            SetStatus(tick[t].claimed \ {i}, "skipped") /\ LaunchClaimed(t, i)
      BY <1>5 DEF Coalesce
    <2>2. /\ DOMAIN runs' = DOMAIN runs
          /\ \A k \in DOMAIN runs :
               /\ runs'[k].job = runs[k].job
               /\ k \notin tick[t].claimed \ {i} => runs'[k].status = runs[k].status
      BY <1>0, <2>1, StatusSet
    <2>3. \A k \in tick[t].claimed : k \in DOMAIN runs /\ runs[k].job = JobAt(t)
                                       /\ runs[k].status = "running"
      BY <2>0 DEF RunsInv, ClaimsHeld
    <2>4. \A r \in rounds : /\ r.run \in DOMAIN runs' /\ runs'[r.run].job = runs[r.run].job
                            /\ runs'[r.run].status = runs[r.run].status
      BY <2>0, <2>2, RunNotClaimed DEF RunsInv, RoundsRun
    <2>5. RoundsRun'
      BY <2>1, <2>2, <2>3, <2>4, RunLaunched DEF LaunchClaimed
    <2>6. ClaimsHeld'
      BY <1>0, <2>1, NoClaimAfter DEF LaunchClaimed, Launch
    <2>7. VerdictKept
      BY <2>2, <2>3 DEF VerdictKept, Terminal
    <2>8. QED  BY <2>5, <2>6, <2>7
  <1>6. CASE RecordSkip(t)
    <2>1. RowsStay
      BY <1>0, <1>6, RowInserted DEF RecordSkip, RowsStay
    <2>2. ClaimsHeld'
      BY <1>0, <1>6, NoClaimAfter DEF RecordSkip
    <2>3. QED  BY <1>6, <2>1, <2>2, RunsStay DEF RecordSkip
  <1>7. CASE StartRun(t)
    <2>0. Insert(JobAt(t), "schedule", "running", tick[t].now)
      BY <1>7 DEF StartRun
    <2>1. /\ DOMAIN runs' = DOMAIN runs \cup {Len(runs) + 1}
          /\ \A i \in DOMAIN runs : runs'[i] = runs[i]
          /\ runs'[Len(runs) + 1].job = JobAt(t) /\ runs'[Len(runs) + 1].status = "running"
      BY <1>0, <2>0, RowInserted
    <2>2. RoundsRun'
      <3>1. Launch(t, Len(runs) + 1)
        BY <1>7 DEF StartRun
      <3>2. \A r \in rounds : r.run \in DOMAIN runs
        BY DEF RunsInv, RoundsRun
      <3>3. QED  BY <2>1, <3>1, <3>2, RunLaunched
    <2>3. ClaimsHeld'
      BY <1>0, <1>7, NoClaimAfter DEF StartRun, Launch
    <2>4. VerdictKept
      BY <2>1 DEF VerdictKept
    <2>5. QED  BY <2>2, <2>3, <2>4
  <1>8. CASE TickThrows(t)
    <2>1. tick'[t].pc = "off"
      BY <1>0, <1>8 DEF TickThrows, TypeOK, TickOff
    <2>2. ClaimsHeld'
      BY <2>1 DEF OneTick, ClaimsHeld
    <2>3. RowsStay
      BY <1>8 DEF TickThrows, tables, RowsStay
    <2>4. QED  BY <1>8, <2>2, <2>3, RunsStay DEF TickThrows
  <1>9. QED  BY <1>1, <1>2, <1>3, <1>4, <1>5, <1>6, <1>7, <1>8 DEF TickStep

\* Every step of a round.
LEMMA RoundRunsStep ==
  ASSUME RunsInv, NEW r \in rounds,
         \/ RoundStep(r) \/ RoundThrows(r)
         \/ \E target \in Targets : BodyFailsOn(r, target)
         \/ \E j \in Jobs : ChainFails(r, j)
  PROVE  RoundsRun' /\ ClaimsHeld' /\ VerdictKept
  <1>0. TypeOK /\ r \in RoundStates
    BY DEF RunsInv, GuardInv, TypeOK
  <1>a. r.run \in DOMAIN runs /\ Stands(r.pc, runs[r.run].status)
    BY DEF RunsInv, RoundsRun
  <1> USE DEF RoundUnchanged
  <1>1. ASSUME RowsStay, UNCHANGED tick, NEW q, rounds' = (rounds \ {r}) \cup {q},
               q.run = r.run, q.job = r.job, Stands(q.pc, runs[r.run].status)
        PROVE  RoundsRun' /\ ClaimsHeld' /\ VerdictKept
    <2>1. Stands(q.pc, runs'[r.run].status)
      BY <1>1, <1>a DEF RowsStay
    <2>2. RoundsRun' /\ ClaimsHeld'
      BY <1>1, <2>1, RunMoves DEF RowsStay
    <2>3. QED  BY <1>1, <2>2, RunsStay
  <1>2. ASSUME NEW st, NEW q, SetStatus({r.run}, st), UNCHANGED tick,
               rounds' = (rounds \ {r}) \cup {q}, q.run = r.run, q.job = r.job, Stands(q.pc, st),
               \/ runs[r.run].status \notin Terminal
               \/ runs[r.run].status = "succeeded" /\ st = "failed" /\ r.pc = "fail"
        PROVE  RoundsRun' /\ ClaimsHeld' /\ VerdictKept
    <2>1. /\ DOMAIN runs' = DOMAIN runs
          /\ \A i \in DOMAIN runs :
               /\ runs'[i].job = runs[i].job /\ runs'[i].at = runs[i].at
               /\ i = r.run => runs'[i].status = st
               /\ i # r.run => runs'[i].status = runs[i].status
      BY <1>0, <1>2, StatusSet
    <2>2. RoundsRun' /\ ClaimsHeld'
      BY <1>2, <1>a, <2>1, RunMoves
    <2>3. VerdictKept
      BY <1>2, <1>a, <2>1 DEF VerdictKept
    <2>4. QED  BY <2>2, <2>3
  <1>3. ASSUME NEW target \in Targets, BodyFailsOn(r, target)
        PROVE  RoundsRun' /\ ClaimsHeld' /\ VerdictKept
    <2>1. RowsStay /\ UNCHANGED <<tick, rounds>>
      BY <1>3 DEF BodyFailsOn, RowsStay
    <2>2. QED  BY <2>1, RunsStay
  <1>4. ASSUME NEW p \in BOOLEAN, BodyReturns(r, p)
        PROVE  RoundsRun' /\ ClaimsHeld' /\ VerdictKept
    <2>1. PICK next \in SUBSET Jobs :
            rounds' = (rounds \ {r}) \cup {[r EXCEPT !.pc = "finish", !.next = next]}
      <3>1. (IF p THEN {j \in Jobs : <<r.job, j>> \in Chains} ELSE {}) \in SUBSET Jobs
        OBVIOUS
      <3>2. QED  BY <1>4, <3>1 DEF BodyReturns
    <2>2. \E q : /\ rounds' = (rounds \ {r}) \cup {q}
                 /\ q.run = r.run /\ q.job = r.job /\ q.pc = "finish"
      <3>1. /\ [r EXCEPT !.pc = "finish", !.next = next].run = r.run
            /\ [r EXCEPT !.pc = "finish", !.next = next].job = r.job
            /\ [r EXCEPT !.pc = "finish", !.next = next].pc = "finish"
        BY <1>0 DEF RoundStates
      <3>2. QED  BY <2>1, <3>1
    <2>3. RowsStay /\ UNCHANGED tick /\ r.pc = "body"
      BY <1>4 DEF BodyReturns, tables, RowsStay
    <2>4. runs[r.run].status = "running"
      BY <1>a, <2>3 DEF Stands
    <2>5. QED  BY <1>1, <2>2, <2>3, <2>4 DEF Stands
  <1>5. ASSUME NEW pc \in {"body", "finish", "resolve", "chain", "fail", "record"}, RoundTo(r, pc)
        PROVE  \E q : /\ rounds' = (rounds \ {r}) \cup {q}
                      /\ q.run = r.run /\ q.job = r.job /\ q.pc = pc
    <2>1. [r EXCEPT !.pc = pc].run = r.run /\ [r EXCEPT !.pc = pc].job = r.job
            /\ [r EXCEPT !.pc = pc].pc = pc
      BY <1>0 DEF RoundStates
    <2>2. QED  BY <1>5, <2>1 DEF RoundTo
  <1>6. ASSUME NEW pc \in {"body", "finish", "resolve", "chain", "fail", "record"}, RoundTo(r, pc),
               UNCHANGED <<runs, tick>>, Stands(pc, runs[r.run].status)
        PROVE  RoundsRun' /\ ClaimsHeld' /\ VerdictKept
    <2>1. RowsStay
      BY <1>6 DEF RowsStay
    <2>2. QED  BY <1>1, <1>5, <1>6, <2>1
  <1>7. CASE BodyThrows(r)
    <2>1. Stands("fail", runs[r.run].status)
      BY <1>7, <1>a DEF BodyThrows, Stands
    <2>2. QED  BY <1>6, <1>7, <2>1 DEF BodyThrows, tables
  <1>8. CASE FinishSucceeded(r)
    <2>1. runs[r.run].status = "running"
      BY <1>8, <1>a DEF FinishSucceeded, Stands
    <2>2. \E q : /\ rounds' = (rounds \ {r}) \cup {q}
                 /\ q.run = r.run /\ q.job = r.job /\ q.pc = "resolve"
      BY <1>5, <1>8 DEF FinishSucceeded
    <2>3. QED  BY <1>2, <1>8, <2>1, <2>2 DEF FinishSucceeded, Stands, Terminal
  <1>9. CASE ResolveStale(r)
    <2>1. Stands("chain", runs[r.run].status)
      BY <1>9, <1>a DEF ResolveStale, Stands
    <2>2. QED  BY <1>6, <1>9, <2>1 DEF ResolveStale
  <1>10. ASSUME NEW j \in Jobs, Chain(r, j) \/ ChainFails(r, j)
         PROVE  RoundsRun' /\ ClaimsHeld' /\ VerdictKept
    <2>1. RowsStay
      <3>1. CASE Chain(r, j)
        BY <1>0, <3>1, RowInserted DEF Chain, RowsStay
      <3>2. CASE ChainFails(r, j)
        BY <3>2 DEF ChainFails, tables, RowsStay
      <3>3. QED  BY <1>10, <3>1, <3>2
    <2>2. /\ [r EXCEPT !.next = r.next \ {j}].run = r.run
          /\ [r EXCEPT !.next = r.next \ {j}].job = r.job
          /\ [r EXCEPT !.next = r.next \ {j}].pc = r.pc
      BY <1>0 DEF RoundStates
    <2>3. \E q : /\ rounds' = (rounds \ {r}) \cup {q}
                 /\ q.run = r.run /\ q.job = r.job /\ q.pc = r.pc
      BY <1>10, <2>2 DEF Chain, ChainFails
    <2>4. UNCHANGED tick
      BY <1>10 DEF Chain, ChainFails
    <2>5. QED  BY <1>1, <1>a, <2>1, <2>3, <2>4
  <1>11. CASE RoundEnds(r)
    BY <1>11, RunLeaves DEF RoundEnds, tables
  <1>12. CASE FinishFailed(r)
    <2>1. runs[r.run].status \in {"running", "succeeded"} /\ r.pc = "fail"
      BY <1>12, <1>a DEF FinishFailed, Stands
    <2>2. \E q : /\ rounds' = (rounds \ {r}) \cup {q}
                 /\ q.run = r.run /\ q.job = r.job /\ q.pc = "record"
      BY <1>5, <1>12 DEF FinishFailed
    <2>3. QED  BY <1>2, <1>12, <2>1, <2>2 DEF FinishFailed, Stands, Terminal
  <1>13. CASE RecordRoundFailure(r)
    BY <1>13, RunLeaves DEF RecordRoundFailure
  <1>14. CASE RoundThrows(r)
    <2>1. CASE r.pc \in {"finish", "resolve"} /\ RoundTo(r, "fail")
      <3>1. Stands("fail", runs[r.run].status)
        BY <1>a, <2>1 DEF Stands
      <3>2. QED  BY <1>6, <1>14, <2>1, <3>1 DEF RoundThrows, tables
    <2>2. CASE LeaveRound(r)
      BY <1>14, <2>2, RunLeaves DEF RoundThrows, tables
    <2>3. QED  BY <1>14, <2>1, <2>2 DEF RoundThrows
  <1>15. QED
    BY <1>3, <1>4, <1>7, <1>8, <1>9, <1>10, <1>11, <1>12, <1>13, <1>14 DEF RoundStep

\* The rows keep in step with the rounds, and no step rewrites a verdict.
LEMMA RunsStep ==
  ASSUME OneTick, RunsInv, [Next]_vars
  PROVE  RunsInv' /\ VerdictKept
  <1>0. TypeOK /\ GuardInv'
    BY GuardStep DEF RunsInv, GuardInv
  <1>1. ASSUME RowsStay, UNCHANGED <<rounds, tick>>
        PROVE  RoundsRun' /\ ClaimsHeld' /\ VerdictKept
    BY <1>1, RunsStay
  <1>2. ASSUME ForgetMemory PROVE RoundsRun' /\ ClaimsHeld' /\ VerdictKept /\ AsleepQuiet'
    <2>1. RowsStay
      BY <1>2 DEF ForgetMemory, tables, RowsStay
    <2>2. ClaimsHeld' /\ AsleepQuiet'
      BY <1>2 DEF ForgetMemory, TickOff, ClaimsHeld, AsleepQuiet
    <2>3. RoundsRun'
      BY <1>2 DEF ForgetMemory, RoundsRun
    <2>4. QED  BY <2>1, <2>2, <2>3, RunsStay
  <1>3. CASE BootBegin \/ BootstrapFails \/ Stop
    <2>1. RowsStay /\ UNCHANGED <<rounds, tick>>
      BY <1>3 DEF BootBegin, BootstrapFails, Stop, tables, RowsStay
    <2>2. AsleepQuiet'
      BY <1>3 DEF BootBegin, BootstrapFails, Stop, RunsInv, AsleepQuiet, Alive
    <2>3. QED  BY <1>0, <1>1, <2>1, <2>2 DEF RunsInv
  <1>4. CASE Bootstrap
    <2>1. rounds = {} /\ \A t \in Ticks : tick[t].pc = "off"
      BY <1>4 DEF Bootstrap, RunsInv, AsleepQuiet, Alive
    <2>2. RoundsRun' /\ ClaimsHeld' /\ AsleepQuiet'
      BY <1>4, <2>1 DEF Bootstrap, RoundsRun, ClaimsHeld, AsleepQuiet
    <2>3. VerdictKept
      <3>1. SetStatus({i \in DOMAIN runs : runs[i].status = "running"}, "interrupted")
        BY <1>4 DEF Bootstrap
      <3>2. \A i \in DOMAIN runs : runs[i].status # "running" => runs'[i].status = runs[i].status
        BY <1>0, <3>1, StatusSet
      <3>3. QED  BY <3>2 DEF VerdictKept, Terminal
    <2>4. QED  BY <1>0, <2>2, <2>3 DEF RunsInv
  <1>5. CASE Crash \/ Exit
    BY <1>0, <1>2, <1>5 DEF Crash, Exit, RunsInv
  <1>6. ASSUME UNCHANGED process, Alive PROVE AsleepQuiet'
    BY <1>6 DEF AsleepQuiet, Alive
  <1>7. ASSUME NEW t \in Ticks, StartTick(t) \/ TickStep(t) \/ TickThrows(t)
        PROVE  RunsInv' /\ VerdictKept
    <2>1. UNCHANGED process /\ Alive
      BY <1>7 DEF StartTick, TickStep, TickThrows, Check, Select, Update, Coalesce, RecordSkip,
                  StartRun, Alive
    <2>2. QED  BY <1>0, <1>6, <1>7, <2>1, TickRunsStep DEF RunsInv
  <1>8. ASSUME NEW r \in rounds,
               \/ RoundStep(r) \/ RoundThrows(r)
               \/ \E target \in Targets : BodyFailsOn(r, target)
               \/ \E j \in Jobs : ChainFails(r, j)
        PROVE  RunsInv' /\ VerdictKept
    <2>1. UNCHANGED process /\ Alive
      BY <1>8 DEF RoundStep, RoundThrows, BodyFailsOn, ChainFails, BodyReturns, BodyThrows,
                  FinishSucceeded, ResolveStale, RoundEnds, Chain, FinishFailed,
                  RecordRoundFailure, RoundUnchanged
    <2>2. QED  BY <1>0, <1>6, <1>8, <2>1, RoundRunsStep DEF RunsInv
  <1>9. ASSUME NEW j \in Jobs, EnqueueManual(j) PROVE RunsInv' /\ VerdictKept
    <2>1. RowsStay
      BY <1>0, <1>9, RowInserted DEF EnqueueManual, RowsStay
    <2>2. UNCHANGED <<rounds, tick>> /\ AsleepQuiet'
      BY <1>9 DEF EnqueueManual, memory, RunsInv, AsleepQuiet, Alive
    <2>3. QED  BY <1>0, <1>1, <2>1, <2>2 DEF RunsInv
  <1>10. CASE Advance \/ UNCHANGED vars
    <2>1. RowsStay /\ UNCHANGED <<rounds, tick>>
      BY <1>10 DEF Advance, vars, tables, memory, RowsStay
    <2>2. AsleepQuiet'
      BY <1>10 DEF Advance, vars, memory, RunsInv, AsleepQuiet, Alive
    <2>3. QED  BY <1>0, <1>1, <2>1, <2>2 DEF RunsInv
  <1>11. QED  BY <1>3, <1>4, <1>5, <1>7, <1>8, <1>9, <1>10 DEF Next

\* No rows, no rounds, no ticks at the start.
LEMMA RunsInit == Init => RunsInv
  BY GuardInit DEF Init, RunsInv, RoundsRun, ClaimsHeld, AsleepQuiet, TickOff

\* The rows keep in step with the rounds in every reachable state when there is one tick.
LEMMA RunsHold == ASSUME OneTick PROVE Spec => []RunsInv
  <1>1. RunsInv /\ [Next]_vars => RunsInv'
    BY RunsStep
  <1>2. QED  BY <1>1, RunsInit, PTL DEF Spec

\* With one tick at a time the verdict of a run is written once, through crashes, restarts
\* and statements that throw; only a success whose round then throws becomes a failure.
THEOREM SingleTickVerdictFinal == ASSUME OneTick PROVE Spec => VerdictFinal
  <1>1. RunsInv /\ [Next]_vars =>
          [\A i \in DOMAIN runs :
             runs[i].status \in Terminal =>
               \/ runs'[i].status = runs[i].status
               \/ /\ runs[i].status = "succeeded" /\ runs'[i].status = "failed"
                  /\ \E r \in rounds : r.run = i /\ r.pc = "fail"]_vars
    BY RunsStep DEF VerdictKept
  <1>2. QED  BY <1>1, RunsHold, PTL DEF Spec, VerdictFinal

\* Writing a failure closes nothing.
LEMMA RecordCloses ==
  ASSUME TypeOK, NEW j, NEW target, RecordFailure(j, target)
  PROVE  \A i \in Items : failures[i].open => failures'[i].open
  <1>1. ASSUME NEW i \in Items, failures[i].open PROVE failures'[i].open
    BY <1>1 DEF TypeOK, RecordFailure
  <1>2. QED  BY <1>1

\* The steps that close failure items.
LEMMA WhoCloses ==
  ASSUME RunsInv, [Next]_vars, NEW i \in Items, failures[i].open, ~failures'[i].open
  PROVE  \E r \in rounds : ResolveStale(r)
  <1>0. TypeOK
    BY DEF RunsInv, GuardInv
  <1> SUFFICES ASSUME \A r \in rounds : ~ResolveStale(r) PROVE FALSE
    OBVIOUS
  <1>1. failures' # failures
    OBVIOUS
  <1>2. CASE BootBegin \/ Bootstrap \/ BootstrapFails \/ Crash \/ Stop \/ Exit
    BY <1>1, <1>2 DEF BootBegin, Bootstrap, BootstrapFails, Crash, Stop, Exit, ForgetMemory, tables
  <1>3. ASSUME NEW t \in Ticks, StartTick(t) \/ TickStep(t) \/ TickThrows(t) PROVE FALSE
    BY <1>1, <1>3 DEF StartTick, TickStep, TickThrows, Check, Select, Update, Coalesce,
                      RecordSkip, StartRun, tables
  <1>4. ASSUME NEW r \in rounds,
               \/ RoundStep(r) \/ RoundThrows(r)
               \/ \E target \in Targets : BodyFailsOn(r, target)
               \/ \E j \in Jobs : ChainFails(r, j)
        PROVE  FALSE
    <2>1. ASSUME NEW target \in Targets, BodyFailsOn(r, target) PROVE FALSE
      BY <1>0, <2>1, RecordCloses DEF BodyFailsOn
    <2>2. CASE RecordRoundFailure(r)
      BY <1>0, <2>2, RecordCloses DEF RecordRoundFailure
    <2>3. QED
      BY <1>1, <1>4, <2>1, <2>2
      DEF RoundStep, RoundThrows, ChainFails, BodyReturns, BodyThrows, FinishSucceeded,
          RoundEnds, Chain, FinishFailed, tables
  <1>5. ASSUME NEW j \in Jobs, EnqueueManual(j) PROVE FALSE
    BY <1>1, <1>5 DEF EnqueueManual
  <1>6. CASE Advance \/ UNCHANGED vars
    BY <1>1, <1>6 DEF Advance, vars, tables
  <1>7. QED  BY <1>2, <1>3, <1>4, <1>5, <1>6 DEF Next

\* With one tick at a time a failure item is closed only by a round of its job that began
\* after the item last failed and whose run has succeeded.
THEOREM SingleTickResolvedBySuccess == ASSUME OneTick PROVE Spec => ResolvedByLaterSuccess
  <1>1. RunsInv /\ [Next]_vars =>
          [\A i \in Items : failures[i].open /\ ~failures'[i].open =>
             \E r \in rounds : /\ r.job = i[1] /\ r.at > failures[i].last
                               /\ runs[r.run].status = "succeeded"]_vars
    <2> SUFFICES ASSUME RunsInv, [Next]_vars, NEW i \in Items, failures[i].open, ~failures'[i].open
                 PROVE  \E r \in rounds : /\ r.job = i[1] /\ r.at > failures[i].last
                                          /\ runs[r.run].status = "succeeded"
      OBVIOUS
    <2>1. PICK r \in rounds : ResolveStale(r)
      BY WhoCloses
    <2>2. TypeOK /\ r \in RoundStates
      BY DEF RunsInv, GuardInv, TypeOK
    <2>3. r.job = i[1] /\ failures[i].last < r.at
      BY <2>1 DEF ResolveStale
    <2>4. r.at \in Int /\ failures[i].last \in Int
      BY <2>2 DEF RoundStates, TypeOK, Times
    <2>5. runs[r.run].status = "succeeded"
      BY <2>1 DEF ResolveStale, RunsInv, RoundsRun, Stands
    <2>6. QED  BY <2>3, <2>4, <2>5
  <1>2. QED  BY <1>1, RunsHold, PTL DEF Spec, ResolvedByLaterSuccess

-----------------------------------------------------------------------------
(***************************************************************************)
(* Slots.  The slots a job has been triggered in only grow: what is in     *)
(* the table lies behind lastSlot, what a tick is about to write is        *)
(* lastSlot itself, and a restart begins with the present slot.            *)
(***************************************************************************)

\* A later instant lies in no earlier slot.
LEMMA SlotMonotone ==
  ASSUME NEW j \in Jobs, NEW a \in Times, NEW b \in Times, a <= b
  PROVE  SlotOf(j, a) <= SlotOf(j, b)
  <1>1. Period[j] \in Nat /\ Period[j] > 0
    BY JobAssumption
  <1>2. a \in Nat /\ b \in Nat
    BY JobAssumption DEF Times
  <1>3. ASSUME NEW p \in Nat, p > 0 PROVE a \div p <= b \div p
    <2> DEFINE q == a \div p
               s == b \div p
    <2>1. q \in Int /\ s \in Int /\ p * q <= a /\ b < p * s + p
      BY <1>2, <1>3
    <2> HIDE DEF q, s
    <2>2. SUFFICES ASSUME s < q PROVE FALSE
      BY <2>1 DEF q, s
    <2>3. s + 1 <= q
      BY <2>1, <2>2
    <2>4. p * (s + 1) <= p * q
      BY <1>3, <2>1, <2>3
    <2>5. p * (s + 1) = p * s + p
      BY <1>3, <2>1
    <2>6. p * s \in Int /\ p * q \in Int
      BY <1>3, <2>1
    <2>7. QED  BY <1>2, <1>3, <2>1, <2>4, <2>5, <2>6
  <1>4. QED  BY <1>1, <1>3 DEF SlotOf

Scheduled == {i \in DOMAIN runs : runs[i].trigger = "schedule"}
RowSlot(i) == SlotOf(runs[i].job, runs[i].at)
Writing(t) == tick[t].pc \in {"start", "skip"}

\* Rows of the schedule are never queued, and no instant the process knows of is in the future.
RowsInTime ==
  /\ \A i \in Scheduled : runs[i].status # "queued" /\ runs[i].at <= clock
  /\ bootAt <= clock
  /\ process = "booting" => \A i \in Scheduled : runs[i].at <= bootAt

\* lastSlot is never ahead of the clock, nor of a tick that is still at work.
TicksInTime ==
  Alive => /\ \A j \in Jobs : lastSlot[j] <= SlotOf(j, clock)
           /\ \A t \in Ticks : tick[t].pc # "off" =>
                /\ tick[t].now <= clock
                /\ \A j \in Jobs : lastSlot[j] <= SlotOf(j, tick[t].now)
                /\ Writing(t) => lastSlot[JobAt(t)] = SlotOf(JobAt(t), tick[t].now)

\* The rows of the schedule lie in slots up to the last one, and before it while the row of
\* the last one is still to be written.
SlotsInOrder ==
  Alive => \A i \in Scheduled :
             /\ RowSlot(i) <= lastSlot[runs[i].job]
             /\ \A t \in Ticks : Writing(t) /\ JobAt(t) = runs[i].job
                                   => RowSlot(i) < lastSlot[runs[i].job]

SlotsInv == RowsInTime /\ TicksInTime /\ SlotsInOrder /\ OneScheduledRowPerSlot

\* No row of the schedule is added, moved in time or queued again.
ScheduleStays ==
  \A i \in Scheduled' : /\ i \in Scheduled
                        /\ runs'[i].job = runs[i].job /\ runs'[i].at = runs[i].at
                        /\ runs'[i].status # "queued"

\* The types the numbers of this section have.
LEMMA SlotTypes ==
  ASSUME TypeOK
  PROVE  /\ clock \in Int /\ bootAt \in Int /\ bootAt \in Times /\ clock \in Times
         /\ \A j \in Jobs : lastSlot[j] \in Int /\ SlotOf(j, clock) \in Int /\ SlotOf(j, bootAt) \in Int
         /\ \A i \in DOMAIN runs : /\ runs[i].job \in Jobs /\ runs[i].at \in Times
                                   /\ runs[i].at \in Int /\ RowSlot(i) \in Int
         /\ \A t \in Ticks : /\ tick[t].now \in Times /\ tick[t].now \in Int
                             /\ \A j \in Jobs : SlotOf(j, tick[t].now) \in Int
  <1>1. \A n \in Times : n \in Int
    BY JobAssumption DEF Times
  <1>2. clock \in Times /\ bootAt \in Times
    BY DEF TypeOK
  <1>3. \A i \in DOMAIN runs : runs[i].job \in Jobs /\ runs[i].at \in Times
    <2>1. \A i \in DOMAIN runs : runs[i] \in RunRows
      BY DEF TypeOK
    <2>2. QED  BY <2>1 DEF RunRows
  <1>4. \A t \in Ticks : tick[t].now \in Times
    BY TickFields
  <1>5. \A j \in Jobs : \A n \in Times : SlotOf(j, n) \in Int
    BY SlotNat
  <1>6. \A j \in Jobs : lastSlot[j] \in Int
    BY DEF TypeOK
  <1>7. \A i \in DOMAIN runs : RowSlot(i) \in Int
    BY <1>3, <1>5 DEF RowSlot
  <1>8. QED  BY <1>1, <1>2, <1>3, <1>4, <1>5, <1>6, <1>7

\* Steps that leave the rows of the schedule alone.
LEMMA ScheduleQuiet ==
  ASSUME TypeOK, TypeOK', SlotsInv, ScheduleStays, clock <= clock'
  PROVE  /\ OneScheduledRowPerSlot'
         /\ \A i \in Scheduled' : /\ runs'[i].status # "queued" /\ runs'[i].at <= clock'
                                  /\ RowSlot(i)' = RowSlot(i)
                                  /\ process = "booting" => runs'[i].at <= bootAt
  <1>1. \A i \in Scheduled' : RowSlot(i)' = RowSlot(i)
    BY DEF ScheduleStays, RowSlot
  <1>2. OneScheduledRowPerSlot'
    <2> SUFFICES ASSUME NEW i \in DOMAIN runs', NEW k \in DOMAIN runs',
                        runs'[i].job = runs'[k].job,
                        runs'[i].trigger = "schedule", runs'[k].trigger = "schedule",
                        SlotOf(runs'[i].job, runs'[i].at) = SlotOf(runs'[k].job, runs'[k].at)
                 PROVE  i = k
      BY DEF OneScheduledRowPerSlot
    <2>1. i \in Scheduled' /\ k \in Scheduled'
      BY DEF Scheduled
    <2>2. /\ i \in Scheduled /\ k \in Scheduled
          /\ runs'[i].job = runs[i].job /\ runs'[i].at = runs[i].at
          /\ runs'[k].job = runs[k].job /\ runs'[k].at = runs[k].at
      BY <2>1 DEF ScheduleStays
    <2>3. SlotOf(runs[i].job, runs[i].at) = SlotOf(runs[k].job, runs[k].at)
      BY <2>2
    <2>4. QED  BY <2>2, <2>3 DEF SlotsInv, OneScheduledRowPerSlot, Scheduled
  <1>3. \A i \in Scheduled' : runs'[i].status # "queued" /\ runs'[i].at <= clock'
    <2> SUFFICES ASSUME NEW i \in Scheduled' PROVE runs'[i].status # "queued" /\ runs'[i].at <= clock'
      OBVIOUS
    <2>1. i \in Scheduled /\ runs'[i].at = runs[i].at /\ runs'[i].status # "queued"
      BY DEF ScheduleStays
    <2>2. runs[i].at <= clock /\ runs[i].at \in Int /\ clock \in Int
      BY <2>1, SlotTypes DEF SlotsInv, RowsInTime, Scheduled
    <2>3. clock' \in Int
      BY JobAssumption DEF TypeOK, Times
    <2>4. QED  BY <2>1, <2>2, <2>3
  <1>4. ASSUME NEW i \in Scheduled', process = "booting" PROVE runs'[i].at <= bootAt
    BY <1>4 DEF ScheduleStays, SlotsInv, RowsInTime
  <1>5. QED  BY <1>1, <1>2, <1>3, <1>4

\* The slots known stay in order where lastSlot only grows, and grows for a job whose row a
\* tick turns to writing.
LEMMA OrderKept ==
  ASSUME TypeOK, TypeOK', SlotsInv, ScheduleStays, Alive, clock <= clock',
         \A j \in Jobs : lastSlot[j] <= lastSlot'[j],
         \A t \in Ticks : Writing(t)' => \/ lastSlot[JobAt(t)'] < lastSlot'[JobAt(t)']
                                         \/ Writing(t) /\ JobAt(t)' = JobAt(t)
  PROVE  SlotsInOrder'
  <1> SUFFICES ASSUME NEW i \in Scheduled'
               PROVE  /\ RowSlot(i)' <= lastSlot'[runs'[i].job]
                      /\ \A t \in Ticks : Writing(t)' /\ JobAt(t)' = runs'[i].job
                                            => RowSlot(i)' < lastSlot'[runs'[i].job]
    BY DEF SlotsInOrder
  <1>1. i \in Scheduled /\ runs'[i].job = runs[i].job /\ RowSlot(i)' = RowSlot(i)
    BY ScheduleQuiet DEF ScheduleStays
  <1>2. /\ RowSlot(i) <= lastSlot[runs[i].job]
        /\ \A t \in Ticks : Writing(t) /\ JobAt(t) = runs[i].job => RowSlot(i) < lastSlot[runs[i].job]
    BY <1>1 DEF SlotsInv, SlotsInOrder
  <1>3. runs[i].job \in Jobs /\ RowSlot(i) \in Int /\ lastSlot[runs[i].job] \in Int
    BY <1>1, SlotTypes DEF Scheduled
  <1>4. lastSlot'[runs[i].job] \in Int
    BY <1>3 DEF TypeOK
  <1>5. RowSlot(i) <= lastSlot'[runs[i].job]
    BY <1>2, <1>3, <1>4
  <1>6. ASSUME NEW t \in Ticks, Writing(t)', JobAt(t)' = runs[i].job
        PROVE  RowSlot(i) < lastSlot'[runs[i].job]
    <2>1. CASE lastSlot[runs[i].job] < lastSlot'[runs[i].job]
      BY <1>2, <1>3, <1>4, <2>1
    <2>2. CASE Writing(t) /\ JobAt(t)' = JobAt(t)
      <3>1. RowSlot(i) < lastSlot[runs[i].job]
        BY <1>2, <1>6, <2>2
      <3>2. QED  BY <1>3, <1>4, <3>1
    <2>3. QED  BY <1>6, <2>1, <2>2
  <1>7. QED  BY <1>1, <1>5, <1>6

\* The slot of a tick's job is taken note of as the last one.
SlotTaken(t) == lastSlot' = [lastSlot EXCEPT ![JobAt(t)] = SlotOf(JobAt(t), tick[t].now)]

\* lastSlot only grows, and has grown for the job whose row a tick turns to writing.
SlotsGrow ==
  /\ \A j \in Jobs : lastSlot[j] <= lastSlot'[j]
  /\ \A t \in Ticks : Writing(t)' => lastSlot[JobAt(t)'] < lastSlot'[JobAt(t)']

\* A tick that goes on, having taken note of a slot or not.
LEMMA TickGoesOn ==
  ASSUME TypeOK, TypeOK', OneTick, SlotsInv, Alive, NEW t \in Ticks, tick[t].pc # "off",
         UNCHANGED <<clock, process>>,
         tick'[t].pc # "off" => tick'[t].now = tick[t].now,
         lastSlot' = lastSlot \/ SlotTaken(t),
         Writing(t)' => /\ SlotTaken(t) /\ tick'[t].k = tick[t].k
                        /\ lastSlot[JobAt(t)] # SlotOf(JobAt(t), tick[t].now)
  PROVE  TicksInTime' /\ SlotsGrow
  <1> DEFINE j0 == JobAt(t)
             s == SlotOf(j0, tick[t].now)
  <1>1. j0 \in Jobs
    BY TickFields
  <1>2. s \in Int /\ \A j \in Jobs : lastSlot[j] \in Int /\ SlotOf(j, clock) \in Int
                                       /\ SlotOf(j, tick[t].now) \in Int
    BY <1>1, SlotTypes
  <1>3. /\ tick[t].now <= clock
        /\ \A j \in Jobs : lastSlot[j] <= SlotOf(j, tick[t].now) /\ lastSlot[j] <= SlotOf(j, clock)
    BY DEF SlotsInv, TicksInTime
  <1>4. s <= SlotOf(j0, clock)
    BY <1>1, <1>3, SlotMonotone, SlotTypes
  <1>5. SlotTaken(t) => /\ lastSlot'[j0] = s
                        /\ \A j \in Jobs : j # j0 => lastSlot'[j] = lastSlot[j]
    BY <1>1 DEF SlotTaken, TypeOK
  <1> HIDE DEF s, j0
  <1>6. ASSUME NEW j \in Jobs
        PROVE  /\ lastSlot[j] <= lastSlot'[j] /\ lastSlot'[j] <= SlotOf(j, clock)
               /\ lastSlot'[j] <= SlotOf(j, tick[t].now)
    <2>1. CASE lastSlot' = lastSlot
      BY <1>2, <1>3, <2>1
    <2>2. CASE SlotTaken(t) /\ j # j0
      BY <1>2, <1>3, <1>5, <2>2
    <2>3. CASE SlotTaken(t) /\ j = j0
      <3>1. lastSlot'[j] = s /\ SlotOf(j, tick[t].now) = s
        BY <1>5, <2>3 DEF s
      <3>2. lastSlot[j] <= s
        BY <1>3, <3>1
      <3>3. s <= SlotOf(j, clock)
        BY <1>4, <2>3
      <3>4. QED  BY <1>2, <3>1, <3>2, <3>3
    <2>4. QED  BY <2>1, <2>2, <2>3
  <1>7. Writing(t)' => /\ JobAt(t)' = j0 /\ lastSlot'[j0] = s
                       /\ lastSlot[j0] < lastSlot'[j0]
    <2> SUFFICES ASSUME Writing(t)'
                 PROVE  /\ JobAt(t)' = j0 /\ lastSlot'[j0] = s /\ lastSlot[j0] < lastSlot'[j0]
      OBVIOUS
    <2>1. JobAt(t)' = j0
      BY DEF JobAt, j0
    <2>2. lastSlot'[j0] = s /\ lastSlot[j0] # s
      BY <1>5 DEF s, j0
    <2>3. lastSlot[j0] <= s
      BY <1>1, <1>3 DEF s
    <2>4. QED  BY <1>1, <1>2, <2>1, <2>2, <2>3
  <1>8. Writing(t)' => tick'[t].pc # "off"
    BY DEF Writing
  <1>9. TicksInTime'
    <2>1. \A j \in Jobs : lastSlot'[j] <= SlotOf(j, clock')
      BY <1>6
    <2>2. ASSUME tick'[t].pc # "off"
          PROVE  /\ tick'[t].now <= clock'
                 /\ \A j \in Jobs : lastSlot'[j] <= SlotOf(j, tick'[t].now)
                 /\ Writing(t)' => lastSlot'[JobAt(t)'] = SlotOf(JobAt(t)', tick'[t].now)
      BY <1>3, <1>6, <1>7, <2>2 DEF s
    <2>3. \A u \in Ticks : u = t
      BY DEF OneTick
    <2>4. QED  BY <2>1, <2>2, <2>3 DEF TicksInTime
  <1>10. SlotsGrow
    BY <1>6, <1>7 DEF SlotsGrow, OneTick
  <1>11. QED  BY <1>9, <1>10

\* Going on to the next entry.
LEMMA NextEntryFields ==
  ASSUME TypeOK, NEW t \in Ticks, NextEntry(t)
  PROVE  ~Writing(t)' /\ (tick'[t].pc # "off" => tick'[t].now = tick[t].now)
  <1>1. \/ tick'[t] = TickOff
        \/ tick'[t] = [TickOff EXCEPT !.pc = "check", !.k = tick[t].k + 1, !.now = tick[t].now]
    BY DEF TypeOK, NextEntry
  <1>2. TickOff.pc = "off"
    BY DEF TickOff
  <1>3. /\ [TickOff EXCEPT !.pc = "check", !.k = tick[t].k + 1, !.now = tick[t].now].pc = "check"
        /\ [TickOff EXCEPT !.pc = "check", !.k = tick[t].k + 1, !.now = tick[t].now].now
              = tick[t].now
    BY DEF TickOff
  <1>4. QED  BY <1>1, <1>2, <1>3 DEF Writing

\* Going to another await.
LEMMA GoToFields ==
  ASSUME TypeOK, NEW t \in Ticks, NEW pc, GoTo(t, pc)
  PROVE  tick'[t].pc = pc /\ tick'[t].now = tick[t].now /\ tick'[t].k = tick[t].k
  <1>1. tick[t] \in TickStates
    BY TickFields
  <1>2. QED  BY <1>1 DEF TypeOK, GoTo, TickStates

\* The judgement whether a slot is due.
LEMMA DueFields ==
  ASSUME TypeOK, NEW t \in Ticks, Due(t)
  PROVE  /\ tick'[t].pc # "off" => tick'[t].now = tick[t].now
         /\ lastSlot' = lastSlot \/ SlotTaken(t)
         /\ Writing(t)' => /\ SlotTaken(t) /\ tick'[t].k = tick[t].k
                           /\ lastSlot[JobAt(t)] # SlotOf(JobAt(t), tick[t].now)
  <1>1. CASE lastSlot[JobAt(t)] = SlotOf(JobAt(t), tick[t].now)
    <2>1. NextEntry(t) /\ lastSlot' = lastSlot
      BY <1>1 DEF Due
    <2>2. QED  BY <2>1, NextEntryFields
  <1>2. CASE lastSlot[JobAt(t)] # SlotOf(JobAt(t), tick[t].now)
    <2>1. SlotTaken(t) /\ GoTo(t, IF JobAt(t) \in running THEN "skip" ELSE "start")
      BY <1>2 DEF Due, SlotTaken
    <2>2. tick'[t].now = tick[t].now /\ tick'[t].k = tick[t].k
      BY <2>1, GoToFields
    <2>3. QED  BY <1>2, <2>1, <2>2
  <1>3. QED  BY <1>1, <1>2

\* The row a tick writes for a slot that came due is the first of that slot.
LEMMA ScheduledRowInserted ==
  ASSUME TypeOK, TypeOK', OneTick, SlotsInv, Alive, NEW t \in Ticks, Writing(t), NextEntry(t),
         NEW st, st # "queued", Insert(JobAt(t), "schedule", st, tick[t].now),
         UNCHANGED <<clock, process, bootAt, lastSlot>>
  PROVE  SlotsInv'
  <1> DEFINE j0 == JobAt(t)
  <1>1. PICK n :
        /\ DOMAIN runs' = DOMAIN runs \cup {n} /\ n \notin DOMAIN runs
        /\ \A i \in DOMAIN runs : runs'[i] = runs[i]
        /\ runs'[n].job = j0 /\ runs'[n].trigger = "schedule"
        /\ runs'[n].status = st /\ runs'[n].at = tick[t].now
    BY RowInserted
  <1>2. /\ tick[t].now <= clock
        /\ lastSlot[j0] = SlotOf(j0, tick[t].now)
    BY DEF SlotsInv, TicksInTime, Writing
  <1>3. \A i \in Scheduled : /\ RowSlot(i) <= lastSlot[runs[i].job]
                             /\ runs[i].job = j0 => RowSlot(i) < lastSlot[j0]
    BY DEF SlotsInv, SlotsInOrder
  <1>4. j0 \in Jobs /\ lastSlot[j0] \in Int /\ \A i \in Scheduled : RowSlot(i) \in Int
    BY SlotTypes, TickFields DEF Scheduled
  <1> HIDE DEF j0
  <1>5. Scheduled' = Scheduled \cup {n}
    BY <1>1 DEF Scheduled
  <1>6. /\ RowSlot(n)' = lastSlot[j0]
        /\ \A i \in Scheduled : RowSlot(i)' = RowSlot(i) /\ runs'[i] = runs[i]
    BY <1>1, <1>2 DEF RowSlot, Scheduled
  <1>7. ~Writing(t)' /\ (tick'[t].pc # "off" => tick'[t].now = tick[t].now)
    BY NextEntryFields
  <1>8. TicksInTime'
    BY <1>7, TickGoesOn DEF Writing
  <1>9. RowsInTime'
    <2>1. process # "booting"
      BY DEF Alive
    <2>2. \A i \in Scheduled' : runs'[i].status # "queued" /\ runs'[i].at <= clock
      BY <1>1, <1>2, <1>5, <1>6 DEF SlotsInv, RowsInTime
    <2>3. QED  BY <2>1, <2>2 DEF SlotsInv, RowsInTime
  <1>10. SlotsInOrder'
    <2>1. \A u \in Ticks : ~Writing(u)'
      BY <1>7 DEF OneTick
    <2>2. \A i \in Scheduled' : RowSlot(i)' <= lastSlot[runs'[i].job]
      BY <1>1, <1>3, <1>4, <1>5, <1>6
    <2>3. QED  BY <2>1, <2>2 DEF SlotsInOrder
  <1>11. OneScheduledRowPerSlot'
    <2> SUFFICES ASSUME NEW i \in Scheduled', NEW k \in Scheduled',
                        runs'[i].job = runs'[k].job, RowSlot(i)' = RowSlot(k)'
                 PROVE  i = k
      BY DEF OneScheduledRowPerSlot, Scheduled, RowSlot
    <2>1. CASE i \in Scheduled /\ k \in Scheduled
      <3>1. runs[i].job = runs[k].job /\ RowSlot(i) = RowSlot(k)
        BY <1>6, <2>1
      <3>2. QED  BY <2>1, <3>1 DEF SlotsInv, OneScheduledRowPerSlot, Scheduled, RowSlot
    <2>2. CASE i = n /\ k \in Scheduled
      BY <1>1, <1>3, <1>4, <1>6, <2>2
    <2>3. CASE i \in Scheduled /\ k = n
      BY <1>1, <1>3, <1>4, <1>6, <2>3
    <2>4. QED  BY <1>5, <2>1, <2>2, <2>3
  <1>12. QED  BY <1>8, <1>9, <1>10, <1>11 DEF SlotsInv

\* Rewriting statuses, other than to "queued", moves no row of the schedule.
LEMMA ScheduleSet ==
  ASSUME TypeOK, NEW ids, NEW st, st # "queued", SlotsInv, SetStatus(ids, st)
  PROVE  ScheduleStays
  BY StatusSet DEF ScheduleStays, Scheduled, SlotsInv, RowsInTime

\* A row that is not the schedule's moves no row of the schedule.
LEMMA ScheduleInsert ==
  ASSUME TypeOK, SlotsInv, NEW j, NEW trigger, trigger # "schedule", NEW st, NEW at,
         Insert(j, trigger, st, at)
  PROVE  ScheduleStays
  BY RowInserted DEF ScheduleStays, Scheduled, SlotsInv, RowsInTime

\* Rows that are not touched.
LEMMA ScheduleSame ==
  ASSUME SlotsInv, UNCHANGED runs
  PROVE  ScheduleStays
  BY DEF ScheduleStays, Scheduled, SlotsInv, RowsInTime

\* The rows of the schedule stay in time.
LEMMA RowsStayInTime ==
  ASSUME TypeOK, TypeOK', SlotsInv, ScheduleStays, clock <= clock', UNCHANGED bootAt,
         process' = "booting" => process = "booting"
  PROVE  RowsInTime'
  <1>1. bootAt <= clock /\ bootAt \in Int /\ clock \in Int /\ clock' \in Int
    BY SlotTypes, JobAssumption DEF SlotsInv, RowsInTime, TypeOK, Times
  <1>2. bootAt' <= clock'
    BY <1>1
  <1>3. \A i \in Scheduled' : /\ runs'[i].status # "queued" /\ runs'[i].at <= clock'
                              /\ process = "booting" => runs'[i].at <= bootAt
    BY ScheduleQuiet
  <1>4. QED  BY <1>2, <1>3 DEF RowsInTime

\* Steps that leave the rows of the schedule, the ticks and lastSlot as they are.
LEMMA SlotsStay ==
  ASSUME TypeOK, TypeOK', SlotsInv, ScheduleStays, clock <= clock',
         UNCHANGED <<bootAt, lastSlot, tick>>,
         Alive' => Alive, process' = "booting" => process = "booting"
  PROVE  SlotsInv'
  <1>1. RowsInTime'
    BY RowsStayInTime
  <1>2. clock \in Times /\ clock' \in Times /\ clock \in Int /\ clock' \in Int
    BY JobAssumption DEF TypeOK, Times
  <1>3. \A j \in Jobs : SlotOf(j, clock) <= SlotOf(j, clock') /\ lastSlot[j] \in Int
                          /\ SlotOf(j, clock) \in Int /\ SlotOf(j, clock') \in Int
    BY <1>2, SlotMonotone, SlotTypes, SlotNat
  <1>4. ASSUME Alive' PROVE TicksInTime' /\ SlotsInOrder'
    <2>1. /\ \A j \in Jobs : lastSlot[j] <= SlotOf(j, clock)
          /\ \A t \in Ticks : tick[t].pc # "off" =>
               /\ tick[t].now <= clock
               /\ \A j \in Jobs : lastSlot[j] <= SlotOf(j, tick[t].now)
               /\ Writing(t) => lastSlot[JobAt(t)] = SlotOf(JobAt(t), tick[t].now)
      BY <1>4 DEF SlotsInv, TicksInTime
    <2>2. \A j \in Jobs : lastSlot'[j] <= SlotOf(j, clock')
      BY <1>3, <2>1
    <2>3. \A t \in Ticks : tick[t].pc # "off" => tick[t].now <= clock'
      BY <1>2, <2>1, SlotTypes
    <2>4. TicksInTime'
      BY <2>1, <2>2, <2>3 DEF TicksInTime, Writing, JobAt
    <2>5. \A t \in Ticks : Writing(t)' => Writing(t) /\ JobAt(t)' = JobAt(t)
      BY DEF Writing, JobAt
    <2>6. \A j \in Jobs : lastSlot[j] <= lastSlot'[j]
      BY <1>3
    <2>7. SlotsInOrder'
      BY <1>4, <2>5, <2>6, OrderKept
    <2>8. QED  BY <2>4, <2>7
  <1>5. TicksInTime' /\ SlotsInOrder'
    BY <1>4 DEF TicksInTime, SlotsInOrder
  <1>6. QED  BY <1>1, <1>5, ScheduleQuiet DEF SlotsInv

\* A tick that goes on keeps the slots in order, when the rows of the schedule stay.
LEMMA SlotsGoOn ==
  ASSUME TypeOK, TypeOK', OneTick, SlotsInv, ScheduleStays, Alive, NEW t \in Ticks,
         tick[t].pc # "off", UNCHANGED <<clock, process, bootAt>>,
         tick'[t].pc # "off" => tick'[t].now = tick[t].now,
         lastSlot' = lastSlot \/ SlotTaken(t),
         Writing(t)' => /\ SlotTaken(t) /\ tick'[t].k = tick[t].k
                        /\ lastSlot[JobAt(t)] # SlotOf(JobAt(t), tick[t].now)
  PROVE  SlotsInv'
  <1>1. TicksInTime' /\ SlotsGrow
    BY TickGoesOn
  <1>2. clock <= clock'
    BY SlotTypes
  <1>3. RowsInTime'
    BY <1>2, RowsStayInTime
  <1>4. SlotsInOrder'
    BY <1>1, <1>2, OrderKept DEF SlotsGrow
  <1>5. QED  BY <1>1, <1>2, <1>3, <1>4, ScheduleQuiet DEF SlotsInv

\* The tick begins with the present instant.
LEMMA StartSlotsStep ==
  ASSUME TypeOK, TypeOK', OneTick, SlotsInv, NEW t \in Ticks, StartTick(t)
  PROVE  SlotsInv'
  <1>1. /\ Alive /\ UNCHANGED <<clock, tables, process, bootAt, lastSlot>>
        /\ tick'[t].pc = "check" /\ tick'[t].now = clock
    BY DEF StartTick, Alive, TypeOK, TickOff
  <1>2. clock <= clock /\ clock \in Int
    BY SlotTypes
  <1>3. ScheduleStays
    BY <1>1, ScheduleSame DEF tables
  <1>4. RowsInTime'
    BY <1>1, <1>2, <1>3, RowsStayInTime
  <1>5. \A u \in Ticks : u = t
    BY DEF OneTick
  <1>6. \A u \in Ticks : ~Writing(u)'
    BY <1>1, <1>5 DEF Writing
  <1>7. \A j \in Jobs : lastSlot[j] <= SlotOf(j, clock)
    BY <1>1 DEF SlotsInv, TicksInTime
  <1>8. TicksInTime'
    BY <1>1, <1>2, <1>5, <1>6, <1>7 DEF TicksInTime
  <1>9. \A j \in Jobs : lastSlot[j] <= lastSlot'[j]
    BY <1>1, SlotTypes
  <1>10. SlotsInOrder'
    BY <1>1, <1>2, <1>3, <1>6, <1>9, OrderKept
  <1>11. QED  BY <1>1, <1>2, <1>3, <1>4, <1>8, <1>10, ScheduleQuiet DEF SlotsInv

\* Every step of the tick.
LEMMA TickSlotsStep ==
  ASSUME TypeOK, TypeOK', OneTick, SlotsInv, NEW t \in Ticks,
         StartTick(t) \/ TickStep(t) \/ TickThrows(t)
  PROVE  SlotsInv'
  <1>0. lastSlot' = lastSlot => lastSlot' = lastSlot \/ SlotTaken(t)
    OBVIOUS
  <1>1. CASE StartTick(t)
    BY <1>1, StartSlotsStep
  <1>2. ASSUME Alive, tick[t].pc # "off", UNCHANGED <<clock, process, bootAt>>, ScheduleStays,
               \/ Due(t)
               \/ \E pc : pc \notin {"start", "skip"} /\ GoTo(t, pc) /\ UNCHANGED lastSlot
               \/ NextEntry(t) /\ (UNCHANGED lastSlot \/ SlotTaken(t))
        PROVE  SlotsInv'
    <2>1. CASE Due(t)
      BY <1>2, <2>1, DueFields, SlotsGoOn
    <2>2. ASSUME NEW pc, pc \notin {"start", "skip"}, GoTo(t, pc), UNCHANGED lastSlot
          PROVE  SlotsInv'
      <3>1. ~Writing(t)' /\ tick'[t].now = tick[t].now
        BY <2>2, GoToFields DEF Writing
      <3>2. QED  BY <1>2, <2>2, <3>1, SlotsGoOn
    <2>3. CASE NextEntry(t) /\ (UNCHANGED lastSlot \/ SlotTaken(t))
      <3>1. ~Writing(t)' /\ (tick'[t].pc # "off" => tick'[t].now = tick[t].now)
        BY <2>3, NextEntryFields
      <3>2. QED  BY <1>2, <2>3, <3>1, SlotsGoOn
    <2>4. QED  BY <1>2, <2>1, <2>2, <2>3
  <1>3. CASE Check(t)
    <2>1. Alive /\ tick[t].pc # "off" /\ UNCHANGED <<clock, process, bootAt, runs>>
      BY <1>3 DEF Check, tables
    <2>2. Due(t) \/ (GoTo(t, "select") /\ UNCHANGED lastSlot)
      <3>1. CASE JobAt(t) \in running
        BY <1>3, <3>1 DEF Check
      <3>2. CASE JobAt(t) \notin running
        BY <1>3, <3>2 DEF Check
      <3>3. QED  BY <3>1, <3>2
    <2>3. ScheduleStays
      BY <2>1, ScheduleSame
    <2>4. CASE Due(t)
      BY <1>2, <2>1, <2>3, <2>4
    <2>5. CASE GoTo(t, "select") /\ UNCHANGED lastSlot
      <3>1. "select" \notin {"start", "skip"}
        OBVIOUS
      <3>2. QED  BY <1>2, <2>1, <2>3, <2>5, <3>1
    <2>6. QED  BY <2>2, <2>4, <2>5
  <1>4. CASE Select(t)
    <2>1. Alive /\ tick[t].pc # "off" /\ UNCHANGED <<clock, process, bootAt, runs>>
      BY <1>4 DEF Select, tables
    <2>2. CASE QueuedRuns(JobAt(t)) = {}
      <3>1. Due(t)
        BY <1>4, <2>2 DEF Select
      <3>2. QED  BY <1>2, <2>1, <3>1, ScheduleSame
    <2>3. CASE QueuedRuns(JobAt(t)) # {}
      <3>1. /\ tick' = [tick EXCEPT ![t] = [tick[t] EXCEPT !.pc = "update",
                                                        !.claimed = QueuedRuns(JobAt(t))]]
            /\ lastSlot' = lastSlot
        BY <1>4, <2>3 DEF Select, TypeOK
      <3>2. tick[t] \in TickStates
        BY TickFields
      <3>3. tick'[t].pc = "update" /\ tick'[t].now = tick[t].now
        BY <3>1, <3>2 DEF TypeOK, TickStates
      <3>4. ~Writing(t)'
        BY <3>3 DEF Writing
      <3>5. QED  BY <2>1, <3>1, <3>3, <3>4, SlotsGoOn, ScheduleSame
    <2>4. QED  BY <2>2, <2>3
  <1>5. CASE Update(t)
    <2>1. Alive /\ tick[t].pc # "off" /\ UNCHANGED <<clock, process, bootAt>>
      BY <1>5 DEF Update
    <2>2. ScheduleStays
      BY <1>5, RowsClaimed DEF ScheduleStays, Scheduled, SlotsInv, RowsInTime
    <2>3. \/ GoTo(t, "coalesce") /\ UNCHANGED lastSlot
          \/ NextEntry(t) /\ SlotTaken(t)
      BY <1>5 DEF Update, LaunchClaimed, Launch, SlotTaken
    <2>4. QED  BY <1>2, <2>1, <2>2, <2>3
  <1>6. CASE Coalesce(t)
    <2>1. Alive /\ tick[t].pc # "off" /\ UNCHANGED <<clock, process, bootAt>>
      BY <1>6 DEF Coalesce
    <2>2. PICK i \in tick[t].claimed :
            SetStatus(tick[t].claimed \ {i}, "skipped") /\ LaunchClaimed(t, i)
      BY <1>6 DEF Coalesce
    <2>3. ScheduleStays
      BY <2>2, ScheduleSet
    <2>4. NextEntry(t) /\ SlotTaken(t)
      BY <2>2 DEF LaunchClaimed, Launch, SlotTaken
    <2>5. QED  BY <1>2, <2>1, <2>3, <2>4
  <1>7. CASE RecordSkip(t)
    <2>1. /\ Alive /\ Writing(t) /\ NextEntry(t) /\ UNCHANGED <<clock, process, bootAt, lastSlot>>
          /\ Insert(JobAt(t), "schedule", "skipped", tick[t].now)
      BY <1>7 DEF RecordSkip, Writing
    <2>2. QED  BY <2>1, ScheduledRowInserted
  <1>8. CASE StartRun(t)
    <2>1. /\ Alive /\ Writing(t) /\ NextEntry(t) /\ UNCHANGED <<clock, process, bootAt, lastSlot>>
          /\ Insert(JobAt(t), "schedule", "running", tick[t].now)
      BY <1>8 DEF StartRun, Launch, Writing
    <2>2. QED  BY <2>1, ScheduledRowInserted
  <1>9. CASE TickThrows(t)
    <2>1. /\ Alive /\ tick[t].pc # "off" /\ UNCHANGED <<clock, process, bootAt, runs, lastSlot>>
          /\ tick'[t].pc = "off"
      BY <1>9 DEF TickThrows, tables, AwaitingDb, TypeOK, TickOff
    <2>2. ~Writing(t)'
      BY <2>1 DEF Writing
    <2>3. QED  BY <2>1, <2>2, ScheduleSame, SlotsGoOn
  <1>10. QED  BY <1>1, <1>3, <1>4, <1>5, <1>6, <1>7, <1>8, <1>9 DEF TickStep

\* No step of a round touches a row of the schedule but its status.
LEMMA RoundSlotsStep ==
  ASSUME TypeOK, TypeOK', SlotsInv, NEW r \in rounds,
         \/ RoundStep(r) \/ RoundThrows(r)
         \/ \E target \in Targets : BodyFailsOn(r, target)
         \/ \E j \in Jobs : ChainFails(r, j)
  PROVE  SlotsInv'
  <1>1. UNCHANGED <<clock, process, bootAt, lastSlot, tick>>
    BY DEF RoundStep, RoundThrows, BodyFailsOn, ChainFails, BodyReturns, BodyThrows,
           FinishSucceeded, ResolveStale, RoundEnds, Chain, FinishFailed, RecordRoundFailure,
           RoundUnchanged
  <1>2. \/ UNCHANGED runs
        \/ SetStatus({r.run}, "succeeded") \/ SetStatus({r.run}, "failed")
        \/ \E j \in Jobs : Insert(j, "chained", "queued", clock)
    BY DEF RoundStep, RoundThrows, BodyFailsOn, ChainFails, BodyReturns, BodyThrows,
           FinishSucceeded, ResolveStale, RoundEnds, Chain, FinishFailed, RecordRoundFailure,
           tables
  <1>3. ScheduleStays
    BY <1>2, ScheduleSame, ScheduleSet, ScheduleInsert
  <1>4. clock <= clock' /\ (Alive' => Alive)
    BY <1>1, SlotTypes DEF Alive
  <1>5. QED  BY <1>1, <1>3, <1>4, SlotsStay

\* The slots stay in order through every step when there is one tick.
LEMMA SlotsStep ==
  ASSUME OneTick, TypeOK, AsleepQuiet, SlotsInv, [Next]_vars
  PROVE  SlotsInv'
  <1>0. TypeOK'
    BY TypeStep
  <1>a. clock \in Int /\ clock <= clock
    BY SlotTypes
  <1>1. CASE BootBegin
    <2>1. /\ UNCHANGED <<clock, runs>> /\ process' = "booting" /\ bootAt' = clock
      BY <1>1 DEF BootBegin, tables
    <2>2. ScheduleStays
      BY <2>1, ScheduleSame
    <2>3. RowsInTime'
      BY <1>0, <1>a, <2>1, <2>2, ScheduleQuiet DEF RowsInTime
    <2>4. ~Alive'
      BY <2>1 DEF Alive
    <2>5. QED
      BY <1>0, <1>a, <2>1, <2>2, <2>3, <2>4, ScheduleQuiet DEF SlotsInv, TicksInTime, SlotsInOrder
  <1>2. CASE Bootstrap
    <2>1. /\ UNCHANGED <<clock, bootAt, tick>> /\ process = "booting" /\ process' = "up"
          /\ lastSlot' = [j \in Jobs |-> SlotOf(j, bootAt)]
          /\ SetStatus({i \in DOMAIN runs : runs[i].status = "running"}, "interrupted")
      BY <1>2 DEF Bootstrap
    <2>2. ScheduleStays
      BY <2>1, ScheduleSet
    <2>3. \A t \in Ticks : tick[t].pc = "off"
      BY <2>1 DEF AsleepQuiet, Alive
    <2>4. RowsInTime'
      BY <1>0, <1>a, <2>1, <2>2, RowsStayInTime
    <2>5. TicksInTime'
      <3>1. \A j \in Jobs : SlotOf(j, bootAt) <= SlotOf(j, clock)
        BY SlotMonotone, SlotTypes DEF SlotsInv, RowsInTime
      <3>2. QED  BY <2>1, <2>3, <3>1 DEF TicksInTime
    <2>6. SlotsInOrder'
      <3> SUFFICES ASSUME NEW i \in Scheduled' PROVE RowSlot(i)' <= lastSlot'[runs'[i].job]
        BY <2>1, <2>3 DEF SlotsInOrder, Writing
      <3>1. i \in Scheduled /\ runs'[i].job = runs[i].job /\ RowSlot(i)' = RowSlot(i)
        BY <1>0, <1>a, <2>1, <2>2, ScheduleQuiet DEF ScheduleStays
      <3>2. runs[i].at <= bootAt /\ runs[i].job \in Jobs
        BY <2>1, <3>1, SlotTypes DEF SlotsInv, RowsInTime, Scheduled
      <3>3. RowSlot(i) <= SlotOf(runs[i].job, bootAt)
        BY <3>1, <3>2, SlotMonotone, SlotTypes DEF RowSlot, Scheduled
      <3>4. QED  BY <2>1, <3>1, <3>2, <3>3
    <2>7. QED  BY <1>0, <1>a, <2>1, <2>2, <2>4, <2>5, <2>6, ScheduleQuiet DEF SlotsInv
  <1>3. CASE BootstrapFails \/ Stop
    <2>1. /\ UNCHANGED <<clock, runs, bootAt, lastSlot, tick>>
          /\ Alive' => Alive
          /\ process' # "booting"
      BY <1>3 DEF BootstrapFails, Stop, tables, Alive
    <2>2. QED  BY <1>0, <1>a, <2>1, ScheduleSame, SlotsStay
  <1>4. CASE Crash \/ Exit
    <2>1. UNCHANGED <<clock, runs>> /\ bootAt' = 0 /\ process' = "down"
      BY <1>4 DEF Crash, Exit, ForgetMemory, tables
    <2>2. ScheduleStays
      BY <2>1, ScheduleSame
    <2>3. 0 <= clock
      BY JobAssumption DEF TypeOK, Times
    <2>4. RowsInTime'
      BY <1>0, <1>a, <2>1, <2>2, <2>3, ScheduleQuiet DEF RowsInTime
    <2>5. QED
      BY <1>0, <1>a, <2>1, <2>2, <2>4, ScheduleQuiet
      DEF SlotsInv, TicksInTime, SlotsInOrder, Alive
  <1>5. ASSUME NEW t \in Ticks, StartTick(t) \/ TickStep(t) \/ TickThrows(t) PROVE SlotsInv'
    BY <1>0, <1>5, TickSlotsStep
  <1>6. ASSUME NEW r \in rounds,
               \/ RoundStep(r) \/ RoundThrows(r)
               \/ \E target \in Targets : BodyFailsOn(r, target)
               \/ \E j \in Jobs : ChainFails(r, j)
        PROVE  SlotsInv'
    BY <1>0, <1>6, RoundSlotsStep
  <1>7. ASSUME NEW j \in Jobs, EnqueueManual(j) PROVE SlotsInv'
    <2>1. Insert(j, "manual", "queued", clock) /\ UNCHANGED <<clock, process, bootAt, lastSlot, tick>>
      BY <1>7 DEF EnqueueManual, memory
    <2>2. Alive' => Alive
      BY <2>1 DEF Alive
    <2>3. QED  BY <1>0, <1>a, <2>1, <2>2, ScheduleInsert, SlotsStay
  <1>8. CASE Advance \/ UNCHANGED vars
    <2>1. clock <= clock' /\ UNCHANGED <<runs, process, bootAt, lastSlot, tick>>
      BY <1>8, <1>a DEF Advance, vars, tables, memory
    <2>2. Alive' => Alive
      BY <2>1 DEF Alive
    <2>3. QED  BY <1>0, <2>1, <2>2, ScheduleSame, SlotsStay
  <1>9. QED  BY <1>1, <1>2, <1>3, <1>4, <1>5, <1>6, <1>7, <1>8 DEF Next

\* No rows at the start.
LEMMA SlotsInit == Init => SlotsInv
  BY JobAssumption DEF Init, SlotsInv, RowsInTime, TicksInTime, SlotsInOrder,
     OneScheduledRowPerSlot, Scheduled, Alive

\* With one tick at a time the schedule leaves at most one row per job and slot, across the
\* overlap guard, claimed runs, statements that throw, crashes and restarts.
THEOREM SingleTickOneRowPerSlot == ASSUME OneTick PROVE Spec => []OneScheduledRowPerSlot
  <1>1. RunsInv /\ SlotsInv /\ [Next]_vars => SlotsInv'
    BY SlotsStep DEF RunsInv, GuardInv
  <1>2. SlotsInv => OneScheduledRowPerSlot
    BY DEF SlotsInv
  <1>3. QED  BY <1>1, <1>2, SlotsInit, RunsHold, PTL DEF Spec

-----------------------------------------------------------------------------
(***************************************************************************)
(* Gaps.  As long as no statement has thrown, a slot taken note of has its *)
(* row or a tick about to write it, and a running row has somebody to      *)
(* close it.                                                               *)
(***************************************************************************)
SlotHasRow(j) ==
  \E i \in DOMAIN runs : /\ runs[i].job = j /\ runs[i].status # "queued"
                         /\ SlotOf(j, runs[i].at) = lastSlot[j]

Accounted ==
  Alive => \A j \in Jobs : \/ lastSlot[j] = SlotOf(j, bootAt)
                           \/ SlotHasRow(j)
                           \/ \E t \in Ticks : Writing(t) /\ JobAt(t) = j

Gapless == faults = 0 => RunningRowsAttended /\ Accounted

\* A row that has left the queue keeps its job and its time and does not come back to it.
RowsSettled ==
  \A i \in DOMAIN runs : runs[i].status # "queued" =>
    /\ i \in DOMAIN runs' /\ runs'[i].job = runs[i].job /\ runs'[i].at = runs[i].at
    /\ runs'[i].status # "queued"

\* The writes of job_runs that queue nothing again.
LEMMA SettledByWrites ==
  ASSUME TypeOK
  PROVE  /\ UNCHANGED runs => RowsSettled
         /\ \A ids, st : SetStatus(ids, st) /\ st # "queued" => RowsSettled
         /\ \A j, trigger, st, at : Insert(j, trigger, st, at) => RowsSettled
         /\ \A t \in Ticks : Update(t) => RowsSettled
  <1>1. UNCHANGED runs => RowsSettled
    BY DEF RowsSettled
  <1>2. ASSUME NEW ids, NEW st, SetStatus(ids, st), st # "queued" PROVE RowsSettled
    BY <1>2, StatusSet DEF RowsSettled
  <1>3. ASSUME NEW j, NEW trigger, NEW st, NEW at, Insert(j, trigger, st, at) PROVE RowsSettled
    BY <1>3, RowInserted DEF RowsSettled
  <1>4. ASSUME NEW t \in Ticks, Update(t) PROVE RowsSettled
    BY <1>4, RowsClaimed DEF RowsSettled
  <1>5. QED  BY <1>1, <1>2, <1>3, <1>4

\* The row of the last slot stays the row of the last slot.
LEMMA HasRowStays ==
  ASSUME RowsSettled, NEW j \in Jobs, lastSlot'[j] = lastSlot[j], SlotHasRow(j)
  PROVE  SlotHasRow(j)'
  BY DEF RowsSettled, SlotHasRow

\* Steps that leave lastSlot and the ticks alone leave no gap.
LEMMA AccountedStays ==
  ASSUME Accounted, RowsSettled, UNCHANGED <<bootAt, lastSlot, tick>>, Alive' => Alive
  PROVE  Accounted'
  <1> SUFFICES ASSUME Alive', NEW j \in Jobs
               PROVE  \/ lastSlot'[j] = SlotOf(j, bootAt') \/ SlotHasRow(j)'
                      \/ \E t \in Ticks : Writing(t)' /\ JobAt(t)' = j
    BY DEF Accounted
  <1>1. \/ lastSlot[j] = SlotOf(j, bootAt) \/ SlotHasRow(j)
        \/ \E t \in Ticks : Writing(t) /\ JobAt(t) = j
    BY DEF Accounted
  <1>2. CASE lastSlot[j] = SlotOf(j, bootAt)
    BY <1>2
  <1>3. CASE SlotHasRow(j)
    BY <1>3, HasRowStays
  <1>4. CASE \E t \in Ticks : Writing(t) /\ JobAt(t) = j
    BY <1>4 DEF Writing, JobAt
  <1>5. QED  BY <1>1, <1>2, <1>3, <1>4

\* A tick that takes note of a slot, or stops writing, leaves a row or is about to write it.
LEMMA AccountedAfter ==
  ASSUME TypeOK, OneTick, Accounted, Alive, RowsSettled, UNCHANGED bootAt,
         NEW t \in Ticks, NEW j0, j0 = JobAt(t), UNCHANGED lastSlot \/ SlotTaken(t),
         \/ UNCHANGED lastSlot /\ ~Writing(t)
         \/ SlotHasRow(j0)'
         \/ Writing(t)' /\ JobAt(t)' = j0
  PROVE  Accounted'
  <1> SUFFICES ASSUME NEW j \in Jobs
               PROVE  \/ lastSlot'[j] = SlotOf(j, bootAt') \/ SlotHasRow(j)'
                      \/ \E u \in Ticks : Writing(u)' /\ JobAt(u)' = j
    BY DEF Accounted
  <1>1. \/ lastSlot[j] = SlotOf(j, bootAt) \/ SlotHasRow(j)
        \/ \E u \in Ticks : Writing(u) /\ JobAt(u) = j
    BY DEF Accounted
  <1>2. ASSUME j # j0 \/ (UNCHANGED lastSlot /\ ~Writing(t))
        PROVE  lastSlot'[j] = SlotOf(j, bootAt') \/ SlotHasRow(j)'
    <2>1. lastSlot'[j] = lastSlot[j]
      BY <1>2 DEF SlotTaken, TypeOK
    <2>2. ~\E u \in Ticks : Writing(u) /\ JobAt(u) = j
      BY <1>2 DEF OneTick
    <2>3. QED  BY <1>1, <2>1, <2>2, HasRowStays
  <1>3. QED  BY <1>2

\* Steps that start no row and leave only rows that are over.
LEMMA AttendedStays ==
  ASSUME RunningRowsAttended, UNCHANGED tick, Alive' => Alive,
         \A i \in DOMAIN runs' : runs'[i].status = "running" =>
           i \in DOMAIN runs /\ runs[i].status = "running",
         \A r \in rounds : (\E q \in rounds' : q.run = r.run) \/ runs'[r.run].status # "running"
  PROVE  RunningRowsAttended'
  BY DEF RunningRowsAttended

\* Where one tick is not at coalescing, running rows are attended by rounds.
LEMMA AttendedByRounds ==
  ASSUME RunningRowsAttended, Alive, OneTick, NEW t \in Ticks, tick[t].pc # "coalesce",
         NEW i \in DOMAIN runs, runs[i].status = "running"
  PROVE  \E r \in rounds : r.run = i
  BY DEF RunningRowsAttended, OneTick

\* The only row of a claim of one row.
LEMMA OnlyClaim ==
  ASSUME RunsInv, NEW t \in Ticks, tick[t].pc = "update", Cardinality(tick[t].claimed) = 1,
         NEW i \in tick[t].claimed, NEW k \in tick[t].claimed
  PROVE  i = k
  <1>1. tick[t].claimed \subseteq 1..Len(runs) /\ Len(runs) \in Int
    BY DEF RunsInv, GuardInv, TypeOK, ClaimsHeld
  <1>2. IsFiniteSet(tick[t].claimed)
    <2>1. IsFiniteSet(1..Len(runs))
      BY <1>1, 1 \in Int, FS_Interval
    <2>2. tick[t].claimed \in SUBSET (1..Len(runs))
      BY <1>1
    <2>3. QED  BY <2>1, <2>2, FS_Subset
  <1>3. PICK x : tick[t].claimed = {x}
    BY <1>2, FS_Singleton
  <1>4. QED  BY <1>3

\* Launching adds a round that works on the given row.
LEMMA RoundAdded ==
  ASSUME NEW t \in Ticks, NEW run, Launch(t, run)
  PROVE  rounds \subseteq rounds' /\ \E r \in rounds' : r.run = run
  <1> DEFINE new == [job |-> JobAt(t), run |-> run, at |-> tick[t].now, tick |-> t,
                     pc |-> "body", next |-> {}]
  <1>1. rounds' = rounds \cup {new} /\ new.run = run
    BY DEF Launch
  <1> HIDE DEF new
  <1>2. QED  BY <1>1

\* Every step of the tick that does not throw.
LEMMA TickGapStep ==
  ASSUME RunsInv, OneTick, SlotsInv, RunningRowsAttended, Accounted,
         NEW t \in Ticks, StartTick(t) \/ TickStep(t)
  PROVE  RunningRowsAttended' /\ Accounted'
  <1>0. TypeOK
    BY DEF RunsInv, GuardInv
  <1>j. PICK j0 : j0 = JobAt(t)
    OBVIOUS
  <1>a. j0 \in Jobs
    BY <1>0, <1>j, TickFields
  <1>b. SlotTaken(t) => lastSlot'[j0] = SlotOf(j0, tick[t].now)
    BY <1>0, <1>a, <1>j DEF SlotTaken, TypeOK
  <1>1. ASSUME Alive, tick[t].pc # "coalesce", UNCHANGED <<runs, rounds>>
        PROVE  RunningRowsAttended'
    <2>1. \A i \in DOMAIN runs : runs[i].status = "running" => \E r \in rounds : r.run = i
      BY <1>1, AttendedByRounds
    <2>2. QED  BY <1>1, <2>1 DEF RunningRowsAttended
  <1>2. ASSUME Alive, RowsSettled, UNCHANGED bootAt, ~Writing(t), Due(t) \/ UNCHANGED lastSlot
        PROVE  Accounted'
    <2>1. CASE UNCHANGED lastSlot
      BY <1>0, <1>2, <1>j, <2>1, AccountedAfter
    <2>2. CASE Due(t) /\ lastSlot[j0] # SlotOf(j0, tick[t].now)
      <3>1. SlotTaken(t) /\ GoTo(t, IF JobAt(t) \in running THEN "skip" ELSE "start")
        BY <1>j, <2>2 DEF Due, SlotTaken
      <3>2. Writing(t)' /\ JobAt(t)' = j0
        BY <1>0, <1>j, <3>1, GoToFields DEF Writing, JobAt
      <3>3. QED  BY <1>0, <1>2, <1>j, <3>1, <3>2, AccountedAfter
    <2>3. CASE Due(t) /\ lastSlot[j0] = SlotOf(j0, tick[t].now)
      BY <1>j, <2>1, <2>3 DEF Due
    <2>4. QED  BY <1>2, <2>1, <2>2, <2>3
  <1>3. ASSUME Alive, RowsSettled, UNCHANGED bootAt, UNCHANGED lastSlot \/ SlotTaken(t),
               lastSlot'[j0] = SlotOf(j0, tick[t].now), NEW i \in DOMAIN runs',
               runs'[i].job = j0, runs'[i].status # "queued", runs'[i].at = tick[t].now
        PROVE  Accounted'
    <2>1. SlotHasRow(j0)'
      BY <1>3 DEF SlotHasRow
    <2>2. QED  BY <1>0, <1>3, <1>j, <2>1, AccountedAfter
  <1>4. CASE StartTick(t)
    <2>1. Alive /\ tick[t].pc = "off" /\ UNCHANGED <<runs, rounds, bootAt, lastSlot>>
      BY <1>4 DEF StartTick, Alive, tables
    <2>2. RowsSettled /\ ~Writing(t)
      BY <1>0, <2>1, SettledByWrites DEF Writing
    <2>3. QED  BY <1>1, <1>2, <2>1, <2>2
  <1>5. CASE Check(t)
    <2>1. Alive /\ tick[t].pc = "check" /\ UNCHANGED <<runs, rounds, bootAt>>
      BY <1>5 DEF Check, tables
    <2>2. RowsSettled /\ ~Writing(t)
      BY <1>0, <2>1, SettledByWrites DEF Writing
    <2>3. Due(t) \/ UNCHANGED lastSlot
      <3>1. CASE JobAt(t) \in running
        BY <1>5, <3>1 DEF Check
      <3>2. CASE JobAt(t) \notin running
        BY <1>5, <3>2 DEF Check
      <3>3. QED  BY <3>1, <3>2
    <2>4. QED  BY <1>1, <1>2, <2>1, <2>2, <2>3
  <1>6. CASE Select(t)
    <2>1. Alive /\ tick[t].pc = "select" /\ UNCHANGED <<runs, rounds, bootAt>>
      BY <1>6 DEF Select, tables
    <2>2. RowsSettled /\ ~Writing(t)
      BY <1>0, <2>1, SettledByWrites DEF Writing
    <2>3. Due(t) \/ UNCHANGED lastSlot
      <3>1. CASE QueuedRuns(JobAt(t)) = {}
        BY <1>6, <3>1 DEF Select
      <3>2. CASE QueuedRuns(JobAt(t)) # {}
        BY <1>6, <3>2 DEF Select
      <3>3. QED  BY <3>1, <3>2
    <2>4. QED  BY <1>1, <1>2, <2>1, <2>2, <2>3
  <1>7. CASE Update(t)
    <2>1. Alive /\ tick[t].pc = "update" /\ ~Writing(t) /\ UNCHANGED bootAt
      BY <1>7 DEF Update, Writing
    <2>2. RowsSettled
      BY <1>0, <1>7, SettledByWrites
    <2>3. /\ DOMAIN runs' = DOMAIN runs
          /\ \A i \in tick[t].claimed :
               /\ i \in DOMAIN runs' /\ runs'[i].job = j0
               /\ runs'[i].status = "running" /\ runs'[i].at = tick[t].now
          /\ \A i \in DOMAIN runs : i \notin tick[t].claimed => runs'[i] = runs[i]
      BY <1>0, <1>7, <1>j, <2>1, RowsClaimed DEF RunsInv, ClaimsHeld
    <2>4. \A i \in DOMAIN runs : i \notin tick[t].claimed /\ runs'[i].status = "running"
                                    => \E r \in rounds : r.run = i
      BY <2>1, <2>3, AttendedByRounds
    <2>5. CASE Cardinality(tick[t].claimed) = 1
      <3>1. PICK i \in tick[t].claimed : LaunchClaimed(t, i)
        BY <1>7, <2>5 DEF Update
      <3>2. SlotTaken(t) /\ rounds \subseteq rounds' /\ \E r \in rounds' : r.run = i
        BY <3>1, RoundAdded DEF LaunchClaimed, SlotTaken
      <3>3. \A k \in tick[t].claimed : k = i
        BY <2>1, <2>5, OnlyClaim
      <3>4. RunningRowsAttended'
        BY <2>3, <2>4, <3>2, <3>3 DEF RunningRowsAttended
      <3>5. Accounted'
        BY <1>3, <1>b, <2>1, <2>2, <2>3, <3>2
      <3>6. QED  BY <3>4, <3>5
    <2>6. CASE Cardinality(tick[t].claimed) # 1
      <3>1. GoTo(t, "coalesce") /\ UNCHANGED <<rounds, lastSlot>>
        BY <1>7, <2>6 DEF Update
      <3>2. tick'[t].pc = "coalesce" /\ tick'[t].claimed = tick[t].claimed
        <4>1. tick[t] \in TickStates
          BY <1>0, TickFields
        <4>2. QED  BY <1>0, <3>1, <4>1 DEF GoTo, TypeOK, TickStates
      <3>3. RunningRowsAttended'
        BY <2>3, <2>4, <3>1, <3>2 DEF RunningRowsAttended
      <3>4. QED  BY <1>2, <2>1, <2>2, <3>1, <3>3
    <2>7. QED  BY <2>5, <2>6
  <1>8. CASE Coalesce(t)
    <2>1. Alive /\ tick[t].pc = "coalesce" /\ UNCHANGED bootAt
      BY <1>8 DEF Coalesce
    <2>2. PICK i \in tick[t].claimed :
            SetStatus(tick[t].claimed \ {i}, "skipped") /\ LaunchClaimed(t, i)
      BY <1>8 DEF Coalesce
    <2>3. SlotTaken(t) /\ rounds \subseteq rounds' /\ \E r \in rounds' : r.run = i
      BY <2>2, RoundAdded DEF LaunchClaimed, SlotTaken
    <2>4. i \in DOMAIN runs /\ runs[i].job = j0 /\ runs[i].status = "running"
            /\ runs[i].at = tick[t].now
      BY <1>j, <2>1 DEF RunsInv, ClaimsHeld
    <2>5. /\ DOMAIN runs' = DOMAIN runs
          /\ runs'[i].job = j0 /\ runs'[i].status = "running" /\ runs'[i].at = tick[t].now
          /\ \A k \in DOMAIN runs :
               /\ k \in tick[t].claimed /\ k # i => runs'[k].status = "skipped"
               /\ k \notin tick[t].claimed => runs'[k].status = runs[k].status
      BY <1>0, <2>2, <2>4, StatusSet
    <2>6. RowsSettled
      BY <1>0, <2>2, SettledByWrites
    <2>7. Accounted'
      BY <1>3, <1>b, <2>1, <2>3, <2>4, <2>5, <2>6
    <2>8. \A k \in DOMAIN runs : k \notin tick[t].claimed /\ runs[k].status = "running"
                                   => \E r \in rounds : r.run = k
      BY <2>1 DEF RunningRowsAttended, OneTick
    <2>9. RunningRowsAttended'
      BY <2>3, <2>5, <2>8 DEF RunningRowsAttended
    <2>10. QED  BY <2>7, <2>9
  <1>9. ASSUME NEW st \in {"running", "skipped"}, Alive, Writing(t), UNCHANGED <<bootAt, lastSlot>>,
               Insert(JobAt(t), "schedule", st, tick[t].now), rounds \subseteq rounds',
               st = "running" => \E r \in rounds' : r.run = Len(runs) + 1
        PROVE  RunningRowsAttended' /\ Accounted'
    <2>1. /\ DOMAIN runs' = DOMAIN runs \cup {Len(runs) + 1}
          /\ \A i \in DOMAIN runs : runs'[i] = runs[i]
          /\ runs'[Len(runs) + 1].job = j0 /\ runs'[Len(runs) + 1].status = st
          /\ runs'[Len(runs) + 1].at = tick[t].now
      BY <1>0, <1>9, <1>j, RowInserted
    <2>2. lastSlot'[j0] = SlotOf(j0, tick[t].now)
      BY <1>9, <1>j DEF SlotsInv, TicksInTime, Writing
    <2>3. RowsSettled
      BY <1>0, <1>9, SettledByWrites
    <2>4. Accounted'
      BY <1>3, <1>9, <2>1, <2>2, <2>3
    <2>5. tick[t].pc # "coalesce"
      BY <1>9 DEF Writing
    <2>6. \A i \in DOMAIN runs : runs[i].status = "running" => \E r \in rounds : r.run = i
      BY <1>9, <2>5, AttendedByRounds
    <2>7. RunningRowsAttended'
      BY <1>9, <2>1, <2>6 DEF RunningRowsAttended
    <2>8. QED  BY <2>4, <2>7
  <1>10. CASE RecordSkip(t)
    <2>1. /\ Alive /\ Writing(t) /\ UNCHANGED <<bootAt, lastSlot>> /\ rounds' = rounds
          /\ Insert(JobAt(t), "schedule", "skipped", tick[t].now)
      BY <1>10 DEF RecordSkip, Writing
    <2>2. QED  BY <1>9, <2>1
  <1>11. CASE StartRun(t)
    <2>1. /\ Alive /\ Writing(t) /\ UNCHANGED <<bootAt, lastSlot>>
          /\ Insert(JobAt(t), "schedule", "running", tick[t].now)
          /\ Launch(t, Len(runs) + 1)
      BY <1>11 DEF StartRun, Writing
    <2>2. rounds \subseteq rounds' /\ \E r \in rounds' : r.run = Len(runs) + 1
      BY <2>1, RoundAdded
    <2>3. QED  BY <1>9, <2>1, <2>2
  <1>12. QED  BY <1>4, <1>5, <1>6, <1>7, <1>8, <1>10, <1>11 DEF TickStep

\* Every step of a round that does not throw.
LEMMA RoundGapStep ==
  ASSUME RunsInv, RunningRowsAttended, Accounted, NEW r \in rounds,
         RoundStep(r) \/ \E target \in Targets : BodyFailsOn(r, target)
  PROVE  RunningRowsAttended' /\ Accounted'
  <1>0. TypeOK /\ r \in RoundStates
    BY DEF RunsInv, GuardInv, TypeOK
  <1>1. UNCHANGED <<clock, process, bootAt, lastSlot, tick>>
    BY DEF RoundStep, BodyFailsOn, BodyReturns, BodyThrows, FinishSucceeded, ResolveStale,
           RoundEnds, Chain, FinishFailed, RecordRoundFailure, RoundUnchanged
  <1>2. \/ UNCHANGED runs
        \/ SetStatus({r.run}, "succeeded") \/ SetStatus({r.run}, "failed")
        \/ \E j \in Jobs : Insert(j, "chained", "queued", clock)
    BY DEF RoundStep, BodyFailsOn, BodyReturns, BodyThrows, FinishSucceeded, ResolveStale,
           RoundEnds, Chain, FinishFailed, RecordRoundFailure, tables
  <1>3. RowsSettled
    BY <1>0, <1>2, SettledByWrites
  <1>4. Accounted'
    BY <1>1, <1>3, AccountedStays DEF Alive
  <1>5. \A i \in DOMAIN runs' : runs'[i].status = "running" =>
          i \in DOMAIN runs /\ runs[i].status = "running"
    <2>1. CASE UNCHANGED runs
      BY <2>1
    <2>2. CASE SetStatus({r.run}, "succeeded") \/ SetStatus({r.run}, "failed")
      BY <1>0, <2>2, StatusSet
    <2>3. ASSUME NEW j \in Jobs, Insert(j, "chained", "queued", clock)
          PROVE  \A i \in DOMAIN runs' : runs'[i].status = "running" =>
                   i \in DOMAIN runs /\ runs[i].status = "running"
      BY <1>0, <2>3, RowInserted
    <2>4. QED  BY <1>2, <2>1, <2>2, <2>3
  <1>6. (\E q \in rounds' : q.run = r.run) \/ runs'[r.run].status # "running"
    <2>1. CASE RoundEnds(r) \/ RecordRoundFailure(r)
      <3>1. UNCHANGED runs /\ r.pc \in {"chain", "record"}
        BY <2>1 DEF RoundEnds, RecordRoundFailure, tables
      <3>2. QED  BY <3>1 DEF RunsInv, RoundsRun, Stands
    <2>2. ASSUME NEW pc, RoundTo(r, pc) PROVE \E q \in rounds' : q.run = r.run
      <3>1. [r EXCEPT !.pc = pc].run = r.run
        BY <1>0 DEF RoundStates
      <3>2. QED  BY <2>2, <3>1 DEF RoundTo
    <2>3. ASSUME NEW p \in BOOLEAN, BodyReturns(r, p) PROVE \E q \in rounds' : q.run = r.run
      <3>1. PICK next : rounds' = (rounds \ {r}) \cup {[r EXCEPT !.pc = "finish", !.next = next]}
        BY <2>3 DEF BodyReturns
      <3>2. [r EXCEPT !.pc = "finish", !.next = next].run = r.run
        BY <1>0 DEF RoundStates
      <3>3. QED  BY <3>1, <3>2
    <2>4. ASSUME NEW j \in Jobs, Chain(r, j) PROVE \E q \in rounds' : q.run = r.run
      <3>1. [r EXCEPT !.next = r.next \ {j}].run = r.run
        BY <1>0 DEF RoundStates
      <3>2. QED  BY <2>4, <3>1 DEF Chain
    <2>5. ASSUME NEW target \in Targets, BodyFailsOn(r, target) PROVE r \in rounds'
      BY <2>5 DEF BodyFailsOn
    <2>6. QED
      BY <2>1, <2>2, <2>3, <2>4, <2>5
      DEF RoundStep, BodyThrows, FinishSucceeded, ResolveStale, FinishFailed
  <1>7. rounds \ {r} \subseteq rounds'
    BY DEF RoundStep, BodyFailsOn, BodyReturns, BodyThrows, FinishSucceeded, ResolveStale,
           RoundEnds, Chain, FinishFailed, RecordRoundFailure, RoundTo, LeaveRound
  <1>8. RunningRowsAttended'
    BY <1>1, <1>5, <1>6, <1>7, AttendedStays DEF Alive
  <1>9. QED  BY <1>4, <1>8

\* As long as nothing throws, no step leaves a gap when there is one tick.
LEMMA GapStep ==
  ASSUME OneTick, RunsInv, SlotsInv, Gapless, [Next]_vars
  PROVE  Gapless'
  <1>0. TypeOK
    BY DEF RunsInv, GuardInv
  <1>n. faults \in Nat
    BY <1>0 DEF TypeOK
  <1> SUFFICES ASSUME faults' = 0 PROVE RunningRowsAttended' /\ Accounted'
    BY DEF Gapless
  <1>f. ~Fault
    BY <1>n DEF Fault
  <1>a. faults = 0
    BY <1>f, <1>n DEF Next, BootBegin, Bootstrap, BootstrapFails, Crash, Stop, Exit, StartTick,
       TickStep, TickThrows, Check, Select, Update, Coalesce, RecordSkip, StartRun, RoundStep,
       BodyFailsOn, ChainFails, RoundThrows, BodyReturns, BodyThrows, FinishSucceeded,
       ResolveStale, RoundEnds, Chain, FinishFailed, RecordRoundFailure, EnqueueManual,
       Advance, counters, vars
  <1>b. RunningRowsAttended /\ Accounted
    BY <1>a DEF Gapless
  <1>1. ASSUME ~Alive' PROVE RunningRowsAttended' /\ Accounted'
    BY <1>1 DEF RunningRowsAttended, Accounted
  <1>2. ASSUME UNCHANGED <<bootAt, lastSlot, tick, rounds>>, Alive' => Alive,
               \/ UNCHANGED runs
               \/ \E j \in Jobs : Insert(j, "manual", "queued", clock)
        PROVE  RunningRowsAttended' /\ Accounted'
    <2>1. RowsSettled
      BY <1>0, <1>2, SettledByWrites
    <2>2. \A i \in DOMAIN runs' : runs'[i].status = "running" =>
            i \in DOMAIN runs /\ runs[i].status = "running"
      BY <1>0, <1>2, RowInserted
    <2>3. QED  BY <1>2, <1>b, <2>1, <2>2, AccountedStays, AttendedStays
  <1>3. CASE BootBegin \/ Crash \/ Exit
    BY <1>1, <1>3 DEF BootBegin, Crash, Exit, ForgetMemory, Alive
  <1>4. CASE Bootstrap
    <2>1. SetStatus({i \in DOMAIN runs : runs[i].status = "running"}, "interrupted")
      BY <1>4 DEF Bootstrap
    <2>2. RunningRowsAttended'
      BY <1>0, <2>1, StatusSet DEF RunningRowsAttended
    <2>3. Accounted'
      BY <1>4 DEF Bootstrap, Accounted
    <2>4. QED  BY <2>2, <2>3
  <1>5. CASE Stop
    BY <1>2, <1>5 DEF Stop, tables, Alive
  <1>6. ASSUME NEW t \in Ticks, StartTick(t) \/ TickStep(t)
        PROVE  RunningRowsAttended' /\ Accounted'
    BY <1>6, <1>b, TickGapStep
  <1>7. ASSUME NEW r \in rounds, RoundStep(r) \/ \E target \in Targets : BodyFailsOn(r, target)
        PROVE  RunningRowsAttended' /\ Accounted'
    BY <1>7, <1>b, RoundGapStep
  <1>8. ASSUME NEW j \in Jobs, EnqueueManual(j) PROVE RunningRowsAttended' /\ Accounted'
    BY <1>2, <1>8 DEF EnqueueManual, memory, Alive
  <1>9. CASE Advance \/ UNCHANGED vars
    BY <1>2, <1>9 DEF Advance, vars, tables, memory, Alive
  <1>10. QED
    BY <1>3, <1>4, <1>5, <1>6, <1>7, <1>8, <1>9, <1>f
    DEF Next, BootstrapFails, TickThrows, ChainFails, RoundThrows

\* No gap at the start.
LEMMA GapInit == Init => Gapless
  BY DEF Init, Gapless, RunningRowsAttended, Accounted, Alive

\* With one tick at a time only statements that throw leave gaps: through queued runs,
\* coalescing, crashes, stops and restarts, every slot taken note of has its row and every
\* running row has a round, or the tick that claimed it, to close it.
THEOREM SingleTickNoGaps == ASSUME OneTick PROVE Spec => []OnlyFaultsLeaveGaps
  <1>1. RunsInv /\ SlotsInv /\ [Next]_vars => SlotsInv'
    BY SlotsStep DEF RunsInv, GuardInv
  <1>2. RunsInv /\ SlotsInv /\ Gapless /\ [Next]_vars => Gapless'
    BY GapStep
  <1>3. Gapless => OnlyFaultsLeaveGaps
    BY DEF Gapless, OnlyFaultsLeaveGaps, Accounted, SlotAccounted, SlotHasRow, Alive, Writing
  <1>4. QED  BY <1>1, <1>2, <1>3, SlotsInit, GapInit, RunsHold, PTL DEF Spec
=============================================================================
