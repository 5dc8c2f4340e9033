---------------------------- MODULE JobScheduler ----------------------------
(***************************************************************************)
(* The scheduler process (worker/scheduler.ts) over the job_runs and       *)
(* job_failures tables (store/jobs.ts).                                    *)
(*                                                                         *)
(* A timer starts a tick every 30 s and does not wait for the one before.  *)
(* A tick walks the catalog; every await on the database is a point where  *)
(* other ticks and the rounds they launched may run.  What the process     *)
(* remembers (running, currentRunId, lastSlot, ticks, rounds) is lost when *)
(* it dies; the two tables are not.                                        *)
(*                                                                         *)
(* A step is one statement applied by the database together with the code  *)
(* that runs up to the next await, or the code up to the first await of a  *)
(* catalog entry.                                                          *)
(***************************************************************************)
EXTENDS Integers, Sequences, FiniteSets

CONSTANTS
  Jobs,         \* the job names
  Catalog,      \* JOB_CATALOG: the order in which a tick looks at them
  Period,       \* [Jobs -> periodOf(schedule)], in units of the clock
  Chains,       \* JOB_CHAINS: <<after, run>> pairs
  Targets,      \* what a round can fail on, other than the round as a whole
  Ticks,        \* bound: ticks in flight at the same time
  MaxClock,     \* bound: the clock stops there
  ManualBound,  \* bound: runs queued by administrators
  FailBound,    \* bound: failures of one object a round reports
  FaultBound,   \* bound: database statements that throw
  CrashBound    \* bound: deaths of the process

RoundTarget == "__round__"

ASSUME JobAssumption ==
  /\ Catalog \in Seq(Jobs) /\ Catalog # <<>>
  /\ \A j \in Jobs : \E k \in DOMAIN Catalog : Catalog[k] = j
  /\ Period \in [Jobs -> Nat \ {0}]
  /\ Chains \subseteq Jobs \X Jobs
  /\ RoundTarget \notin Targets
  /\ MaxClock \in Nat

VARIABLES
  clock,
  runs,      \* job_runs, in id order
  failures,  \* job_failures: [Jobs \X (Targets + __round__) -> item]
  process,   \* "down", "booting", "up" or "stopping"
  bootAt,    \* the `now` bootstrap() froze
  running,   \* jobs with a round in this process: the overlap guard
  lastSlot,  \* [Jobs -> the slot the job was last triggered in]
  tick,      \* [Ticks -> the state of a tick() call]
  rounds,    \* the rounds launched and not yet finished
  manual, objectFailures, faults, crashes   \* counters of the bounds

tables == <<runs, failures>>
memory == <<process, bootAt, running, lastSlot, tick, rounds>>
counters == <<manual, objectFailures, faults, crashes>>
vars == <<clock, tables, memory, counters>>

Triggers == {"schedule", "manual", "chained"}
RunStatuses == {"queued", "running", "succeeded", "failed", "skipped", "interrupted"}
Terminal == {"succeeded", "failed", "skipped", "interrupted"}
Times == 0..MaxClock
Items == Jobs \X (Targets \cup {RoundTarget})
NoItem == [open |-> FALSE, last |-> 0]
TickOff == [pc |-> "off", k |-> 1, now |-> 0, claimed |-> {}]
AwaitingDb == {"select", "update", "coalesce", "skip", "start"}

\* periodOf / slotOf: the slot of the time axis an instant lies in.
SlotOf(j, t) == t \div Period[j]

RunRows == [job: Jobs, trigger: Triggers, status: RunStatuses, at: Times]
TickStates == [pc: {"off", "check"} \cup AwaitingDb, k: 1..Len(Catalog), now: Times,
               claimed: SUBSET Nat]
RoundStates == [job: Jobs, run: Nat, at: Times, tick: Ticks,
                pc: {"body", "finish", "resolve", "chain", "fail", "record"},
                next: SUBSET Jobs]

TypeOK ==
  /\ clock \in Times
  /\ runs \in Seq(RunRows)
  /\ failures \in [Items -> [open: BOOLEAN, last: Times]]
  /\ process \in {"down", "booting", "up", "stopping"}
  /\ bootAt \in Times
  /\ running \subseteq Jobs
  /\ lastSlot \in [Jobs -> Nat]
  /\ tick \in [Ticks -> TickStates]
  /\ rounds \subseteq RoundStates
  /\ manual \in Nat /\ objectFailures \in Nat /\ faults \in Nat /\ crashes \in Nat

Init ==
  /\ clock = 0
  /\ runs = <<>>
  /\ failures = [i \in Items |-> NoItem]
  /\ process = "down"
  /\ bootAt = 0
  /\ running = {}
  /\ lastSlot = [j \in Jobs |-> 0]
  /\ tick = [t \in Ticks |-> TickOff]
  /\ rounds = {}
  /\ manual = 0 /\ objectFailures = 0 /\ faults = 0 /\ crashes = 0

-----------------------------------------------------------------------------
\* job_runs

QueuedRuns(j) == {i \in DOMAIN runs : runs[i].job = j /\ runs[i].status = "queued"}

Insert(j, trigger, status, at) ==
  runs' = Append(runs, [job |-> j, trigger |-> trigger, status |-> status, at |-> at])

SetStatus(ids, status) ==
  runs' = [i \in DOMAIN runs |->
             IF i \in ids THEN [runs[i] EXCEPT !.status = status] ELSE runs[i]]

\* job_failures: recordFailure opens the item or refreshes last_failed_at.
RecordFailure(j, target) ==
  failures' = [failures EXCEPT ![<<j, target>>] = [open |-> TRUE, last |-> clock]]

Fault ==
  /\ faults < FaultBound
  /\ faults' = faults + 1
  /\ UNCHANGED <<manual, objectFailures, crashes>>

-----------------------------------------------------------------------------
\* The process

BootBegin ==
  /\ process = "down"
  /\ process' = "booting"
  /\ bootAt' = clock
  /\ UNCHANGED <<clock, tables, running, lastSlot, tick, rounds, counters>>

\* Mutant: bootstrap() leaves lastSlot empty, so the slot in progress counts as due.
BootstrapForgetsSlot ==
  /\ process = "booting"
  /\ SetStatus({i \in DOMAIN runs : runs[i].status = "running"}, "interrupted")
  /\ lastSlot' = [j \in Jobs |-> SlotOf(j, MaxClock) + 1]
  /\ process' = "up"
  /\ UNCHANGED <<clock, failures, bootAt, running, tick, rounds, counters>>

\* Mutant: markInterrupted also rewrites rows that are finished.
BootstrapMarksAll ==
  /\ process = "booting"
  /\ SetStatus({i \in DOMAIN runs : runs[i].status # "queued"}, "interrupted")
  /\ lastSlot' = [j \in Jobs |-> SlotOf(j, bootAt)]
  /\ process' = "up"
  /\ UNCHANGED <<clock, failures, bootAt, running, tick, rounds, counters>>

\* bootstrap(): markInterrupted, then "last triggered" is the present slot of
\* every job, so missed slots are never made up for; then start().
Bootstrap ==
  /\ process = "booting"
  /\ SetStatus({i \in DOMAIN runs : runs[i].status = "running"}, "interrupted")
  /\ lastSlot' = [j \in Jobs |-> SlotOf(j, bootAt)]
  /\ process' = "up"
  /\ UNCHANGED <<clock, failures, bootAt, running, tick, rounds, counters>>

BootstrapFails ==
  /\ process = "booting"
  /\ Fault
  /\ process' = "down"
  /\ UNCHANGED <<clock, tables, bootAt, running, lastSlot, tick, rounds>>

ForgetMemory ==
  /\ process' = "down"
  /\ running' = {}
  /\ tick' = [t \in Ticks |-> TickOff]
  /\ rounds' = {}
  /\ lastSlot' = [j \in Jobs |-> 0]
  /\ bootAt' = 0
  /\ UNCHANGED <<clock, tables>>

Crash ==
  /\ process # "down"
  /\ crashes < CrashBound
  /\ crashes' = crashes + 1
  /\ ForgetMemory
  /\ UNCHANGED <<manual, objectFailures, faults>>

\* SIGTERM: stop() clears the timer and drains the rounds in flight.
Stop ==
  /\ process = "up"
  /\ crashes < CrashBound
  /\ crashes' = crashes + 1
  /\ process' = "stopping"
  /\ UNCHANGED <<clock, tables, bootAt, running, lastSlot, tick, rounds,
                 manual, objectFailures, faults>>

\* drain() ends when no round is in flight; a tick in flight is not waited for.
Exit ==
  /\ process = "stopping"
  /\ rounds = {}
  /\ ForgetMemory
  /\ UNCHANGED counters

-----------------------------------------------------------------------------
\* A tick

Alive == process \in {"up", "stopping"}
JobAt(t) == Catalog[tick[t].k]

StartTick(t) ==
  /\ process = "up"
  /\ tick[t].pc = "off"
  /\ tick' = [tick EXCEPT ![t] = [TickOff EXCEPT !.pc = "check", !.now = clock]]
  /\ UNCHANGED <<clock, tables, process, bootAt, running, lastSlot, rounds, counters>>

\* The loop goes on to the next entry of the catalog, or tick() returns.
NextEntry(t) ==
  tick' = [tick EXCEPT ![t] =
             IF tick[t].k < Len(Catalog)
               THEN [TickOff EXCEPT !.pc = "check", !.k = tick[t].k + 1, !.now = tick[t].now]
               ELSE TickOff]

GoTo(t, pc) == tick' = [tick EXCEPT ![t].pc = pc]

\* Mutant: a slot that comes due during a round leaves no row.
DueSilent(t) ==
  LET j == JobAt(t)
      slot == SlotOf(j, tick[t].now)
  IN /\ lastSlot' = [lastSlot EXCEPT ![j] = slot]
     /\ IF lastSlot[j] = slot \/ j \in running THEN NextEntry(t) ELSE GoTo(t, "start")

\* Part two of a catalog entry: is a new slot due?  lastSlot is set before the
\* row is written.  The overlap guard decides between a run and a "skipped" row.
Due(t) ==
  LET j == JobAt(t)
      slot == SlotOf(j, tick[t].now)
  IN IF lastSlot[j] = slot
       THEN NextEntry(t) /\ UNCHANGED lastSlot
       ELSE /\ lastSlot' = [lastSlot EXCEPT ![j] = slot]
            /\ GoTo(t, IF j \in running THEN "skip" ELSE "start")

\* Part one: queued runs go first, but are left alone while the job is running.
Check(t) ==
  /\ Alive
  /\ tick[t].pc = "check"
  /\ IF JobAt(t) \in running
       THEN Due(t)
       ELSE GoTo(t, "select") /\ UNCHANGED lastSlot
  /\ UNCHANGED <<clock, tables, process, bootAt, running, rounds, counters>>

\* claimQueued, its SELECT.
Select(t) ==
  /\ Alive
  /\ tick[t].pc = "select"
  /\ IF QueuedRuns(JobAt(t)) = {}
       THEN Due(t)
       ELSE /\ tick' = [tick EXCEPT ![t].pc = "update", ![t].claimed = QueuedRuns(JobAt(t))]
            /\ UNCHANGED lastSlot
  /\ UNCHANGED <<clock, tables, process, bootAt, running, rounds, counters>>

\* Mutant: the overlap guard is not set.
LaunchUnguarded(t, run) ==
  /\ running' = running
  /\ rounds' = rounds \cup {[job |-> JobAt(t), run |-> run, at |-> tick[t].now, tick |-> t,
                             pc |-> "body", next |-> {}]}
  /\ NextEntry(t)

\* launch(): the overlap guard is set and the round starts.
Launch(t, run) ==
  /\ running' = running \cup {JobAt(t)}
  /\ rounds' = rounds \cup {[job |-> JobAt(t), run |-> run, at |-> tick[t].now, tick |-> t,
                             pc |-> "body", next |-> {}]}
  /\ NextEntry(t)

\* A claimed run counts as this slot's run.
LaunchClaimed(t, run) ==
  /\ Launch(t, run)
  /\ lastSlot' = [lastSlot EXCEPT ![JobAt(t)] = SlotOf(JobAt(t), tick[t].now)]

\* claimQueued, its UPDATE: the selected rows that are still queued.  The rows
\* returned are the selected ones, whatever the UPDATE matched.
Update(t) ==
  /\ Alive
  /\ tick[t].pc = "update"
  /\ runs' = [i \in DOMAIN runs |->
                IF i \in tick[t].claimed /\ runs[i].status = "queued"
                  THEN [runs[i] EXCEPT !.status = "running", !.at = tick[t].now]
                  ELSE runs[i]]
  /\ IF Cardinality(tick[t].claimed) = 1
       THEN \E i \in tick[t].claimed : LaunchClaimed(t, i)
       ELSE GoTo(t, "coalesce") /\ UNCHANGED <<running, rounds, lastSlot>>
  /\ UNCHANGED <<clock, failures, process, bootAt, counters>>

\* Mutant: the rows merged into the first are not closed.
CoalesceForgets(t) ==
  /\ Alive
  /\ tick[t].pc = "coalesce"
  /\ \E i \in tick[t].claimed :
       /\ \A k \in tick[t].claimed : i <= k
       /\ LaunchClaimed(t, i)
  /\ UNCHANGED <<clock, tables, process, bootAt, counters>>

\* coalesceRuns: every claimed row but the first is closed as skipped.
Coalesce(t) ==
  /\ Alive
  /\ tick[t].pc = "coalesce"
  /\ \E i \in tick[t].claimed :
       /\ \A k \in tick[t].claimed : i <= k
       /\ SetStatus(tick[t].claimed \ {i}, "skipped")
       /\ LaunchClaimed(t, i)
  /\ UNCHANGED <<clock, failures, process, bootAt, counters>>

RecordSkip(t) ==
  /\ Alive
  /\ tick[t].pc = "skip"
  /\ Insert(JobAt(t), "schedule", "skipped", tick[t].now)
  /\ NextEntry(t)
  /\ UNCHANGED <<clock, failures, process, bootAt, running, lastSlot, rounds, counters>>

StartRun(t) ==
  /\ Alive
  /\ tick[t].pc = "start"
  /\ Insert(JobAt(t), "schedule", "running", tick[t].now)
  /\ Launch(t, Len(runs) + 1)
  /\ UNCHANGED <<clock, failures, process, bootAt, lastSlot, counters>>

\* A statement of the tick throws: the tick ends, and is logged.
TickThrows(t) ==
  /\ Alive
  /\ tick[t].pc \in AwaitingDb
  /\ Fault
  /\ tick' = [tick EXCEPT ![t] = TickOff]
  /\ UNCHANGED <<clock, tables, process, bootAt, running, lastSlot, rounds>>

-----------------------------------------------------------------------------
\* A round

RoundTo(r, pc) == rounds' = (rounds \ {r}) \cup {[r EXCEPT !.pc = pc]}

\* Mutant: no finally block.
LeaveRoundKeepsGuard(r) ==
  /\ running' = running
  /\ rounds' = rounds \ {r}

\* The finally block of launch().
LeaveRound(r) ==
  /\ running' = running \ {r.job}
  /\ rounds' = rounds \ {r}

RoundUnchanged == UNCHANGED <<clock, process, bootAt, lastSlot, tick>>

\* ctx.fail: one object failed, the round goes on.
BodyFailsOn(r, target) ==
  /\ Alive /\ r.pc = "body"
  /\ objectFailures < FailBound
  /\ objectFailures' = objectFailures + 1
  /\ RecordFailure(r.job, target)
  /\ UNCHANGED <<runs, running, rounds, manual, faults, crashes>>
  /\ RoundUnchanged

\* The runner returns its summary: a chain that follows this job wants a run
\* when the summary says that something new was produced.
BodyReturns(r, productive) ==
  /\ Alive /\ r.pc = "body"
  /\ rounds' = (rounds \ {r}) \cup
       {[r EXCEPT !.pc = "finish",
                  !.next = IF productive THEN {j \in Jobs : <<r.job, j>> \in Chains} ELSE {}]}
  /\ UNCHANGED <<tables, running, counters>>
  /\ RoundUnchanged

BodyThrows(r) ==
  /\ Alive /\ r.pc = "body"
  /\ RoundTo(r, "fail")
  /\ UNCHANGED <<tables, running, counters>>
  /\ RoundUnchanged

FinishSucceeded(r) ==
  /\ Alive /\ r.pc = "finish"
  /\ SetStatus({r.run}, "succeeded")
  /\ RoundTo(r, "resolve")
  /\ UNCHANGED <<failures, running, counters>>
  /\ RoundUnchanged

\* Mutant: <= in place of < in resolveStaleFailures.
ResolveStaleTooMuch(r) ==
  /\ Alive /\ r.pc = "resolve"
  /\ failures' = [i \in Items |->
       IF i[1] = r.job /\ failures[i].last <= r.at
         THEN [failures[i] EXCEPT !.open = FALSE] ELSE failures[i]]
  /\ RoundTo(r, "chain")
  /\ UNCHANGED <<runs, running, counters>>
  /\ RoundUnchanged

\* resolveStaleFailures: what has not failed since the round began is resolved.
ResolveStale(r) ==
  /\ Alive /\ r.pc = "resolve"
  /\ failures' = [i \in Items |->
       IF i[1] = r.job /\ failures[i].last < r.at
         THEN [failures[i] EXCEPT !.open = FALSE] ELSE failures[i]]
  /\ RoundTo(r, "chain")
  /\ UNCHANGED <<runs, running, counters>>
  /\ RoundUnchanged

\* chainAfter: a run of the next job is queued, never started here.
Chain(r, j) ==
  /\ Alive /\ r.pc = "chain" /\ j \in r.next
  /\ Insert(j, "chained", "queued", clock)
  /\ rounds' = (rounds \ {r}) \cup {[r EXCEPT !.next = @ \ {j}]}
  /\ UNCHANGED <<failures, running, counters>>
  /\ RoundUnchanged

\* A chain that cannot be queued is only logged.
ChainFails(r, j) ==
  /\ Alive /\ r.pc = "chain" /\ j \in r.next
  /\ Fault
  /\ rounds' = (rounds \ {r}) \cup {[r EXCEPT !.next = @ \ {j}]}
  /\ UNCHANGED <<tables, running>>
  /\ RoundUnchanged

RoundEnds(r) ==
  /\ Alive /\ r.pc = "chain" /\ r.next = {}
  /\ LeaveRound(r)
  /\ UNCHANGED <<tables, counters>>
  /\ RoundUnchanged

\* The catch block: finishRun("failed"), then recordFailure for the round.
FinishFailed(r) ==
  /\ Alive /\ r.pc = "fail"
  /\ SetStatus({r.run}, "failed")
  /\ RoundTo(r, "record")
  /\ UNCHANGED <<failures, running, counters>>
  /\ RoundUnchanged

RecordRoundFailure(r) ==
  /\ Alive /\ r.pc = "record"
  /\ RecordFailure(r.job, RoundTarget)
  /\ LeaveRound(r)
  /\ UNCHANGED <<runs, counters>>
  /\ RoundUnchanged

\* A statement throws: in the try block the catch block runs, in the catch
\* block the round is over.
RoundThrows(r) ==
  /\ Alive
  /\ Fault
  /\ \/ /\ r.pc \in {"finish", "resolve"}
        /\ RoundTo(r, "fail") /\ UNCHANGED running
     \/ /\ r.pc \in {"fail", "record"}
        /\ LeaveRound(r)
  /\ UNCHANGED tables
  /\ RoundUnchanged

-----------------------------------------------------------------------------
\* The console queues a run; the gateway does not need the scheduler for it.
EnqueueManual(j) ==
  /\ manual < ManualBound
  /\ manual' = manual + 1
  /\ Insert(j, "manual", "queued", clock)
  /\ UNCHANGED <<clock, failures, memory, objectFailures, faults, crashes>>

Advance ==
  /\ clock < MaxClock
  /\ clock' = clock + 1
  /\ UNCHANGED <<tables, memory, counters>>

TickStep(t) ==
  Check(t) \/ Select(t) \/ Update(t) \/ Coalesce(t) \/ RecordSkip(t) \/ StartRun(t)

RoundStep(r) ==
  \/ \E p \in BOOLEAN : BodyReturns(r, p)
  \/ BodyThrows(r)
  \/ FinishSucceeded(r) \/ ResolveStale(r) \/ RoundEnds(r)
  \/ \E j \in Jobs : Chain(r, j)
  \/ FinishFailed(r) \/ RecordRoundFailure(r)

Next ==
  \/ BootBegin \/ Bootstrap \/ BootstrapFails \/ Crash \/ Stop \/ Exit
  \/ \E t \in Ticks : StartTick(t) \/ TickStep(t) \/ TickThrows(t)
  \/ \E r \in rounds :
       \/ RoundStep(r)
       \/ \E target \in Targets : BodyFailsOn(r, target)
       \/ \E j \in Jobs : ChainFails(r, j)
       \/ RoundThrows(r)
  \/ \E j \in Jobs : EnqueueManual(j)
  \/ Advance

Spec == Init /\ [][Next]_vars

\* The process is restarted when it is down, its timer fires, the database
\* answers, and a round ends.
Fairness ==
  /\ WF_vars(BootBegin) /\ WF_vars(Bootstrap) /\ WF_vars(Exit)
  /\ \A t \in Ticks : WF_vars(StartTick(t)) /\ WF_vars(TickStep(t))
  /\ WF_vars(\E r \in rounds : RoundStep(r))

FairSpec == Spec /\ Fairness

-----------------------------------------------------------------------------
(***************************************************************************)
(* Properties                                                              *)
(***************************************************************************)

\* Overlap protection: two rounds of one job are never in flight together.
NoOverlap == \A r, q \in rounds : r.job = q.job => r = q

\* A slot is run at most once by the schedule, across ticks and restarts; the
\* row the guard leaves behind counts as the slot's row.
OneScheduledRowPerSlot ==
  \A i, k \in DOMAIN runs :
    /\ runs[i].job = runs[k].job
    /\ runs[i].trigger = "schedule" /\ runs[k].trigger = "schedule"
    /\ SlotOf(runs[i].job, runs[i].at) = SlotOf(runs[k].job, runs[k].at)
    => i = k

\* A slot the scheduler has taken note of leaves a row in job_runs: a run, a
\* skip, or a claimed run.  A gap in the time line then means that the
\* scheduler was down, and nothing else.
SlotAccounted ==
  (process = "up" /\ \A t \in Ticks : tick[t].pc = "off") =>
    \A j \in Jobs :
      \/ lastSlot[j] = SlotOf(j, bootAt)
      \/ \E i \in DOMAIN runs : /\ runs[i].job = j /\ runs[i].status # "queued"
                                /\ SlotOf(j, runs[i].at) = lastSlot[j]

\* The overlap guard mirrors the rounds in flight exactly: a job is never held
\* by a round that has ended, nor free while one is running.
GuardExact == running = {r.job : r \in rounds}

\* A row that says "running" has somebody who will close it: a round, or the
\* tick that claimed it.
RunningRowsAttended ==
  Alive => \A i \in DOMAIN runs : runs[i].status = "running" =>
             \/ \E r \in rounds : r.run = i
             \/ \E t \in Ticks : tick[t].pc = "coalesce" /\ i \in tick[t].claimed

\* Only statements that throw leave gaps: whatever is queued, stopped, killed or restarted,
\* every slot taken note of has its row and every running row has somebody to close it.
OnlyFaultsLeaveGaps == faults = 0 => SlotAccounted /\ RunningRowsAttended

\* The verdict of a run is written once; only a success whose round then fails to close
\* the items it resolves is turned into a failure.
VerdictFinal ==
  [][\A i \in DOMAIN runs :
       runs[i].status \in Terminal =>
         \/ runs'[i].status = runs[i].status
         \/ /\ runs[i].status = "succeeded" /\ runs'[i].status = "failed"
            /\ \E r \in rounds : r.run = i /\ r.pc = "fail"]_vars

\* A failure item is closed only by a round of its job that began after the
\* item last failed and has succeeded.
ResolvedByLaterSuccess ==
  [][\A i \in Items : failures[i].open /\ ~failures'[i].open =>
       \E r \in rounds : /\ r.job = i[1] /\ r.at > failures[i].last
                         /\ runs[r.run].status = "succeeded"]_vars

\* A run somebody asked for is not left in the queue.
QueuedRunsTaken ==
  \A j \in Jobs : (QueuedRuns(j) # {}) ~> (QueuedRuns(j) = {})
=============================================================================
