---------------------------- MODULE AssetQueue ----------------------------
(***************************************************************************)
(* The download queue: rows of `assets` (SQLite) / `meeting_assets`        *)
(* (MySQL), the Store operations that change them, and the executor slots  *)
(* that claim a row, download it and write the outcome back.               *)
(*                                                                         *)
(* Nothing locks a row while it is downloaded.  A claim is a lease: the    *)
(* row is `running`, `lease_expires_at` says until when, and a row whose   *)
(* lease has run out may be claimed again while the first slot is still    *)
(* alive.  `attempts`, which every claim increments, is the fencing token  *)
(* each write-back repeats in its WHERE clause.                            *)
(*                                                                         *)
(* Timestamps are kept relative to the clock: `wait` is lease_expires_at   *)
(* minus now, and Expired stands for every time that is already past.  The *)
(* comparison `lease_expires_at < now` is `wait = Expired`.  A NULL        *)
(* lease_expires_at is Expired as well: only claimNext reads the column,   *)
(* for running rows (never NULL) and for failed rows (where NULL counts as *)
(* past).  Relative times keep the state space finite with no bound on     *)
(* the clock.                                                              *)
(***************************************************************************)
EXTENDS Integers, FiniteSets

CONSTANTS
  Assets,       \* row ids, numbers: claimNext takes the lowest first
  Meetings,     \* (meeting_id, sub_meeting_id) pairs
  Types,        \* asset types
  MeetingOf,    \* [Assets -> Meetings]
  TypeOf,       \* [Assets -> Types]
  Slots,        \* the concurrent loops of runExecutor, of every round and process
  MaxAttempts,  \* executor/index.ts MAX_ATTEMPTS
  LeaseSec,     \* length of a lease
  Backoff,      \* downloadBackoff as a function of the attempts made
  AgeCap,       \* bound: ages beyond it are not told apart
  ClaimBound,   \* bound: no row is claimed once its attempts reach it
  TouchBound,   \* bound: progress writes in flight at the same time
  CrashBound    \* bound: executor crashes

ASSUME QueueAssumption ==
  /\ Assets \subseteq Nat
  /\ MeetingOf \in [Assets -> Meetings]
  /\ TypeOf \in [Assets -> Types]
  /\ MaxAttempts \in Nat \ {0}
  /\ LeaseSec \in Nat
  /\ Backoff \in [1..(MaxAttempts - 1) -> Nat]
  /\ AgeCap \in Nat /\ AgeCap > LeaseSec
  /\ \A n \in 1..(MaxAttempts - 1) : AgeCap > Backoff[n]

VARIABLES
  row,      \* the table
  slot,     \* what each executor slot is doing
  touches,  \* progress writes sent and not yet applied (they are not awaited)
  crashes,  \* executor crashes so far
  holder,   \* history: the slot whose claim of the row is the latest
  since     \* history: time since the row was last claimed or marked failed

vars == <<row, slot, touches, crashes, holder, since>>

Expired == -1
Nobody == "nobody"
NoAsset == -1

Statuses == {"absent", "pending", "running", "completed", "failed", "skipped", "dead"}
Settled == {"completed", "skipped", "dead"}

Idle == [pc |-> "idle", asset |-> NoAsset, claimed |-> 0]
Off == [pc |-> "off", asset |-> NoAsset, claimed |-> 0]

Working(s) == slot[s].pc = "working"

Rows == [status: Statuses, attempts: Nat, wait: Nat \cup {Expired}]
SlotStates == {Idle, Off} \cup [pc: {"working"}, asset: Assets, claimed: Nat]
TouchWrites == [asset: Assets, claimed: Nat, age: Nat]

TypeOK ==
  /\ row \in [Assets -> Rows]
  /\ slot \in [Slots -> SlotStates]
  /\ touches \subseteq TouchWrites
  /\ crashes \in Nat
  /\ holder \in [Assets -> Slots \cup {Nobody}]
  /\ since \in [Assets -> Nat]

Init ==
  /\ row = [a \in Assets |-> [status |-> "absent", attempts |-> 0, wait |-> Expired]]
  /\ slot = [s \in Slots |-> Off]
  /\ touches = {}
  /\ crashes = 0
  /\ holder = [a \in Assets |-> Nobody]
  /\ since = [a \in Assets |-> 0]

-----------------------------------------------------------------------------
\* Store operations outside the executor

\* upsertAsset: discovery or a probe inserts the row; on a row that exists the
\* statement refreshes asset_id and bytes_expected and leaves status alone.
UpsertAsset(a) ==
  /\ row[a].status = "absent"
  /\ row' = [row EXCEPT ![a].status = "pending"]
  /\ UNCHANGED <<slot, touches, crashes, holder, since>>

RowsOfKey(m, ty) == {a \in Assets : MeetingOf[a] = m /\ TypeOf[a] = ty}
RowsOfMeeting(m) == {a \in Assets : MeetingOf[a] = m}

\* The common shape of the bulk UPDATE statements: every row of S whose status
\* is in From gets the given status, an empty lease, and attempts f(attempts).
BulkUpdate(S, From, status, keepAttempts) ==
  row' = [a \in Assets |->
            IF a \in S /\ row[a].status \in From
              THEN [status |-> status,
                    attempts |-> IF keepAttempts THEN row[a].attempts ELSE 0,
                    wait |-> Expired]
              ELSE row[a]]

\* Mutant: the bulk skip also takes rows that are being downloaded.
MarkSkippedByKeyRunning(m, ty) ==
  /\ BulkUpdate(RowsOfKey(m, ty), {"pending", "running", "failed", "skipped", "dead"},
                "skipped", TRUE)
  /\ UNCHANGED <<slot, touches, crashes, holder, since>>

\* markSkippedByKey: the platform forbids the download; no fence, but neither a
\* finished nor a running row is touched.
MarkSkippedByKey(m, ty) ==
  /\ BulkUpdate(RowsOfKey(m, ty), {"pending", "failed", "skipped", "dead"}, "skipped", TRUE)
  /\ UNCHANGED <<slot, touches, crashes, holder, since>>

\* Mutant: the bulk reset has no status condition left for finished rows.
RetryMeetingAssetsAll(m) ==
  /\ BulkUpdate(RowsOfMeeting(m), {"failed", "dead", "completed"}, "pending", FALSE)
  /\ UNCHANGED <<slot, touches, crashes, holder, since>>

\* resetFailed (`mde retry`): the whole table, attempts kept.
ResetFailed ==
  /\ BulkUpdate(Assets, {"failed", "dead"}, "pending", TRUE)
  /\ UNCHANGED <<slot, touches, crashes, holder, since>>

\* retryMeetingAssets (console "retry"): one meeting, attempts back to zero.
RetryMeetingAssets(m) ==
  /\ BulkUpdate(RowsOfMeeting(m), {"failed", "dead"}, "pending", FALSE)
  /\ UNCHANGED <<slot, touches, crashes, holder, since>>

\* ignoreDeadAssets (console "ignore"): one meeting, dead rows only.
IgnoreDeadAssets(m) ==
  /\ BulkUpdate(RowsOfMeeting(m), {"dead"}, "skipped", TRUE)
  /\ UNCHANGED <<slot, touches, crashes, holder, since>>

-----------------------------------------------------------------------------
\* The executor

\* runExecutor starts `concurrency` of these loops.
StartSlot(s) ==
  /\ slot[s].pc = "off"
  /\ slot' = [slot EXCEPT ![s] = Idle]
  /\ UNCHANGED <<row, touches, crashes, holder, since>>

\* Mutant: failed rows are never picked up again.
ClaimableForgetsFailed ==
  {a \in Assets : \/ row[a].status = "pending"
                  \/ row[a].status = "running" /\ row[a].wait = Expired}

\* What claimNext selects from.
Claimable ==
  {a \in Assets : \/ row[a].status = "pending"
                  \/ row[a].status \in {"running", "failed"} /\ row[a].wait = Expired}

\* Mutant: taking over an expired lease does not change the token.
ClaimNextKeepsToken(s) ==
  /\ slot[s].pc = "idle"
  /\ \E a \in Claimable :
       /\ \A b \in Claimable : a <= b
       /\ LET n == IF row[a].status = "running" THEN row[a].attempts ELSE row[a].attempts + 1 IN
            /\ n <= ClaimBound
            /\ row' = [row EXCEPT ![a] = [status |-> "running", attempts |-> n,
                                          wait |-> LeaseSec]]
            /\ slot' = [slot EXCEPT ![s] = [pc |-> "working", asset |-> a, claimed |-> n]]
       /\ holder' = [holder EXCEPT ![a] = s]
       /\ since' = [since EXCEPT ![a] = 0]
  /\ UNCHANGED <<touches, crashes>>

\* The row becomes running under a fresh lease, and its incremented attempts is
\* the token this slot will present.
Take(s, a) ==
  /\ row[a].attempts < ClaimBound
  /\ row' = [row EXCEPT ![a] = [status |-> "running", attempts |-> row[a].attempts + 1,
                                wait |-> LeaseSec]]
  /\ slot' = [slot EXCEPT ![s] = [pc |-> "working", asset |-> a,
                                  claimed |-> row[a].attempts + 1]]
  /\ holder' = [holder EXCEPT ![a] = s]
  /\ since' = [since EXCEPT ![a] = 0]
  /\ UNCHANGED <<touches, crashes>>

\* claimNext: the lowest claimable id.
ClaimNext(s) ==
  /\ slot[s].pc = "idle"
  /\ \E a \in Claimable : (\A b \in Claimable : a <= b) /\ Take(s, a)

\* The server's claimNext is a transaction that skips the rows other claims have
\* locked: while another slot is claiming, the row need not be the lowest.
ClaimNextUnlocked(s) ==
  /\ slot[s].pc = "idle"
  /\ \E q \in Slots \ {s} : slot[q].pc = "idle"
  /\ \E a \in Claimable : Take(s, a)

\* ... and when all of them are locked the loop ends with work left.
ClaimNoneUnlocked(s) ==
  /\ slot[s].pc = "idle"
  /\ \E q \in Slots \ {s} : slot[q].pc = "idle"
  /\ slot' = [slot EXCEPT ![s] = Off]
  /\ UNCHANGED <<row, touches, crashes, holder, since>>

\* The loop ends when claimNext returns null.
ClaimNone(s) ==
  /\ slot[s].pc = "idle"
  /\ Claimable = {}
  /\ slot' = [slot EXCEPT ![s] = Off]
  /\ UNCHANGED <<row, touches, crashes, holder, since>>

\* Mutants: a fence on the status alone, and a fence on the token alone.
FenceStatusOnly(a, claimed) == row[a].status = "running"
FenceTokenOnly(a, claimed) == row[a].attempts = claimed

\* The fence of the five write-backs.
Fence(a, claimed) == row[a].status = "running" /\ row[a].attempts = claimed

\* What handleOne does with a row it has claimed ends in one write-back.  When
\* the fence is gone the statement matches no row and the slot counts it lost.
WriteBack(s, status, wait) ==
  LET a == slot[s].asset IN
  /\ Working(s)
  /\ IF Fence(a, slot[s].claimed)
       THEN /\ row' = [row EXCEPT ![a] = [status |-> status,
                                          attempts |-> row[a].attempts, wait |-> wait]]
            /\ since' = [since EXCEPT ![a] = 0]
       ELSE UNCHANGED <<row, since>>
  /\ slot' = [slot EXCEPT ![s] = Idle]
  /\ UNCHANGED <<touches, crashes, holder>>

MarkCompleted(s) == WriteBack(s, "completed", Expired)

\* meeting_meta_missing, disk_full and upstream_missing all end in markSkipped.
MarkSkipped(s) == WriteBack(s, "skipped", Expired)

\* Mutant: an off-by-one in the budget.
MarkDeadEarly(s) ==
  /\ slot[s].claimed >= MaxAttempts - 1
  /\ WriteBack(s, "dead", Expired)

\* The download failed for the last time: the budget is judged on the attempts
\* of this claim, not on what the row says now.
MarkDead(s) ==
  /\ slot[s].claimed >= MaxAttempts
  /\ WriteBack(s, "dead", Expired)

\* The download failed with attempts left: not claimable before the backoff.
MarkFailed(s) ==
  /\ slot[s].claimed \in 1..(MaxAttempts - 1)
  /\ WriteBack(s, "failed", Backoff[slot[s].claimed])

\* A progress checkpoint of the download, sent and not awaited.
SendTouch(s) ==
  /\ Working(s)
  /\ Cardinality(touches) < TouchBound
  /\ touches' = touches \cup {[asset |-> slot[s].asset, claimed |-> slot[s].claimed, age |-> 0]}
  /\ UNCHANGED <<row, slot, crashes, holder, since>>

\* Mutant: the lease is stored as it was computed when the write was sent.
TouchProgressUnfloored(t) ==
  /\ touches' = touches \ {t}
  /\ IF Fence(t.asset, t.claimed)
       THEN row' = [row EXCEPT ![t.asset].wait = LeaseSec - t.age]
       ELSE UNCHANGED row
  /\ UNCHANGED <<slot, crashes, holder, since>>

\* touchProgress: the lease is counted from when the write was sent.  Writes
\* travel on different connections and are applied in any order.
TouchProgress(t) ==
  /\ touches' = touches \ {t}
  /\ IF Fence(t.asset, t.claimed)
       THEN row' = [row EXCEPT ![t.asset].wait =
                      IF t.age <= LeaseSec THEN LeaseSec - t.age ELSE Expired]
       ELSE UNCHANGED row
  /\ UNCHANGED <<slot, crashes, holder, since>>

\* A progress write fails and is only logged.
TouchFails(t) ==
  /\ touches' = touches \ {t}
  /\ UNCHANGED <<row, slot, crashes, holder, since>>

\* The process of a slot dies, or its round throws: no write-back is made.
Crash(s) ==
  /\ slot[s].pc # "off"
  /\ crashes < CrashBound
  /\ crashes' = crashes + 1
  /\ slot' = [slot EXCEPT ![s] = Off]
  /\ UNCHANGED <<row, touches, holder, since>>

\* One unit of time passes.
Older(n) == IF n < AgeCap THEN n + 1 ELSE n

Tick ==
  /\ row' = [a \in Assets |->
               [row[a] EXCEPT !.wait = IF @ = Expired THEN Expired ELSE @ - 1]]
  /\ touches' = {[t EXCEPT !.age = Older(@)] : t \in touches}
  /\ since' = [a \in Assets |-> Older(since[a])]
  /\ UNCHANGED <<slot, crashes, holder>>

-----------------------------------------------------------------------------
Executor(s) ==
  \/ ClaimNext(s)
  \/ ClaimNone(s)
  \/ MarkCompleted(s)
  \/ MarkSkipped(s)
  \/ MarkDead(s)
  \/ MarkFailed(s)

Discovery ==
  \/ \E a \in Assets : UpsertAsset(a)
  \/ \E m \in Meetings, ty \in Types : MarkSkippedByKey(m, ty)

Common ==
  \/ Discovery
  \/ \E s \in Slots : StartSlot(s) \/ Executor(s) \/ SendTouch(s) \/ Crash(s)
  \/ \E t \in touches : TouchProgress(t) \/ TouchFails(t)
  \/ Tick

\* The administrator's machine: the CLI's SQLite host, whose only manual action
\* on the queue is resetFailed.
CliNext == Common \/ ResetFailed
CliSpec == Init /\ [][CliNext]_vars

\* The server: the worker's MySQL host, with the console's two failure actions.
GatewayNext ==
  \/ Common
  \/ \E s \in Slots : ClaimNextUnlocked(s) \/ ClaimNoneUnlocked(s)
  \/ \E m \in Meetings : RetryMeetingAssets(m) \/ IgnoreDeadAssets(m)
GatewaySpec == Init /\ [][GatewayNext]_vars

\* The unattended queue.  A slot that is alive reports before its lease runs
\* out (60 s idle timeout and a checkpoint every 8 MB against a 900 s lease),
\* the database answers within a lease, rounds keep being started, downloads
\* end, and time passes.
PunctualTick ==
  /\ \A t \in touches : t.age < LeaseSec
  /\ \A s \in Slots : Working(s) /\ Fence(slot[s].asset, slot[s].claimed)
                        => row[slot[s].asset].wait > 0
  /\ Tick

UnattendedNext ==
  \/ Discovery
  \/ \E s \in Slots : StartSlot(s) \/ Executor(s) \/ SendTouch(s) \/ Crash(s)
  \/ \E t \in touches : TouchProgress(t) \/ TouchFails(t)
  \/ PunctualTick

UnattendedSpec ==
  /\ Init /\ [][UnattendedNext]_vars
  /\ WF_vars(PunctualTick)
  /\ WF_vars(\E t \in touches : TouchProgress(t) \/ TouchFails(t))
  /\ \A s \in Slots : WF_vars(StartSlot(s)) /\ WF_vars(Executor(s))

-----------------------------------------------------------------------------
(***************************************************************************)
(* Properties                                                              *)
(***************************************************************************)

\* A slot that would pass the fence of a row is the slot that claimed it last:
\* the attempts count never names two claims at once.
TokenNamesHolder ==
  \A s \in Slots :
    Working(s) /\ Fence(slot[s].asset, slot[s].claimed) => holder[slot[s].asset] = s

\* The lease of a running row never ends earlier than the one its latest claim
\* was given, however late an earlier progress write arrives.
LeaseFloor ==
  \A a \in Assets : row[a].status = "running" => row[a].wait + since[a] >= LeaseSec
                     \/ since[a] > LeaseSec

\* Why the two hold on the CLI's host, as one inductive invariant: no token in
\* circulation is ahead of its row, a token equal to the row's belongs to the
\* holder, and a progress write with the current token is no older than the claim.
QueueInv ==
  /\ TypeOK
  /\ \A s \in Slots : Working(s) =>
       /\ slot[s].claimed <= row[slot[s].asset].attempts
       /\ slot[s].claimed = row[slot[s].asset].attempts => holder[slot[s].asset] = s
  /\ \A t \in touches :
       /\ t.claimed <= row[t.asset].attempts
       /\ Fence(t.asset, t.claimed) => t.age <= since[t.asset]
  /\ LeaseFloor

\* Only the slot of the latest claim ends a download: when a running row gets a
\* verdict, that slot is working on it and goes on to its next row.  This is
\* what the store promises of `attempts`: a write-back that comes after the row
\* was claimed again changes nothing.
OnlyHolderConcludes ==
  [][\A a \in Assets :
       row[a].status = "running" /\ row'[a].status # "running"
         => \E s \in Slots : /\ s = holder[a]
                             /\ Working(s) /\ slot[s].asset = a
                             /\ slot'[s] = Idle]_vars

\* A finished download is never reopened or overwritten, by a late write-back,
\* a progress write, a bulk statement or another claim.
CompletedIsFinal ==
  [][\A a \in Assets : row[a].status = "completed" => row'[a] = row[a]]_vars

\* A row is given up only after MaxAttempts claims, and is never left waiting
\* for a retry once it has had them.
VerdictMatchesBudget ==
  \A a \in Assets :
    /\ row[a].status = "dead" => row[a].attempts >= MaxAttempts
    /\ row[a].status = "failed" => row[a].attempts < MaxAttempts

\* A failed row is not downloaded again before its backoff has passed.
BackoffHonoured ==
  [][\A a \in Assets :
       row[a].status = "failed" /\ row'[a].status = "running"
         => since[a] > Backoff[row[a].attempts]]_vars

\* Every row the queue knows gets an answer, through crashes and failures.
EveryAssetSettles ==
  \A a \in Assets : (row[a].status # "absent") ~> (row[a].status \in Settled)

(***************************************************************************)
(* The queue implements AssetLifecycle.                                    *)
(***************************************************************************)
PhaseOf(status) ==
  CASE status \in {"pending", "failed"} -> "open"
    [] status = "running" -> "held"
    [] status = "completed" -> "done"
    [] status = "skipped" -> "dropped"
    [] status = "dead" -> "given_up"
    [] OTHER -> "absent"

Life == INSTANCE AssetLifecycle WITH
  phase <- [a \in Assets |-> PhaseOf(row[a].status)],
  owner <- [a \in Assets |-> IF row[a].status = "running" THEN holder[a] ELSE Nobody],
  tries <- [a \in Assets |-> row[a].attempts],
  busy <- [s \in Slots |-> slot[s].asset]

\* Whatever the interleaving of claims, late write-backs, crashes and bulk
\* statements, the table behaves as the abstract life cycle says: one owner, a
\* verdict only from it, no verdict after completion.
ImplementsLifecycle == Life!LifeSpec
=============================================================================
