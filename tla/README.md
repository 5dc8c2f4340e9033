# A TLA+ model of the meeting data exporter

The exporter downloads the recordings and transcripts of Tencent Meeting, keeps
them on a local archive disk, copies them to a NAS, deletes the local copies at
the end of a retention window, and decides which collecting program may fetch
what. This directory models its stateful core in TLA+, checks the model on small
instances with TLC, and proves the main results for all instances with TLAPS.
Paths below are relative to the root of the repository.

- [The system](#the-system): inventory, with what makes each part correct
- [The modules](#the-modules): how state and actions correspond to the code
- [The runs](#the-runs): what TLC checks, bounds, fairness
- [What the runs found](#what-the-runs-found)
- [The proofs](#the-proofs)
- [What is not modelled](#what-is-not-modelled)
- [The plan](#the-plan)

## The system

Three kinds of processes share one MySQL database: the **gateway** (`src/index.ts`,
HTTP for collecting programs and for the administrators' console), the **scheduler**
(`src/worker/scheduler.ts`, five periodic jobs) and one-shot **workers**
(`src/worker/index.ts`). An administrator's **CLI** (`client/`) runs the same engine
(`packages/engine`) over a SQLite file of its own. The processes never call each other:
they communicate through rows.

| Part | Code | State | Operations | Hard behaviour | Correct when |
|---|---|---|---|---|---|
| download queue | `engine/src/store`, `src/worker/store-mysql.ts`, `engine/src/executor` | asset rows: status, attempts, lease | discover, claim, checkpoint, five write-backs, three bulk statements | leases run out under a live slot; progress writes are not awaited; crashes | only the latest claim ends a download; finished stays finished; every row gets an answer |
| probes | `engine/src/discovery`, `executor` (`runProbes`) | probe rows: state, not-before, deadline | discover, resolve, abandon, back off | two statements per verdict | no asset is both waited for and given up |
| downloader | `engine/src/downloader`, `engine/src/storage` | `.part` file, link | resume, renew link, idle guard, finalize | expired links, changed files, bodies that end early, two writers | a finalized file is what its row reports, of one upstream file and without holes |
| scheduler | `src/worker/scheduler.ts`, `src/store/jobs.ts` | `job_runs`, `job_failures`; in memory: overlap guard, last slots | tick, launch, claim, coalesce, chain, bootstrap, stop | awaits between check and launch; crash loses the memory; statements throw | one round per job at a time, one run per slot, every slot accounted for, verdicts final |
| archive | `src/worker/archive.ts`, `src/store/archives.ts` | NAS files, `archived_assets`, `meeting_archives` | copy, read back, record, open the window | copies fail half way; assets arrive late | every finished download reaches the NAS |
| retention | `src/worker/retention.ts`, `console/storage.ts` | local files, the window, the pause switch | list, verify, delete, mark; pause, extend | hours between listing and deleting | nothing is deleted that is not intact on the NAS |
| failure items | `scheduler.ts` (`recordDeadAssets`), `console/jobs.ts` | `job_failures` | mirror dead assets, retry, ignore | a round mirrors a list read before the console acted | an item is open while its cause is |
| access gate | `src/policy/{access,grant,override}.ts`, `src/store/{grants,programs}.ts`, `http/handlers/meetings.ts` | overrides, grants, program status, download tokens | decide, decideMany, sign an address; grant, revoke, scope | six reads per decision, facts from another table than the console's | an answer was allowed while its request was served |
| automatic grants | `src/worker/auto-grant.ts` | grants | grant what the rules allow | list read earlier, revocations | never grants what an administrator revoked |
| authentication | `src/auth`, `src/store/{auth,admin}.ts` | device authorizations, refresh tokens, accounts, sessions | start, authorize, poll; rotate, log out; log in, renew, re-password, remove | polls race authorizations, two refreshes or two removals overlap | one identity per device code; what was ended stays ended; an administrator remains |
| rate limits | `src/http/ratelimit.ts`, `src/tencent/ratelimit.ts` | buckets, windows | take, converge, sweep | window boundaries | no 60 s window over quota |
| records cache, catalog | `src/tencent/records.ts`, `src/catalog` | cached meetings | list, refresh | stale entries | a listing shows what upstream has |
| policy stacks | `src/policy/{conds,stacks,preview}.ts`, `http/handlers/console/rules.ts`, `src/store/policy.ts` | `policy_rules`, facts of meetings | evaluate, preview, create, patch, toggle, delete | facts that are missing; two administrators edit one rule | a verdict is the one complete facts would give; saving does what the preview said |
| manifest, directory names | `engine/src/manifest`, `engine/src/domain` | files | number, name, write | two recordings in one minute; names are made anew each round | a finished file stays where its row says |
| audit, contents, media, console queries, console UI, scripts | | | | | |

How they interact: a fetch round (scheduler) runs discovery and probes, which insert
asset rows, then the executor, which downloads them; when it produced something, a run
of the archive job is queued behind it. Archive rounds read finished asset rows and
open retention windows; cleanup rounds read windows and delete local files; the console
pauses cleanup, extends windows, queues runs, and puts dead assets back in the queue.
The gate reads the facts of a meeting, its archive state, the program, the rules, the override and the grant
on each request, in as many statements.

`PROJECT.json` lists every part with its files ("components") and the behaviours that
are hard to test, each at its line ("hazards").

## The modules

| Module | Models | Used by |
|---|---|---|
| `AssetLifecycle` | abstract: what the queue promises of one asset: owner, verdict, tries | `AssetQueue` (refinement) |
| `AssetQueue` | the queue, the executor slots, both hosts | `MCAssetQueue` |
| `Downloader` | one download to disk, link by link, and a second slot on the same `.part` | `MCEngine` |
| `Discovery` | discovery, probes and their verdicts, two hosts | `MCEngine` |
| `Directories` | directory ordinals, paths, sidecars, rounds of two processes | `MCEngine` |
| `FailureMirror` | dead rows mirrored into failure items, retry and ignore | `MCEngine` |
| `JobScheduler` | the scheduler process over its two tables | `MCJobScheduler`, `MCSchedulerViews` |
| `ArchiveRetention` | archive rounds, cleanup rounds, the console's two switches | `MCArchiveRetention`, `MCRetentionViews` |
| `AccessGate` | the gate, the addresses it signs, automatic grants, the inventory | `MCAccess` |
| `SignIn` | device flow, refresh tokens, program tokens | `MCAccess` |
| `ConsoleAccounts` | the administrators' accounts, sessions and passwords | `MCConsole` |
| `RateLimits` | the meeting API client's limits, the login limiter | `MCConsole` |
| `RuleDesk` | rule stacks over missing facts, preview, edits | `MCConsole` |
| `AssetQueueProofs`, `JobSchedulerProofs`, `ArchiveRetentionProofs`, `SignInProofs`, `ConsoleAccountsProofs`, `AccessGateProofs` | theorems about the module each is named after; `SignInProofs` also about `MCAccess` | |
| `OfficeProofs` | theorems about `RateLimits`, `RuleDesk` and `MCConsole` | |
| `EngineProofs` | theorems about `Downloader`, `Discovery`, `Directories`, `FailureMirror` and `MCEngine` | |
| `MC...` | the instances for TLC | |

`PROJECT.json` "map" gives the source lines of every definition. In all modules an action is one database
statement (or file operation, or answer of a foreign service) together with the code up to the next `await`, so that
the interleavings are those the program has. Variables named "history" in their comments record what a property
speaks of and influence nothing.

### AssetQueue

`row` is the table, restricted to the columns that control it; `slot` is what each of the
executor's concurrent loops holds (`row.id` and `claimed`, the attempts it claimed with);
`touches` are progress writes in flight, because `onProgress` does not await them. `holder` and
`since` are history variables. Claims (`ClaimNext`), the verdicts (`MarkCompleted`,
`MarkSkipped`, `MarkDead`, `MarkFailed`) and `TouchProgress` carry the code's WHERE clause,
`Fence`. `handleOne` between the claim and the write-back changes no asset row that matters
here, so a download is the time between the two (`Downloader` opens it up).

`lease_expires_at` is kept relative to the clock (`wait`), and `Expired` stands for all
times that have passed; comparisons are exactly those of the statements, and no bound on the clock
is needed. The two hosts differ: `CliNext` has the CLI's SQLite statements and its one manual action
(`resetFailed`, attempts kept); `GatewayNext` has the server's `FOR UPDATE SKIP LOCKED`
claim, which may pass over rows other claims hold, and the console's `retryMeetingAssets`
(attempts to zero) and `ignoreDeadAssets`. A row another claim has locked is abstracted to "another
slot is claiming".

`AssetLifecycle` has no tokens, leases or clocks: an asset is absent, open, held, done, dropped
or given up; only its owner gives a verdict. `ImplementsLifecycle` says that the table with its
leases and fences behaves like that.

### Downloader

`writer[w]` is a slot inside `downloadAsset`, with its program counter at one of the awaits (`link`, `size`,
`fetch`, `answer`, `read`, `end`, `hash`, `finalize`, then a write-back); `part` and `final` are the two files. A file is a
sequence of cells, each the version of the upstream object whose byte lies there or a hole, which is what writing at an
offset beyond the end leaves. The platform is external: a link names the version that was current when it was issued; it may
expire, the object may be replaced or vanish, a server may ignore a `Range` (200) or refuse it (416), a
connection may break or stall, and a body may come to its end before the object does: `done` is all the code looks at. `Claim` takes a queued row, or one whose lease ran out while its slot still runs. `Announce` is the `upsertAsset`
that every discovery round makes: it rewrites `bytes_expected` of a row in any status. A slot compares with the size it was claimed with (`due`). `short` (history) says that the body that ended last was cut short.

### Discovery

`rows` and `probe` are the two tables for one meeting; `host[h]` is a round with the statements it has still to
make (`todo`), because a verdict is reached on a listing and written as several statements. `Discover` takes one kind at a time in the
order of `Kinds`, all on the one listing it began with (`seen`) and at the time its round began; `JudgeProbe` asks anew for every probe. `Judge` translates
`readiness.ts` and `sibling.ts`. Only `Discoverers` begin their rounds with a discovery (`mde execute` does not). A meeting may have
no end time, and a kind may be barred from downloading.

### Directories

One meeting id with several recordings. `round[h]` holds the map from recordings to directories which a round computes
once (`assignDirOrdinals`) and uses for every row and for the sidecars; `meetings` may grow under it. A recording's
file name is the same in every directory, so two recordings in one directory collide. The characters of a path are left out.

### FailureMirror

`fate` is the status of the asset rows as far as the failure list can tell; `open` are the items with `resolved_at` NULL. Of time only
two seconds matter, the present one and the one the round started in: `last_failed_at < startedAt` is a comparison of
seconds, so `thisSecond` and `sinceStart` keep which items were written in them. `appeal[c]` is a request of the console
between its statements: read the items, act on the rows of one meeting, close its item, go on to the next.

### JobScheduler

`runs` and `failures` are `job_runs` and `job_failures`; `running`, `lastSlot`, `tick` and `rounds` are
the memory of the process, which `ForgetMemory` erases. `tick[t]` is a call of `tick()` with its program counter at one of its awaits
(`select`, `update`, `coalesce`, `skip`, `start`); `Ticks` has one element when ticks do not
overlap and two when the 30 s timer fires while one is waiting for the database. A round
(`rounds`) is the async body of `launch`: the runner, `finishRun`, `resolveStaleFailures`, the
chains, and the catch and finally blocks. `TickThrows`, `RoundThrows`, `ChainFails` and `BootstrapFails` are failing statements.

The catalog is a parameter; the runs use two jobs, one twice as frequent as the other and chained after it. `SlotOf` keeps of a schedule only
its period: phase and time zone shift all slots alike. `chain.when(summary)` is a nondeterministic Boolean.

### ArchiveRetention

`local` and `nas` are the disks, `archived` and `record` the tables, `archiver[w]` and `cleaner[c]` the
local variables of `archiveMeeting` and `cleanupOneMeeting` across their awaits. The content of a NAS file is none, partial, good
or bad. The queue is reduced to `Download`: an asset appears, ends completed or missing, and a missing one may be
reopened. `extending` holds the extension requests between their check and their UPDATE. A statement, a copy or a process fails through
`ArchiverFails`, `CleanerFails` or the bad branch of `EndCopy`; `NasRots` is a file changed from outside.

The rules' decision not to archive is the constant set `Skipped`. `default_retention_days` is a constant: changing it
between two archivings of a meeting does move a window, in both directions. Each asset has one NAS path. A copy that timed out is over; in the code its
pipeline may go on in the background.

### AccessGate

`call[c]` is a gateway request between the gate's statements, for one meeting or for a list: the facts (`ReadFacts`), the archive state (`ReadArchived`), the program's status, for a list
the grants, then the rules, the override, for one meeting the grant; then the audit row and the answer or the signed address. `ReadRules` asks the rules of its moment about the facts and the
archive state read before. `auto` is a round of automatic grants between its reads, its
writes and its audit rows. `program`, `ruling`, `override`, `grant` and `revoked` are what the console changes; each console action is one step.

A stack of allow rules is reduced to a function: what it lets a program take by a sheet of facts and the archive state (`ruling`, one of `RuleSets`); `RuleDesk` evaluates stacks, and its
`VerdictsAreExact` is why a stack may be assumed to let through on a sheet with gaps only what it would whatever the gaps hold (`RulesAssumption`). There are two sheets per meeting, as there are two tables:
`cached` (`meeting_cache`, whose columns are never NULL) is what the gate asks about, `shown` (`meetings`, which may have gaps) what the inventory and the automatic round ask about. Each is
overwritten by rounds of its own (`Recache`, `Discover`), so they may disagree; `Fits` says which complete sheets agree with one. `Inventory` translates `visibility.ts`. Rules about a meeting's age are left out:
a request asks them with its own clock. An override whose effect is not understood denies, and shares `Denied` with one that does.

`held` is history: the last time at which each row an answer rests on stood, which is what "was allowed during this request" means when six rows are read at six times. `Stood` reads the conditions of a fetch from it: `enabled` (the program),
`named` (the override names the asset, or rules that stood name it for facts and an archive state that stood), `kept` (the override does not take it away) and `granted`. The rows need not have stood together: the gate decides on
combinations that no moment had, and the property claims no more than is so. The tables start as new ones, or as an earlier day left them.

### SignIn

`device` and `refresh` are the two tables, `request[s]` a request between two of the store's statements. `Poll`, `Authorize`, `Rotate`,
`Redeem` and the others carry the WHERE clauses of the code. Secrets are identities: a token is its row number. WeCom and
the identity table are external: a callback names any user, and the lookup may find nobody.

### ConsoleAccounts

`admin` and `session` are the tables, `desk[d]` a request between its statements; every request starts with `FindSession` and its
account and may renew the session (`Touch`). An id is not given twice (`gone`). A session's `late` marks a login that had read the old
hash before a change of password was answered.

### RateLimits

`granted` is the endpoint quota's list of times, `credit` the token bucket in fractions that stay integers
(`Second` units per token), `caller[c]` one call with its attempts and the halved rate after a 429. `bucket` is the login limiter;
`unswept` is the same limiter without its sweep, for comparison.

### RuleDesk

`rules` is the table and `facts` what is known of a meeting: a test of a field holds, does not, is about data the meeting
does not have (`none`), or is about a column that is still NULL (`gap`). `Hits`, `Stops`, `Undecidable` and `Decide` translate the
three-valued evaluation of `conds.ts` and the walk of `stacks.ts`. `Impact` translates the preview of the meetings a scan brought (`Scans`: any `ScanLimit` of them; `MEETING_SCAN_LIMIT` is 500 in `rules.ts`, and the answer
says so in `scope.truncated`), with its three lists `changed`, `shielded` and `deciderOnly`. The samples it shows of each list are left out. `editor[a]` is a handler between its reads and its writes.

## The runs

| Run | Module, spec | Instance | Checks | Distinct states |
|---|---|---|---|---|
| `cli` | AssetQueue, `CliSpec` | 1 asset, 3 slots, lease 2, 2 attempts, 1 crash, 2 late writes | `QueueInv`, `OnlyHolderConcludes`, `BackoffHonoured`, `ImplementsLifecycle` | 362 k |
| `gateway` | AssetQueue, `GatewaySpec` | 2 assets of 2 meetings, 2 slots | `VerdictMatchesBudget`, `CompletedIsFinal` | 426 k |
| `unattended` | AssetQueue, `UnattendedSpec` | 2 assets, 2 slots, 1 crash | `EveryAssetSettles` | 108 k |
| `token` | AssetQueue, `GatewaySpec` | 1 asset, 2 slots | `OnlyHolderConcludes` is violated | |
| `scheduler` | MCSchedulerViews, `ViewsSpec` | 2 jobs; 1 crash over 3 units of time, or 1 failing statement, 1 failing object, 1 manual run and 1 crash over 2 | `NoOverlap`, `OneScheduledRowPerSlot`, `OnlyFaultsLeaveGaps`, `VerdictFinal`, `QueuedRunsTaken`, `ResolvedByLaterSuccess` | 307 k |
| `overlap` | JobScheduler, `Spec` | 2 ticks in flight | `NoOverlap` is violated | |
| `loss` | ArchiveRetention, `Spec` | 3 assets, 2 meetings (one skipped by the rules), 2 cleaners, 1 failure | `NothingLost`, `PauseStopsDeletion` | 911 k |
| `retention` | MCRetentionViews, `ViewsSpec` | 2 assets; 1 failure, or 1 changed NAS file and 1 extension | `DeletesOnlyVerified`, `WindowNeverShrinks`, `CompletedGetsArchived`, `SettledGetsWindow` | 228 k |
| `purged` | ArchiveRetention, `Spec` | 2 assets | `PurgedMeansGone` is violated | |
| `clients` | MCAccess, `AccessSpec` | gate: 1 program, 1 meeting, 1 kind, 2 complete sheets and 1 with a gap, 3 stacks, 2 changes of console or rows, 1 round; sign-in: 1 code, 2 people, 2 requests, 3 refresh tokens | `ClientsTypeOK`, `AnswersHeld`, `RevocationBites`, `LedgerInOrder`, `InventoryWithinGate`, `AutoRespectsDecisions`, `OneIdentityPerCode`, `CredentialsEnd` | 901 k |
| `office` | MCConsole, `OfficeSpec` | 2 accounts, 2 sessions, 2 requests; 2 callers, 2 endpoints; 2 login keys; tables of 2 rules, 2 editors, scans of 1 meeting of 2 | `OfficeTypeOK`, `SessionsKeepTheirWord`, `AdminRemains`, `LimitsHold`, `VerdictsAreExact`, `PreviewTellsKnown`, `EditsMerge` | 272 k |
| `engine` | MCEngine, `EngineSpec` | 2 slots, 3 versions of 0, 2 and 3 cells, announced sizes 2, 3 or none; 2 hosts, a video of 2 segments and an audio; 2 processes, 2 recordings; 2 rows, 2 requests | `EngineTypeOK`, `CompletedFileHonest`, `ProbesTellTruth`, `FilesKeepTheirPlace`, `ItemsFollowRows`, `ProbesEnd` | 419 k |

What each shows:

- `cli`: the attempts count works as a fencing token. A slot that passes the fence is the latest
  claimant; late progress writes neither shorten a newer lease nor overwrite a backoff; a verdict comes only from the owner. Three slots are needed for a claim,
  its takeover and a takeover of that.
- `gateway`: a row is dead only after its budget and failed only before; nothing reopens a completed row. Two meetings, so that an action on one may be seen to touch the other.
- `unattended`: every row ends completed, skipped or dead although a slot dies. Two attempts make the budget and the backoff matter.
- `scheduler`: two views of one model. Each slot has one scheduled row. Until a statement has thrown, every slot the process took note of has a row, and no row says running without a round or a tick that will
  close it. Items are closed by later success only, and queued runs do not starve although statements throw. In the view `restarts` three units of time give the faster job three slots and the slower one two; the view `troubles` has the failing statements.
- `loss`: a finished download is on the local disk or intact on the NAS. Two assets of one meeting, so that deletion is interrupted between files and an asset may be archived
  between the listing and the marking; two cleaners, because the console and the scheduler may both run one.
- `retention`: in the view `changes`, deletion only of files whose NAS copy is good at that moment, and re-archiving keeps an extension even if it lands in the middle of the round; in the view `faults`, late
  assets are archived too, and the window is opened even if the last asset in flight was given up. The four properties hold in both.
- `clients`: no address is signed and nothing is shown on the strength of a row that had gone before the request came in; an address dies `TokenTtl` after the last moment its conditions held; where the tables they
  read do not contradict each other, the inventory lists nothing the gate would refuse, NULL columns or not, and all of what it lets through of local files if there are none; the automatic round leaves manual decisions alone; no session names anyone but the person who authorized its code; and what was ended stays ended.
- `office`: a short session is never prolonged; a change of password ends older sessions; an administrator remains; no window of the endpoint quota is exceeded, at its boundary too; sweeping the limiter is invisible. A
  decision that does not wait for a missing fact is the one every way of filling it in gives, and waiting happens only where the fact matters; saving a rule moves, of the meetings that were scanned, those the preview listed as changed, no other; overlapping edits lose nothing of each other.
- `engine`: a completed row tells the truth about its file through broken connections, bodies that end early, renewed links, changing announced sizes and dying slots; a probe's verdict is so and comes; finished files and their sidecars keep their
  directory while recordings of the same minute turn up; a download that was given up stays listed until somebody acts on it, and an item is closed when its rows are no longer dead.

**Foci and views.** `clients`, `office` and `engine` each look at components that share no state: the variable `focus` names the one that moves, the others rest in one state, so that a
run's states are the sum and not the product of its components'. A focus also narrows a component that would be too large at once; the narrowings are the disjuncts of `GateStart`, `SignStart`, `ConsoleStart`, `DeskStart`, `FileMove`,
`ProbeMove` and `DirectoryMove` in the MC modules. The narrowest are these. In `file` nothing is looked at after two slots had the row together, since the property says nothing of it from then on, and in
`directories` nothing after a corrected start time or a crossed round; what happens there is told [below](#what-the-runs-found). In `gateway` the clock starts at 0, the sheets of `meetings` rest, and so do the programs' automatic grants; no local file is cleaned, and no request is made while an address is out, since nothing reads the addresses; four combinations of earlier rows are begun with. In `worker` the requests
and `meeting_cache` rest, which the round does not look at. In `accounts` one password is in use, in `sessions` and `passwords` one
account remains, and `passwords` starts one unit before the long sessions expire. In `stacks` two arbitrary allow rules meet arbitrary facts and nobody edits; in `desk` few tables are edited. A `view` of
`scheduler` or `retention` leaves out some kinds of trouble; what it leaves out is never under fairness.

**Bounds.** `AgeCap` merges ages that no comparison tells apart and loses nothing. Every other bound caps what the environment may do: claims, late writes, crashes (`ClaimBound`, `TouchBound`, `CrashBound`, `Crashes`, `Deaths`, `Mishaps`), failing
statements and files (`FaultBound`, `FailBound`, `RotBound`), administrators (`ManualBound`, `ExtendBound`, `AdminBound`, `MaxEdits`, `Appeals`, `Edits`), what is issued (`MaxTokens`, `MaxSessions`, `Renewals`, `Replacements`, `Takeovers`, `Claims`), rounds (`RoundBound`)
and the clocks (`MaxClock`, `MaxSignTime`, `MaxDeskTime`, `MaxLimitTime`, `LastTime`). Each is large enough for the mutants of `PROJECT.json` to be found, that is, for the situation each property is about to occur. `ClaimBound` exceeds
`MaxAttempts`, so that a row is claimed again after a reset; the clocks exceed the longest lifetime of what they measure: a window, a token's life, a quota's window, the deadline of a probe. `Renewals` is a bound of the code too: 6 there (`downloader/index.ts:41`), 3 in the run.
The theorems have no such bound. Slots, cleaners, assets of one meeting, callers, desks and editors are symmetric where only safety is checked.

**Fairness.** `UnattendedSpec`: rounds keep being started (the scheduler's interval), a slot ends each download (the idle guard of 60 s ends a hung one), writes are answered, and time passes.
`PunctualTick` additionally lets no lease run out under a slot that is alive and lets no write stay unanswered for a lease: a slot sends a checkpoint every 8 MB or is cut off after 60 s without a byte, and the lease is 900 s.
The assumption is used only for liveness; a slot that is slower is covered by `cli`. Its claims take the lowest id, as SQLite's do, and no administrator acts. `Fairness` of the scheduler: the process is restarted by its supervisor, the timer fires,
statements are answered, rounds end. `Fairness` of retention: archive and cleanup rounds are started by the scheduler and end, and time passes. `EngineSpec`: the rounds of some host go on and time passes; which host moves is left open.
Administrators, crashes, faults and downloads are never assumed to happen.

**Limits of single properties.** `VerdictsAreExact`: every test has a field and a fact of its own; two tests that share a fact (two keywords on one title, age and duration on one end time) are not covered. `EditsMerge` is about the requests the gateway receives, not about which fields the
page puts into a patch. `ProbesEnd` has one meeting: a listing that throws and so ends the round for the meetings behind it is covered only as a host that dies. `LimitsHold` runs with one call per window; the theorem has any number. `AdminRemains` excludes overlapping removals (`crossed`).

Deadlock is checked in every run but `clients`, `office` and `engine`: there the clocks and the counters of requests are bounded, and a component that has used them up stops.

## What the runs found

Three runs state a sentence of the code's own comments and TLC refutes it. `PROJECT.json` "findings" quotes the sentences.

- **`token`.** `retryMeetingAssets` sets `attempts` to zero, but `attempts` is the fencing token. A slot claims a row (1), its lease runs out, another slot claims it (2) and fails it for good, an administrator retries,
  a third claim is given 1 again: the first slot, still alive, passes the fence and ends the third claim's download. The CLI's `resetFailed` keeps the count, and there the property is proved.
- **`overlap`.** `setInterval` does not wait for `tick()`. When the database takes longer than 30 s, two ticks are between the guard's check and `launch`, and two rounds of one job run together. With one tick in flight the property is proved.
- **`purged`.** A late asset of a meeting that was cleaned is archived, but `local_purged_at` stays set; its local file is never cleaned up and the table says it is gone.

The following were met while modelling. No run of their own: each is the exception that a property names (an `overlapped`, `crossed`, `raced`, `late`, `edited` or `overtaken` in its statement), a case the run's bounds set apart, or a consequence read off the code.

*Downloads and directories*

- Two slots on one `.part` file, after a lease ran out, can finalize a file with holes or a truncated one, although `storage/types.ts:8-9` says that the final name means complete (`CompletedFileHonest` holds until two slots had the row together, and run `engine` follows a download no further).
  What keeps it rare is the idle watch of the slot that lost its lease. No property covers it, `FilesKeepTheirPlace` neither: its rows have one live slot each.
- A body of unannounced length that ends early is taken for the whole object (`downloader/index.ts:73-74`, `92`): a short file is completed. Hence `short` in the property.
- `domain/manifest.ts:71-73` says that a size the platform announced is, on a completed row, the size on disk. It was when the download was claimed; `upsertAsset` (`engine/store/index.ts:252-255`, from every discovery round) may since have written another, on a
  completed row too, and the manifest publishes that one (`manifest/index.ts:239`, `256`). The property speaks of the size the download was given (`due`).
- `dir-ordinal.ts:21` says ordinals are stable. They are not when the platform corrects a start time or a code, and a round may name a directory by a map that another process's discovery has overtaken. A recording another process finds during a round is skipped for good by that round with `meeting_meta_missing`.
- `runProbes` takes the first of several files only; it does not ask the fetch rules again; with a NULL end time a probe's deadline moves with every discovery; `abandonProbe` has no condition on the state. `skip_disallowed` inserts rows and then marks them: a claim in between downloads one.
- A failure item written between a console request's two statements is closed, and shown again only by the next round (`overtaken`). An "ignore" acts on rows that died after the administrator read the list. An item written in the very second in which the next round starts stays open one round longer.

*Scheduler, archive, retention*

- `lastSlot` is set before the row of the slot is written (`scheduler.ts:722`, `775`). When the statement throws, the next tick considers the slot done: it is neither run nor recorded as skipped. `OnlyFaultsLeaveGaps` therefore looks at executions in which no statement has thrown yet.
- A run recorded as succeeded becomes failed when a later statement of its round (`resolveStaleFailures`) throws. Claimed rows stay running until the next restart when `coalesceRuns` throws.
- Days added to a window while a cleanup round is under way do not save the files (`retention.ts:308` lists once). An extension whose check passed just before the meeting was cleaned is granted on an empty window (`console/storage.ts:546`).
- `listMeetingKeysWithLocalFiles` lists cleaned meetings, because cleanup leaves their download rows completed (`archives.ts:616-632`), and automatic grants are given for them (`auto-grant.ts:254-256`, `285`).

*Gate, rules, accounts, limits*

- The gate reads facts, archive state, rules and override one after the other (`http/handlers/meetings.ts:153`, `169`, `policy/access.ts:288`, `345`). If they are changed in between, what is shown may be allowed by no rows that ever stood together: rules that name an asset are withdrawn, then an override that
  takes it away is lifted; or a rule that was made for the new facts is asked about the old ones. `AnswersHeld` therefore asks of each row that it stood during the request, and not that they stood at one moment.
- `src/index.ts:179-182` says that the drawer's answer and the gate's come from one source. The code is shared, the facts are not: the gate reads `meeting_cache`, the drawer and the inventory `meetings` (`index.ts:187`, `visibility.ts:466-473`), two tables written by different rounds, the second with
  columns that may be NULL. When they disagree, so may the answers, in either direction; and a missing fact makes the inventory say less. `InventoryWithinGate` says what is left when they do not.
- A grant revoked during an automatic round may be granted again by it (`auto-grant.ts:24-26` says what was revoked stays revoked; `446-449`). `AutoRespectsDecisions` covers decisions made before the round. The gate also serves a meeting from the NAS after its local files were purged, which the comment at `access.ts:43-44` does not know; the inventory ignores whether the program is enabled.
- `preview.ts:26-29` says that evaluating only the meetings which a changed rule hits leaves nothing out. A rule that cannot be decided for want of a fact is not hit (`matchesRule`, 602-604), yet it ends the walk and shuts the meeting out: when it is deleted, the meeting opens without having been
  listed (TLC shows it in two steps when `Gapless` is dropped from `PreviewTellsKnown`). For complete facts the sentence is proved (`PreviewForetells`).
- `preview.ts:51-55` and `203` call a meeting `shielded` that would have changed but for its override. The code lists every overridden subject that differs at all (`preview.ts:611-631`), one for which only the deciding rule is another included: `Impact` does as the code does.
- A preview looks at 500 meetings at most (`rules.ts:555`, `589-606`); what a change does to the others is in none of its lists. The answer says that it was cut off.
- In a preview a draft, whose id is −1, sorts before rules of the same priority while the saved rule sorts behind them (`rules.ts:668-694`). The page's warning about unconditional rules ignores the programs (`console/src` `order.ts:20-27`, `136-145`). `deleteRule` audits the row as read before, not as deleted.
- A call takes its endpoint quota and may then wait for the global bucket (`ratelimit.ts:36-52`): the grants keep to the quota, the calls themselves may bunch up. The login limiter counts twice if the clock goes back.
- Two concurrent refreshes leave two live tokens, and a logout or a detected reuse that races a refresh leaves one (`raced`). A login that had read the old hash opens a session after the password was changed (`late`). Two overlapping removals can remove the last administrator (`crossed`).

## The proofs

TLAPS checks these for every value of the constants that satisfies the modules' assumptions: any number of assets, slots, jobs, ticks of the clock, programs, people, sessions, requests, and any number of faults and crashes.

| Theorem | Assumes | Says |
|---|---|---|
| `CliTypeCorrect`, `GatewayTypeCorrect` | | types of the queue on both hosts |
| `CliQueueInv`, `CliTokenNamesHolder`, `CliLeaseFloor`, `CliOnlyHolderConcludes` | the CLI's host | the attempts count is a fencing token |
| `CliImplementsLifecycle` | the CLI's host | the table with its leases and fences implements `AssetLifecycle` |
| `CliBackoffHonoured`, `GatewayBackoffHonoured` | | a failed row is not taken before its backoff is over |
| `GatewayVerdictMatchesBudget`, `GatewayCompletedIsFinal` | the server's host | the budget; completion is final |
| `SchedulerTypeCorrect` | | types of the scheduler, for any number of ticks in flight |
| `SingleTickNoOverlap`, `SingleTickGuardExact` | one tick in flight | overlap protection, with any faults and crashes |
| `SingleTickVerdictFinal`, `SingleTickResolvedBySuccess` | one tick in flight | a verdict is written once; an item is closed by a later success only |
| `SingleTickOneRowPerSlot`, `SingleTickNoGaps` | one tick in flight | at most one row for a slot; and a row for every slot, until a statement throws |
| `RetentionTypeCorrect` | one archiver | types of archiving and cleanup |
| `CleanupDeletesOnlyVerified`, `WindowsOnlyGrow` | one archiver, any number of cleaners | deletion only of verified files; windows never end earlier |
| `PauseIsHeeded` | any number of archivers and cleaners | no deletion begins while cleanup is paused |
| `ArchiveLosesNothing` | one archiver, and `RotBound = 0` | no finished download is lost |
| `CompletedIsHonest` | | what a completed row says of its file, through broken connections, bodies that end early, new links, changing announced sizes, dying slots and replaced objects |
| `ProbesSpeakTruth` | | a resolved probe has a row, an abandoned one says why truly, on any number of hosts |
| `FilesStay` | | finished files and their sidecars keep their directory |
| `MirrorTypes`, `MirrorFollowsRows` | | failure items follow the rows they are about |
| `SessionsHaveOneOwner`, `CredentialsComeToTheirEnd` | | one identity per device code; what was ended stays ended |
| `SessionsLastAsPromised`, `SomeAdminRemains` | | sessions of the console; an administrator remains |
| `AnswersRestOnTheirRequest`, `AddressesComeToTheirEnd`, `LedgerFollowsDeeds`, `InventoryTellsTheGate`, `RoundsRespectDecisions` | | the gate, its addresses, the audit order, the inventory, automatic grants |
| `LimitsAreKept` | | the endpoint quota in every window; the sweep of the login limiter is invisible |
| `DecisionsAreExact`, `EditsKeepEachOther`, `PreviewForetells` | | decisions over missing facts; overlapping edits; the preview foretells what saving does |
| `EngineRunsItsParts`, `OfficeRunsItsParts` | | a behaviour of the run is a behaviour of each of its components |
| `ClientsRunTheirParts` | `c1` and `u1` are a code and a person, and a token can be issued | the same of the gate; and of signing in when it begins with a token out |

"One tick in flight" is `OneTick`, "one archiver" is `OneArchiver`, both stated in the proof modules. The timer does not guarantee the first (run `overlap` shows what happens without it); the second
is what the scheduler's guard gives as long as no one-shot worker archives at the same time.

The arguments:

- **Queue.** `TokenNamesHolder` and `LeaseFloor` are not inductive: they say nothing of tokens that do not pass the fence now but might after the next claim. `QueueInv` adds that no token in circulation, held by a
  slot or travelling in a progress write, is ahead of its row; that a token equal to the row's is the holder's; and that a progress write with the current token is no older than the claim. A claim makes the count
  larger than every token there is, which is what `retryMeetingAssets` breaks. `CliOnlyHolderConcludes` is read off the invariant action by action.
- **Refinement.** The mapping keeps of a row its phase and of the slots who holds it; tokens, leases and clocks are forgotten. `QueueInv` supplies what is forgotten: a verdict that passes the fence comes from the holder, which is the abstract owner. Each action is an abstract
  step of one asset (`LifeTakes`, `LifeConcludes`, `LifeWalksAway`), a regrouping by a bulk statement (`BulkRegroups`), or a stutter.
- **Backoff.** The clock of a row is relative, so the property needs what has passed and what is left together: of a failed row `wait + since` is at least the backoff, until `wait` is over (`BackoffInv`). The same invariant holds on both hosts, because no
  statement of either writes `lease_expires_at` of a failed row but those that take it out of that status.
- **Scheduler, overlap.** `NoOverlap` needs `GuardInv`: `running` is exactly the set of jobs with a round, and a tick past its check of the guard (`JobStillFree`) is at a job that is still not in it. The last part is where one tick
  is needed: only ticks launch, so nothing happens to the guard in the window but rounds that leave it.
- **Scheduler, rows.** `RunsInv` adds that the row of a round is running until its round has written the verdict (`RoundsRun`), that the rows a tick has claimed are queued before its UPDATE and running after it (`ClaimsHeld`), and that a dead process has neither (`AsleepQuiet`). From it `VerdictFinal` and
  `ResolvedByLaterSuccess` follow step by step. `SlotsInv` orders rows, ticks and the memory of slots: a row is not ahead of its time, a tick about to write is at the newest slot of its job and the rows before it are of
  older ones (`SlotsInOrder`), so that the row it writes is new. After a restart the memory is the current slot, which is why no slot is written twice across a crash. `Gapless` is the other direction, while no statement has thrown: the memory of slots is accounted for by a row or a tick on its way to write it, and every
  running row has a round or the tick that claimed it.
- **Retention.** `RetentionInv` joins three parts. `CopyPart`: the asset an archiver is busy with has not been recorded as archived, so no archiver ever rewrites a file a cleaner relies on; this is where one archiver is needed. `CleanPart`: what a cleaner has verified and not yet deleted is archived and good. `LocalPart`: every
  finished asset is local or archived. With an untouched NAS, `IntactPart`: archived files are good. `WindowPart`: no window starts after today nor after the date of a round in progress, since that date is the window's next start; with two archivers of one
  meeting the slower would move it back. `PauseIsHeeded` needs the cleaners' types only: the switch is read in the step that begins to delete.
- **Download.** `CompletedFileHonest` compares a row with a file, and nothing in either says that the file has no holes. `Honest` follows both files along with the slot: nobody but the claimant runs (`Alone`), the `.part` file is without holes (`Solid`), and at
  each await the slot knows how long it is (`Progress`): the offset of a request is its size, an answer never reaches beyond the length of the version it was linked to, a hashed file is as long as was counted and, where a size was announced when the row was claimed, as long as that; and if the last body was not cut short (`short`), as long as the object. While no
  object was replaced there is one version that every link and every cell comes from (`Only`), which a slot that dies leaves behind for the next one. All of it holds until two slots have the row together, and no longer (`overlapped`).
- **Probes.** A verdict is written long after it was reached, so `ProbeInv` speaks of what is still to be written: every statement in a host's `todo` is sound in the world as it is now (`Sound`), a probe is resolved behind an upsert of its kind (`Resolvable`), and a listing in a host's hands that
  shows a video without its audio shows what will stay so (`NeverComes`). The verdicts outlive their listings because what they claim is never undone (`Later`, `TruthStays`): time goes on, rows stay, and an audio that was not published with its video never is. That a
  probe waits for the right moment (`DeadlineKept`) makes a timeout true.
- **Directories.** A directory is named by how many recordings of the same minute came before, so a path is right only if nobody who comes later counts. `Settled` says that the table agrees with the platform (`TableFollows`), that a round's names are those the table gives now (`NamesHold`), that
  finished and running rows are at their place and the disk has them there (`PathsHold`, `FilesThere`), that what a round finds is created after everything that has a name (`FoundLater`), and that of two rounds only one finds anything (`RoundsApart`). The last two make ordinals stable:
  a new recording comes last in its minute (`PlaceKept`), and different recordings have different places (`PlacesDiffer`, by counting). A corrected start time (`edited`) and a round that another's discovery has overtaken (`crossed`) end it.
- **Failure items.** `MirrorInv` says what a round remembers of its list at each of its statements (`RoundRemembers`, `RoundSoFar`), and that a console request that will still close an item has acted on its rows (`ClosersAreAnswered`).
- **Sign-in.** In three parts: whose the sessions are (`OwnersInv`: a token, an answer or a request on its way is traced to a person who authorized its code, and ids are given in order), which tokens of a family live (`TokensInv`: of a family
  that was not raced one at most is unused), and when a program's tokens end (`ProgramsInv`).
- **Accounts.** `SessionsInv`: a request carries the account and the session it found, with what the code has tested of them (`DesksHold`), and ids are not given twice. `AdminsInv`: as long as no two removals overlapped, at most one request is past its
  check that somebody remains, and somebody other than its target does.
- **Gate.** What a request has read is stated by `CallHolds` as an operator of the record, the history, the clock and the log: the facts, the archive state and the scopes it has read stood at some moment since the request came in, and so did rules that let through of those facts what the request takes for allowed. The history has a mark for each row and only grows (what stands now is marked now: `HeldInv`), so one lemma (`StoodAsked`) carries it through every step of anybody
  else. `TokensHold` ties an address to the last moment of its conditions; `AutoHolds` says what a round may still write (`Unwritten`): nothing revoked before it, nothing active before it but what was revoked since. `InventoryWithinGate` needs of the tables their types, and of the stacks `RulesAssumption`: on a sheet with gaps a stack lets through nothing or what it would on the gate's sheet, which agrees with it (`RuledAssets`); overrides and grants do to both the same.
- **Limits.** The queue `granted` is the end of the log of grants, and what has left its front is a full window old (`ShiftedIsEnd`, `GrantLogged`); so the grant that makes one more than the quota is a window later than the first of them. A login bucket that
  was swept away is one that would be full by now, and an absent bucket counts as full.
- **Rules.** A test whose fact is known, or which is broken, stays what it is when facts come in (`TestStays`). Hence a rule that hits goes on hitting (`HitsStay`), one that neither hits nor is undecidable never will (`MissesStay`), and of an undecidable one the missing facts
  may be filled in either way (`GapsMatter`). Every non-empty set of rules has exactly one that comes before the others (`FirstExists`, `FirstFound`), so that a decision is what the first rule says at which the walk stops; filling in facts only removes stops behind it.
  `DeskInv` keeps ids below `nextRule` and what is being patched a patch; `RulesChange` lists the three ways in which a step changes the table.
- **Preview.** For complete facts no rule is undecidable, so that both walks stop at the rules that hit; outside the scope these are the same rows (`Unmoved`), so that a scanned meeting of which none of the three lists speaks is decided alike by the same rule. The preview's candidate is the table that saving leads to, except that a new rule has `DraftId` for its id:
  without ties it comes before and behind the same rules (`CandidateOfNew`).

- **Runs.** `clients`, `office` and `engine` narrow their components by foci and bounds. That they only narrow them is a theorem: each step of the run is a step of one component and stutters for the others, so that what is proved of
  a component for every value of its constants is proved of its part of the run, the type invariants of the compositions included. In `refreshes` signing in begins with a token that was issued (`Issued`), which satisfies its invariant (`IssuedInv`).

Theorems named in this table whose property no run checks by that name (`CliTokenNamesHolder`, `CliLeaseFloor`, `SingleTickGuardExact`) say what the checked `QueueInv` and `NoOverlap` rest on.

Where an attempt to prove something failed for a good reason, the model or the property was corrected: a first `AnswersHeld`, which asked for one moment at which everything stood and which the run was too small to refute, and the old gap property, which excluded statements that throw by the choice of a view, and is now a property of all executions (`OnlyFaultsLeaveGaps`).
The initial state of the focus `refreshes` gave every device code but the bound one an owner without an authorization, which no execution reaches and only the choice of one code hid; `IssuedInv` could not be proved until it was corrected.
`Downloader` assumed less of its markers than it used: `Gone` and `Hole` are no versions, `NoFile` is no file.

Only model-checked:

- liveness (`EveryAssetSettles`, `QueuedRunsTaken`, `CompletedGetsArchived`, `SettledGetsWindow`, `ProbesEnd`): TLAPS as installed has neither ENABLED nor fairness.

Every invariant and every action property of the runs that pass is stated by a theorem; what a theorem assumes beyond the constants' assumptions is in the table.

Induction over data and recursive operators are out of the prover's reach too; the modules have no recursive operator, so that each can be proved about.

`ASSUME`s of the modules only type the constants, ask that numbers the code divides by or counts down from be positive, that recordings and files of a meeting be finitely many and no kind be without files, that an absent value differ from the present ones, say what a stack of rules lets through on a sheet with gaps (`RulesAssumption`, which `VerdictsAreExact` of `RuleDesk` justifies), and order the times that the code's configuration orders (a short session ends before a long one is due for renewal). TLC evaluates them in every run.

## What is not modelled

Left out inside the modelled parts:

- What the five jobs do inside a round is not part of `JobScheduler`: `Discovery`, `AssetQueue`, `Downloader`, `FailureMirror`, `ArchiveRetention` and `AccessGate` (automatic grants) have it, each against its own tables. The composition with `JobScheduler` is by its outcome only: a round returns, throws or reports failures.
- Two archivers at a time (the scheduler's round and a one-shot worker's): both truncate the same NAS file. `ArchiveRetention` and its theorems assume one.
- The archive directory that an archive rule may name, the reordering of rules in the console (it sends patches), hit counts.
- The worker's command line and its tape (the listing it keeps to save a second call), `bytes_written` of late checkpoints, the sidecars' contents, the characters of file names.

Parts left out, and why the map covers a small share of the repository's lines:

- The **console's user interface** (`console/src`, `console/scripts`) is the largest part of the repository; it renders what the gateway answers and keeps no state of the system.
- **Console queries** (`src/store/console-meetings.ts`, most of `http/handlers/console`), **contents index** and **media** read, aggregate and format; nothing is decided from what they return.
- **Records cache** and **catalog**: upserts; `AccessGate` (`cached`, `Recache`, `Discover`) and `RuleDesk` (`Backfill`) have their effect.
- **Audit log**: one append after each action, which no code reads to decide. Where its order matters (`LedgerInOrder`) it is in `AccessGate`.
- **Migrations and scripts** (`migrations`, `scripts`, among them `split-recurring-meetings.ts`): run once, by hand, on a stopped system.
- **CLI**: parses arguments and calls the engine; its effect on the queue is in `AssetQueue`.
- Formatting, logging, HTTP routing, argument checks and configuration inside the modelled files.

## The plan

Done: all modules above, model-checked; proofs about every module, with the refinement of `AssetQueue`, and about what the composed runs run.

To come:

1. Two archivers in `ArchiveRetention`, with the file lock that the code lacks as the finding.
2. The jobs inside `JobScheduler`'s rounds, in place of a round's outcome.
