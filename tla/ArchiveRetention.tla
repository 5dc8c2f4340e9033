-------------------------- MODULE ArchiveRetention --------------------------
(***************************************************************************)
(* Where the bytes of a meeting are: the local archive directory, the NAS, *)
(* and what archived_assets and meeting_archives say about them.           *)
(*                                                                         *)
(* An archiver (worker/archive.ts) copies finished downloads to the NAS,   *)
(* reads them back, and opens the meeting's retention window when nothing  *)
(* is left in flight.  A cleaner (worker/retention.ts) deletes the local   *)
(* copies of meetings whose window is over.  The scheduler runs both, the  *)
(* console can start a cleaner too, and the console changes the window and *)
(* the pause switch while they run.                                        *)
(*                                                                         *)
(* The content of a NAS file is abstracted to whether it is the downloaded *)
(* content ("good"), another one ("bad"), or the beginning of a copy.  The *)
(* recorded nas_hash is the hash of the good content, so comparing hashes  *)
(* is asking whether the file is good.  The clock counts days.             *)
(***************************************************************************)
EXTENDS Integers, FiniteSets

CONSTANTS
  Assets, Meetings,
  MeetingOf,      \* [Assets -> Meetings]
  Skipped,        \* meetings the archive rules decide not to archive
  Archivers,      \* rounds of archivePendingMeetings that may run together
  Cleaners,       \* calls of executeCleanup that may run together
  RetentionDays,  \* default_retention_days
  MaxClock,       \* bound: the clock stops there
  FaultBound,     \* bound: failed or bad copies, failed statements, crashes
  RotBound,       \* bound: NAS files changed from outside
  ExtendBound     \* bound: extensions of a window

ASSUME RetentionAssumption ==
  /\ MeetingOf \in [Assets -> Meetings]
  /\ Skipped \subseteq Meetings
  /\ RetentionDays \in Nat \ {0}
  /\ MaxClock \in Nat /\ FaultBound \in Nat /\ RotBound \in Nat /\ ExtendBound \in Nat

VARIABLES
  clock,
  status,     \* meeting_assets.status, as far as archiving looks at it
  local,      \* assets whose file is in the local archive directory
  nas,        \* content of the NAS file of an asset
  archived,   \* assets with a row in archived_assets
  record,     \* meeting_archives: [Meetings -> row]
  paused,     \* system_settings.cleanup_paused
  archiver,   \* [Archivers -> state of a round]
  cleaner,    \* [Cleaners -> state of a round]
  extending,  \* meetings whose extension request has passed its check
  faults, rots, extensions   \* counters of the bounds

disk == <<local, nas>>
tables == <<archived, record, paused>>
bounds == <<faults, rots, extensions>>
vars == <<clock, status, disk, tables, archiver, cleaner, extending, bounds>>

Statuses == {"absent", "in_flight", "completed", "missing"}
Contents == {"none", "partial", "good", "bad"}
NoRecord == [exists |-> FALSE, at |-> 0, extended |-> 0, purged |-> FALSE]
NoMeeting == "no meeting"
NoAsset == "no asset"
ArchiverIdle == [pc |-> "idle", pending |-> {}, meeting |-> NoMeeting, todo |-> {},
                 asset |-> NoAsset, newly |-> FALSE, now |-> 0]
CleanerIdle == [pc |-> "idle", now |-> 0, candidates |-> {}, meeting |-> NoMeeting,
                files |-> {}, left |-> {}]

MeetingRecords == [exists: BOOLEAN, at: Nat, extended: Nat, purged: BOOLEAN]
ArchiverPCs == {"idle", "next", "asset", "copy", "copying", "hash", "record", "progress",
                "find", "upsert"}
ArchiverStates == [pc: ArchiverPCs, pending: SUBSET Meetings,
                   meeting: Meetings \cup {NoMeeting}, todo: SUBSET Assets,
                   asset: Assets \cup {NoAsset}, newly: BOOLEAN, now: Nat]
CleanerPCs == {"idle", "list", "next", "load", "verify", "recheck", "delete", "mark"}
CleanerStates == [pc: CleanerPCs, now: Nat, candidates: SUBSET Meetings,
                  meeting: Meetings \cup {NoMeeting},
                  files: SUBSET Assets, left: SUBSET Assets]

TypeOK ==
  /\ clock \in 0..MaxClock
  /\ status \in [Assets -> Statuses]
  /\ local \subseteq Assets
  /\ nas \in [Assets -> Contents]
  /\ archived \subseteq Assets
  /\ record \in [Meetings -> MeetingRecords]
  /\ paused \in BOOLEAN
  /\ archiver \in [Archivers -> ArchiverStates]
  /\ cleaner \in [Cleaners -> CleanerStates]
  /\ extending \subseteq Meetings
  /\ faults \in Nat /\ rots \in Nat /\ extensions \in Nat

\* Any part of what the bounds allow may be left to happen.
Init ==
  /\ clock = 0
  /\ status = [a \in Assets |-> "absent"]
  /\ local = {}
  /\ nas = [a \in Assets |-> "none"]
  /\ archived = {}
  /\ record = [m \in Meetings |-> NoRecord]
  /\ paused = FALSE
  /\ archiver = [w \in Archivers |-> ArchiverIdle]
  /\ cleaner = [c \in Cleaners |-> CleanerIdle]
  /\ extending = {}
  /\ faults \in 0..FaultBound /\ rots \in 0..RotBound /\ extensions \in 0..ExtendBound

AssetsOf(m) == {a \in Assets : MeetingOf[a] = m}
CompletedOf(m) == {a \in AssetsOf(m) : status[a] = "completed"}
ArchivedOf(m) == archived \cap AssetsOf(m)

Fault == faults < FaultBound /\ faults' = faults + 1 /\ UNCHANGED <<rots, extensions>>

-----------------------------------------------------------------------------
\* The download queue, as AssetQueue describes it: a row appears at any time,
\* ends completed with its file on disk or missing (skipped, dead), and a dead
\* row may be reopened.

Download(a) ==
  /\ \/ /\ status[a] \in {"absent", "missing"}
        /\ status' = [status EXCEPT ![a] = "in_flight"] /\ UNCHANGED local
     \/ /\ status[a] = "in_flight"
        /\ status' = [status EXCEPT ![a] = "completed"] /\ local' = local \cup {a}
     \/ /\ status[a] = "in_flight"
        /\ status' = [status EXCEPT ![a] = "missing"] /\ UNCHANGED local
  /\ UNCHANGED <<clock, nas, tables, archiver, cleaner, extending, bounds>>

-----------------------------------------------------------------------------
\* The archiver

\* Mutant: a meeting whose window is open is not looked at again.
NeedingArchiveOnlyNew == {m \in Meetings : CompletedOf(m) # {} /\ ~record[m].exists}

\* Mutant: only meetings with something left to copy are listed.
NeedingArchiveForgetsRecord ==
  {m \in Meetings : CompletedOf(m) # {} /\ Cardinality(CompletedOf(m)) > Cardinality(ArchivedOf(m))}

\* listMeetingsNeedingArchive: something left to copy, or no window opened yet.
NeedingArchive ==
  {m \in Meetings : /\ CompletedOf(m) # {}
                    /\ \/ Cardinality(CompletedOf(m)) > Cardinality(ArchivedOf(m))
                       \/ ~record[m].exists}

Archive(w, change) == archiver' = [archiver EXCEPT ![w] = change]
ArchiverOnly == UNCHANGED <<clock, status, cleaner, extending>>

StartArchive(w) ==
  /\ archiver[w].pc = "idle"
  /\ Archive(w, [ArchiverIdle EXCEPT !.pc = "next", !.pending = NeedingArchive])
  /\ ArchiverOnly /\ UNCHANGED <<disk, tables, bounds>>

\* archiveMeeting: the rules decide, then the finished downloads are listed.
NextMeeting(w) ==
  LET r == archiver[w] IN
  /\ r.pc = "next"
  /\ IF r.pending = {}
       THEN Archive(w, ArchiverIdle)
       ELSE \E m \in r.pending :
              Archive(w, IF m \in Skipped
                           THEN [r EXCEPT !.pending = @ \ {m}]
                           ELSE [ArchiverIdle EXCEPT !.pc = "asset", !.meeting = m,
                                   !.pending = r.pending \ {m},
                                   !.todo = CompletedOf(m), !.now = clock])
  /\ ArchiverOnly /\ UNCHANGED <<disk, tables, bounds>>

\* isAssetArchived, for the next asset of the list.
NextAsset(w) ==
  LET r == archiver[w] IN
  /\ r.pc = "asset"
  /\ IF r.todo = {}
       THEN Archive(w, [r EXCEPT !.pc = "progress"])
       ELSE \E a \in r.todo :
              Archive(w, IF a \in archived
                           THEN [r EXCEPT !.todo = @ \ {a}]
                           ELSE [r EXCEPT !.pc = "copy", !.asset = a, !.todo = @ \ {a}])
  /\ ArchiverOnly /\ UNCHANGED <<disk, tables, bounds>>

\* A thrown error ends the meeting, not the round.
GiveUpMeeting(w) ==
  Archive(w, [ArchiverIdle EXCEPT !.pc = "next", !.pending = archiver[w].pending])

\* archiveOneAsset: hash the local file, then open the NAS file for writing,
\* which truncates what was there.  A local file that is gone throws.
BeginCopy(w) ==
  LET r == archiver[w] IN
  /\ r.pc = "copy"
  /\ IF r.asset \in local
       THEN /\ nas' = [nas EXCEPT ![r.asset] = "partial"]
            /\ Archive(w, [r EXCEPT !.pc = "copying"])
       ELSE GiveUpMeeting(w) /\ UNCHANGED nas
  /\ ArchiverOnly /\ UNCHANGED <<local, tables, bounds>>

EndCopy(w) ==
  LET r == archiver[w] IN
  /\ r.pc = "copying"
  /\ Archive(w, [r EXCEPT !.pc = "hash"])
  /\ \/ nas' = [nas EXCEPT ![r.asset] = "good"] /\ UNCHANGED bounds
     \/ nas' = [nas EXCEPT ![r.asset] = "bad"] /\ Fault
  /\ ArchiverOnly /\ UNCHANGED <<local, tables>>

\* The NAS file is read back; a mismatch leaves the asset for a later round.
HashCopy(w) ==
  LET r == archiver[w] IN
  /\ r.pc = "hash"
  /\ Archive(w, [r EXCEPT !.pc = IF nas[r.asset] = "good" THEN "record" ELSE "asset"])
  /\ ArchiverOnly /\ UNCHANGED <<disk, tables, bounds>>

\* recordArchivedAsset is a plain INSERT: a second row for the key throws.
RecordAsset(w) ==
  LET r == archiver[w] IN
  /\ r.pc = "record"
  /\ IF r.asset \in archived
       THEN GiveUpMeeting(w) /\ UNCHANGED archived
       ELSE /\ archived' = archived \cup {r.asset}
            /\ Archive(w, [r EXCEPT !.pc = "asset", !.newly = TRUE])
  /\ ArchiverOnly /\ UNCHANGED <<disk, record, paused, bounds>>

\* countArchiveProgress and the judgement made of it.
FullyArchived(m) ==
  /\ CompletedOf(m) # {} /\ Cardinality(CompletedOf(m)) = Cardinality(ArchivedOf(m))
  /\ \A a \in AssetsOf(m) : status[a] # "in_flight"

Progress(w) ==
  LET r == archiver[w] IN
  /\ r.pc = "progress"
  /\ IF FullyArchived(r.meeting)
       THEN Archive(w, [r EXCEPT !.pc = IF r.newly THEN "upsert" ELSE "find"])
       ELSE GiveUpMeeting(w)
  /\ ArchiverOnly /\ UNCHANGED <<disk, tables, bounds>>

FindRecord(w) ==
  LET r == archiver[w] IN
  /\ r.pc = "find"
  /\ IF record[r.meeting].exists
       THEN GiveUpMeeting(w)
       ELSE Archive(w, [r EXCEPT !.pc = "upsert"])
  /\ ArchiverOnly /\ UNCHANGED <<disk, tables, bounds>>

\* Mutant: a refreshed record counts as never cleaned, and never extended.
UpsertRecordOver(w) ==
  LET r == archiver[w] IN
  /\ r.pc = "upsert"
  /\ record' = [record EXCEPT ![r.meeting] = [NoRecord EXCEPT !.exists = TRUE, !.at = r.now]]
  /\ GiveUpMeeting(w)
  /\ ArchiverOnly /\ UNCHANGED <<disk, archived, paused, bounds>>

\* upsertMeetingArchive: the window starts at the time the meeting was taken up.
\* On an existing row extended_days and local_purged_at stay what they are.
UpsertRecord(w) ==
  LET r == archiver[w] IN
  /\ r.pc = "upsert"
  /\ record' = [record EXCEPT ![r.meeting].exists = TRUE, ![r.meeting].at = r.now]
  /\ GiveUpMeeting(w)
  /\ ArchiverOnly /\ UNCHANGED <<disk, archived, paused, bounds>>

\* A copy hangs or a statement fails: the meeting is given up.  The process
\* dies: the round is.
ArchiverFails(w) ==
  /\ archiver[w].pc \notin {"idle", "next"}
  /\ Fault
  /\ GiveUpMeeting(w) \/ Archive(w, ArchiverIdle)
  /\ ArchiverOnly /\ UNCHANGED <<disk, tables>>

ArchiverStep(w) ==
  \/ StartArchive(w) \/ NextMeeting(w) \/ NextAsset(w) \/ BeginCopy(w) \/ EndCopy(w)
  \/ HashCopy(w) \/ RecordAsset(w) \/ Progress(w) \/ FindRecord(w) \/ UpsertRecord(w)

-----------------------------------------------------------------------------
\* The cleaner

Clean(c, change) == cleaner' = [cleaner EXCEPT ![c] = change]
CleanerOnly == UNCHANGED <<clock, status, nas, archived, paused, archiver, extending>>

ExpiresAt(m) == record[m].at + RetentionDays + record[m].extended

StartCleanup(c) ==
  /\ cleaner[c].pc = "idle"
  /\ ~paused
  /\ Clean(c, [CleanerIdle EXCEPT !.pc = "list", !.now = clock])
  /\ CleanerOnly /\ UNCHANGED <<local, record, bounds>>

\* expiredCandidates: strictly past the end of the window.
ExpiredCandidates(now) ==
  {m \in Meetings : record[m].exists /\ ~record[m].purged /\ ExpiresAt(m) < now}

ListExpired(c) ==
  LET r == cleaner[c] IN
  /\ r.pc = "list"
  /\ Clean(c, [r EXCEPT !.pc = "next", !.candidates = ExpiredCandidates(r.now)])
  /\ CleanerOnly /\ UNCHANGED <<local, record, bounds>>

\* The switch is read again before every candidate.
NextCandidate(c) ==
  LET r == cleaner[c] IN
  /\ r.pc = "next"
  /\ IF paused \/ r.candidates = {}
       THEN Clean(c, CleanerIdle)
       ELSE \E m \in r.candidates :
              Clean(c, [r EXCEPT !.pc = "load", !.meeting = m, !.candidates = @ \ {m}])
  /\ CleanerOnly /\ UNCHANGED <<local, record, bounds>>

\* Mutant: the files to delete are the finished downloads.
LoadArchivedCompleted(c) ==
  LET r == cleaner[c] IN
  /\ r.pc = "load"
  /\ Clean(c, [r EXCEPT !.pc = "verify", !.files = CompletedOf(r.meeting),
                        !.left = ArchivedOf(r.meeting)])
  /\ CleanerOnly /\ UNCHANGED <<local, record, bounds>>

\* cleanupOneMeeting: one list serves the verification and the deletion.
LoadArchived(c) ==
  LET r == cleaner[c] IN
  /\ r.pc = "load"
  /\ Clean(c, [r EXCEPT !.pc = "verify", !.files = ArchivedOf(r.meeting),
                        !.left = ArchivedOf(r.meeting)])
  /\ CleanerOnly /\ UNCHANGED <<local, record, bounds>>

LeaveMeeting(c) ==
  Clean(c, [CleanerIdle EXCEPT !.pc = "next", !.now = cleaner[c].now,
                               !.candidates = cleaner[c].candidates])

\* Mutant: a NAS file that cannot be read, or is another one, is passed over.
VerifyNasCopyLenient(c) ==
  LET r == cleaner[c] IN
  /\ r.pc = "verify"
  /\ IF r.left = {}
       THEN Clean(c, [r EXCEPT !.pc = "recheck", !.left = r.files])
       ELSE \E a \in r.left : Clean(c, [r EXCEPT !.left = @ \ {a}])
  /\ CleanerOnly /\ UNCHANGED <<local, record, bounds>>

\* verifyNasCopies: one mismatch and nothing of the meeting is deleted.
VerifyNasCopy(c) ==
  LET r == cleaner[c] IN
  /\ r.pc = "verify"
  /\ IF r.left = {}
       THEN Clean(c, [r EXCEPT !.pc = "recheck", !.left = r.files])
       ELSE \E a \in r.left :
              IF nas[a] = "good"
                THEN Clean(c, [r EXCEPT !.left = @ \ {a}])
                ELSE LeaveMeeting(c)
  /\ CleanerOnly /\ UNCHANGED <<local, record, bounds>>

\* Mutant: the switch is not read again after the verification.
RecheckPauseDropped(c) ==
  LET r == cleaner[c] IN
  /\ r.pc = "recheck"
  /\ Clean(c, [r EXCEPT !.pc = "delete"])
  /\ CleanerOnly /\ UNCHANGED <<local, record, bounds>>

\* The last thing before the first deletion is to read the switch once more.
RecheckPause(c) ==
  LET r == cleaner[c] IN
  /\ r.pc = "recheck"
  /\ Clean(c, IF paused THEN CleanerIdle ELSE [r EXCEPT !.pc = "delete"])
  /\ CleanerOnly /\ UNCHANGED <<local, record, bounds>>

\* rm with force: a file that is gone already is no error.
DeleteLocal(c) ==
  LET r == cleaner[c] IN
  /\ r.pc = "delete"
  /\ IF r.left = {}
       THEN Clean(c, [r EXCEPT !.pc = "mark"]) /\ UNCHANGED local
       ELSE \E a \in r.left :
              /\ local' = local \ {a}
              /\ Clean(c, [r EXCEPT !.left = @ \ {a}])
  /\ CleanerOnly /\ UNCHANGED <<record, bounds>>

MarkLocalPurged(c) ==
  /\ cleaner[c].pc = "mark"
  /\ record' = [record EXCEPT ![cleaner[c].meeting].purged = TRUE]
  /\ LeaveMeeting(c)
  /\ CleanerOnly /\ UNCHANGED <<local, bounds>>

\* rm or a statement fails in a meeting: the next candidate.  The list or the
\* switch cannot be read, or the process dies: the round ends.
CleanerFails(c) ==
  /\ cleaner[c].pc # "idle"
  /\ Fault
  /\ \/ cleaner[c].pc \notin {"list", "next"} /\ LeaveMeeting(c)
     \/ Clean(c, CleanerIdle)
  /\ CleanerOnly /\ UNCHANGED <<local, record>>

CleanerStep(c) ==
  \/ StartCleanup(c) \/ ListExpired(c) \/ NextCandidate(c) \/ LoadArchived(c)
  \/ VerifyNasCopy(c) \/ RecheckPause(c) \/ DeleteLocal(c) \/ MarkLocalPurged(c)

-----------------------------------------------------------------------------
\* The console, the NAS and the clock

SetPaused(value) ==
  /\ paused # value
  /\ paused' = value
  /\ UNCHANGED <<clock, status, disk, archived, record, archiver, cleaner, extending, bounds>>

\* extendMeetingRetention answers 409 when the local files are gone already ...
CheckExtension(m) ==
  /\ record[m].exists /\ ~record[m].purged
  /\ m \notin extending
  /\ extensions < ExtendBound
  /\ extensions' = extensions + 1
  /\ extending' = extending \cup {m}
  /\ UNCHANGED <<clock, status, disk, tables, archiver, cleaner, faults, rots>>

\* Mutant: the days are taken off.
ExtendRetentionTakesDays(m) ==
  /\ m \in extending
  /\ extending' = extending \ {m}
  /\ record' = [record EXCEPT ![m].extended = @ - 1]
  /\ UNCHANGED <<clock, status, disk, archived, paused, archiver, cleaner, bounds>>

\* ... and then adds the days, with no further condition.
ExtendRetention(m) ==
  /\ m \in extending
  /\ extending' = extending \ {m}
  /\ record' = [record EXCEPT ![m].extended = @ + 1]
  /\ UNCHANGED <<clock, status, disk, archived, paused, archiver, cleaner, bounds>>

\* A file on the NAS is changed from outside while it is not being checked.
NasRots(a) ==
  /\ rots < RotBound
  /\ nas[a] = "good"
  /\ \A c \in Cleaners : a \notin cleaner[c].files
  /\ nas' = [nas EXCEPT ![a] = "bad"]
  /\ rots' = rots + 1
  /\ UNCHANGED <<clock, status, local, tables, archiver, cleaner, extending, faults, extensions>>

Advance ==
  /\ clock < MaxClock
  /\ clock' = clock + 1
  /\ UNCHANGED <<status, disk, tables, archiver, cleaner, extending, bounds>>

Next ==
  \/ \E a \in Assets : Download(a) \/ NasRots(a)
  \/ \E w \in Archivers : ArchiverStep(w) \/ ArchiverFails(w)
  \/ \E c \in Cleaners : CleanerStep(c) \/ CleanerFails(c)
  \/ \E p \in BOOLEAN : SetPaused(p)
  \/ \E m \in Meetings : CheckExtension(m) \/ ExtendRetention(m)
  \/ Advance

Spec == Init /\ [][Next]_vars

\* Archive and cleanup rounds keep being run and time passes.
Fairness ==
  /\ WF_vars(Advance)
  /\ \A w \in Archivers : WF_vars(ArchiverStep(w))
  /\ \A c \in Cleaners : WF_vars(CleanerStep(c))

FairSpec == Spec /\ Fairness

-----------------------------------------------------------------------------
(***************************************************************************)
(* Properties                                                              *)
(***************************************************************************)

\* A downloaded asset is never lost: while nobody tampers with the NAS, a file
\* that is not on the local disk is intact on the NAS, whatever copies failed,
\* whichever rounds died and however rounds interleave.
NothingLost ==
  \A a \in Assets : status[a] = "completed" /\ a \notin local => nas[a] = "good"

\* The local copy is deleted only while the NAS copy is the downloaded content,
\* even when the NAS file was changed between archiving and expiry.
DeletesOnlyVerified ==
  [][\A a \in local \ local' : a \in archived /\ nas[a] = "good"]_vars

\* No meeting begins to be deleted while cleanup is paused; one whose deletion
\* has begun is finished.
PauseStopsDeletion ==
  [][paused => \A c \in Cleaners : cleaner'[c].pc = "delete" => cleaner[c].pc = "delete"]_vars

\* local_purged_at says that the local files are gone.
PurgedMeansGone ==
  \A m \in Meetings : record[m].purged => local \cap ArchivedOf(m) = {}

\* Archiving a late asset again moves archived_at forward and keeps the days an
\* administrator added, even when the addition lands in the middle of the round:
\* at a given default_retention_days a window never ends earlier than it did.
WindowNeverShrinks ==
  [][\A m \in Meetings :
       record[m].exists => /\ record'[m].at >= record[m].at
                           /\ record'[m].extended >= record[m].extended]_vars

\* A finished download reaches the NAS, also when it arrives after the meeting
\* was archived or even cleaned, and whatever copies failed before.
CompletedGetsArchived ==
  \A a \in Assets :
    status[a] = "completed" /\ MeetingOf[a] \notin Skipped ~> a \in archived

SettledMeeting(m) ==
  /\ m \notin Skipped /\ CompletedOf(m) # {}
  /\ \A a \in AssetsOf(m) : status[a] # "in_flight"

\* A meeting with nothing left in flight gets its window, also when its last
\* asset was given up and no round has anything to copy for it.
SettledGetsWindow ==
  \A m \in Meetings : SettledMeeting(m) ~> (record[m].exists \/ ~SettledMeeting(m))
=============================================================================
