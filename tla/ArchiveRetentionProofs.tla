----------------------- MODULE ArchiveRetentionProofs -----------------------
(***************************************************************************)
(* Proofs about ArchiveRetention for any meetings, assets and cleaners,    *)
(* any retention period, and any number of failed copies, dead rounds and  *)
(* extensions.  They are about one archiving round at a time: the overlap  *)
(* guard of the scheduler is there for that.                               *)
(***************************************************************************)
EXTENDS ArchiveRetention, TLAPS

OneArchiver == \A w, u \in Archivers : w = u

Copying == {"copy", "copying", "hash", "record"}

\* The asset a round is busy with has not been recorded: nobody else records it.
CopyPart ==
  \A w \in Archivers : archiver[w].pc \in Copying =>
    archiver[w].asset \in Assets /\ archiver[w].asset \notin archived

\* What a cleaner holds has been recorded, and what it has checked is good.
CleanPart ==
  \A c \in Cleaners :
    /\ cleaner[c].files \subseteq archived /\ cleaner[c].left \subseteq cleaner[c].files
    /\ cleaner[c].pc = "verify" =>
         \A a \in cleaner[c].files \ cleaner[c].left : nas[a] = "good"
    /\ cleaner[c].pc \in {"recheck", "delete", "mark"} =>
         \A a \in cleaner[c].files : nas[a] = "good"

\* A download that is not on the local disk has been recorded.
LocalPart == \A a \in Assets : status[a] = "completed" /\ a \notin local => a \in archived

RetentionInv == TypeOK /\ CopyPart /\ CleanPart /\ LocalPart

-----------------------------------------------------------------------------
\* The fields of an archiver's state, and the states it moves to.
LEMMA ArchiverFields ==
  ASSUME NEW r \in ArchiverStates
  PROVE  /\ r.pending \in SUBSET Meetings /\ r.meeting \in Meetings \cup {NoMeeting}
         /\ r.todo \in SUBSET Assets /\ r.asset \in Assets \cup {NoAsset}
         /\ r.newly \in BOOLEAN /\ r.now \in Nat
         /\ \A pc \in ArchiverPCs :
              /\ [r EXCEPT !.pc = pc] \in ArchiverStates
              /\ [r EXCEPT !.pc = pc].pc = pc /\ [r EXCEPT !.pc = pc].asset = r.asset
  BY DEF ArchiverStates

\* The idle archiver, and the archiver between two meetings, are well typed.
LEMMA ArchiverRests ==
  /\ ArchiverIdle \in ArchiverStates /\ ArchiverIdle.pc = "idle"
  /\ \A P \in SUBSET Meetings :
       LET x == [ArchiverIdle EXCEPT !.pc = "next", !.pending = P]
       IN  x \in ArchiverStates /\ x.pc = "next"
  BY DEF ArchiverIdle, ArchiverStates, ArchiverPCs

\* A step of the archiver that writes no NAS file and records no asset.
LEMMA ArchiverMoves ==
  ASSUME RetentionInv, OneArchiver, NEW w \in Archivers, NEW x \in ArchiverStates,
         Archive(w, x), ArchiverOnly,
         UNCHANGED <<disk, archived, paused>>, record' \in [Meetings -> MeetingRecords],
         faults' \in Nat, rots' \in Nat, extensions' \in Nat,
         x.pc \in Copying => x.asset \in Assets /\ x.asset \notin archived
  PROVE  RetentionInv'
  <1>1. archiver' \in [Archivers -> ArchiverStates] /\ archiver'[w] = x
    BY DEF RetentionInv, TypeOK, Archive
  <1>2. TypeOK'
    BY <1>1 DEF RetentionInv, TypeOK, ArchiverOnly, disk
  <1>3. CopyPart'
    BY <1>1 DEF OneArchiver, CopyPart
  <1>4. CleanPart' /\ LocalPart'
    BY DEF RetentionInv, CleanPart, LocalPart, ArchiverOnly, disk
  <1>5. QED  BY <1>2, <1>3, <1>4 DEF RetentionInv

\* Giving a meeting up is such a step.
LEMMA ArchiverGivesUp ==
  ASSUME RetentionInv, OneArchiver, NEW w \in Archivers,
         GiveUpMeeting(w) \/ Archive(w, ArchiverIdle), ArchiverOnly,
         UNCHANGED <<disk, archived, paused>>, record' \in [Meetings -> MeetingRecords],
         faults' \in Nat, rots' \in Nat, extensions' \in Nat
  PROVE  RetentionInv'
  <1>1. archiver[w].pending \in SUBSET Meetings
    BY ArchiverFields DEF RetentionInv, TypeOK
  <1>2. PICK x \in ArchiverStates : Archive(w, x) /\ x.pc \in {"idle", "next"}
    BY <1>1, ArchiverRests DEF GiveUpMeeting
  <1>3. QED  BY <1>2, ArchiverMoves DEF Copying

\* Writing the NAS file of the asset in hand disturbs no cleaner: the asset has
\* not been recorded, and cleaners hold recorded assets.
LEMMA NasWritten ==
  ASSUME RetentionInv, OneArchiver, NEW w \in Archivers, archiver[w].pc \in Copying,
         NEW content \in Contents, nas' = [nas EXCEPT ![archiver[w].asset] = content],
         NEW x \in ArchiverStates, Archive(w, x), x.asset = archiver[w].asset,
         ArchiverOnly, UNCHANGED <<local, tables>>,
         faults' \in Nat, rots' \in Nat, extensions' \in Nat
  PROVE  RetentionInv'
  <1>1. archiver' \in [Archivers -> ArchiverStates] /\ archiver'[w] = x
    BY DEF RetentionInv, TypeOK, Archive
  <1>2. TypeOK'
    BY <1>1 DEF RetentionInv, TypeOK, ArchiverOnly, tables
  <1>3. archiver[w].asset \in Assets /\ archiver[w].asset \notin archived
    BY DEF RetentionInv, CopyPart
  <1>4. CopyPart'
    BY <1>1, <1>3 DEF OneArchiver, CopyPart, tables
  <1>5. \A a \in archived : nas'[a] = nas[a]
    BY <1>3 DEF RetentionInv, TypeOK
  <1>6. CleanPart'
    BY <1>5 DEF RetentionInv, CleanPart, ArchiverOnly, tables
  <1>7. LocalPart'
    BY DEF RetentionInv, LocalPart, ArchiverOnly, tables
  <1>8. QED  BY <1>2, <1>4, <1>6, <1>7 DEF RetentionInv

\* Every step of the archiver preserves the invariant.
LEMMA ArchiverStepInv ==
  ASSUME RetentionInv, OneArchiver, NEW w \in Archivers, ArchiverStep(w) \/ ArchiverFails(w)
  PROVE  RetentionInv'
  <1> DEFINE r == archiver[w]
  <1>1. r \in ArchiverStates
    BY DEF RetentionInv, TypeOK
  <1>2. record \in [Meetings -> MeetingRecords] /\ faults \in Nat /\ rots \in Nat
          /\ extensions \in Nat
    BY DEF RetentionInv, TypeOK
  <1>0. ASSUME NEW pc \in ArchiverPCs, Archive(w, [r EXCEPT !.pc = pc])
        PROVE  \E x \in ArchiverStates : Archive(w, x) /\ x.pc = pc /\ x.asset = r.asset
    <2>1. [r EXCEPT !.pc = pc] \in ArchiverStates /\ [r EXCEPT !.pc = pc].pc = pc
            /\ [r EXCEPT !.pc = pc].asset = r.asset
      BY <1>1, ArchiverFields
    <2>2. QED  BY <1>0, <2>1
  <1>3. CASE StartArchive(w)
    <2>1. NeedingArchive \in SUBSET Meetings
      BY DEF NeedingArchive
    <2>2. PICK x \in ArchiverStates : Archive(w, x) /\ x.pc = "next"
      BY <1>3, <2>1, ArchiverRests DEF StartArchive
    <2>3. QED  BY <1>2, <1>3, <2>2, ArchiverMoves DEF StartArchive, Copying, tables, bounds
  <1>4. CASE NextMeeting(w)
    <2>1. ASSUME NEW m \in r.pending
          PROVE  LET x == [ArchiverIdle EXCEPT !.pc = "asset", !.meeting = m,
                             !.pending = r.pending \ {m}, !.todo = CompletedOf(m), !.now = clock]
                 IN  x \in ArchiverStates /\ x.pc = "asset"
      <3>1. m \in Meetings /\ r.pending \ {m} \in SUBSET Meetings
        BY <1>1, <2>1, ArchiverFields
      <3>2. CompletedOf(m) \in SUBSET Assets
        BY DEF CompletedOf, AssetsOf
      <3>3. clock \in Nat
        BY RetentionAssumption DEF RetentionInv, TypeOK
      <3>4. QED  BY <3>1, <3>2, <3>3 DEF ArchiverIdle, ArchiverStates, ArchiverPCs
    <2>2. ASSUME NEW m \in r.pending
          PROVE  LET x == [r EXCEPT !.pending = @ \ {m}]
                 IN  x \in ArchiverStates /\ x.pc = r.pc
      BY <1>1 DEF ArchiverStates
    <2>3. PICK x \in ArchiverStates : Archive(w, x) /\ x.pc \in {"idle", "asset", "next"}
      <3>1. CASE r.pending = {}
        BY <1>4, <3>1, ArchiverRests DEF NextMeeting
      <3>2. CASE r.pending # {}
        BY <1>4, <2>1, <2>2, <3>2 DEF NextMeeting
      <3>3. QED  BY <3>1, <3>2
    <2>4. QED  BY <1>2, <1>4, <2>3, ArchiverMoves DEF NextMeeting, Copying, tables, bounds
  <1>5. CASE NextAsset(w)
    <2>1. CASE r.todo = {}
      <3>1. PICK x \in ArchiverStates : Archive(w, x) /\ x.pc = "progress"
        BY ZenonT(40), <1>1, <1>5, <2>1, ArchiverFields DEF NextAsset, ArchiverPCs
      <3>2. QED  BY <1>2, <1>5, <3>1, ArchiverMoves DEF NextAsset, Copying, tables, bounds
    <2>2. CASE r.todo # {}
      <3>1. PICK a \in r.todo :
              Archive(w, IF a \in archived
                           THEN [r EXCEPT !.todo = @ \ {a}]
                           ELSE [r EXCEPT !.pc = "copy", !.asset = a, !.todo = @ \ {a}])
        BY <1>5, <2>2 DEF NextAsset
      <3>2. a \in Assets
        BY <1>1, ArchiverFields
      <3>3. CASE a \in archived
        <4>1. [r EXCEPT !.todo = r.todo \ {a}] \in ArchiverStates
                /\ [r EXCEPT !.todo = r.todo \ {a}].pc = "asset"
          BY <1>1, <1>5 DEF NextAsset, ArchiverStates
        <4>2. QED
          BY <1>2, <1>5, <3>1, <3>3, <4>1, ArchiverMoves DEF NextAsset, Copying, tables, bounds
      <3>4. CASE a \notin archived
        <4> DEFINE x == [r EXCEPT !.pc = "copy", !.asset = a, !.todo = r.todo \ {a}]
        <4>1. x \in ArchiverStates /\ x.asset = a
          BY <1>1, <3>2 DEF ArchiverStates, ArchiverPCs
        <4>2. Archive(w, x)
          BY <3>1, <3>4
        <4> HIDE DEF x
        <4>3. QED
          BY <1>2, <1>5, <3>2, <3>4, <4>1, <4>2, ArchiverMoves DEF NextAsset, tables, bounds
      <3>5. QED  BY <3>3, <3>4
    <2>3. QED  BY <2>1, <2>2
  <1>6. CASE BeginCopy(w)
    <2>1. CASE r.asset \in local
      <3>1. PICK x \in ArchiverStates : Archive(w, x) /\ x.asset = r.asset
        BY <1>0, <1>6, <2>1 DEF BeginCopy, ArchiverPCs
      <3>2. QED
        BY <1>2, <1>6, <2>1, <3>1, NasWritten DEF BeginCopy, Copying, Contents, bounds
    <2>2. CASE r.asset \notin local
      BY <1>2, <1>6, <2>2, ArchiverGivesUp DEF BeginCopy, disk, tables, bounds
    <2>3. QED  BY <2>1, <2>2
  <1>7. CASE EndCopy(w)
    <2>1. PICK x \in ArchiverStates : Archive(w, x) /\ x.asset = r.asset
      BY <1>0, <1>7 DEF EndCopy, ArchiverPCs
    <2>2. PICK content \in Contents : nas' = [nas EXCEPT ![r.asset] = content]
      BY <1>7 DEF EndCopy, Contents
    <2>3. faults' \in Nat /\ rots' \in Nat /\ extensions' \in Nat
      BY <1>2, <1>7 DEF EndCopy, Fault, bounds
    <2>4. QED  BY <1>7, <2>1, <2>2, <2>3, NasWritten DEF EndCopy, Copying
  <1>8. CASE HashCopy(w)
    <2>1. PICK x \in ArchiverStates : Archive(w, x) /\ x.asset = r.asset
      <3>1. CASE nas[r.asset] = "good"
        BY <1>0, <1>8, <3>1 DEF HashCopy, ArchiverPCs
      <3>2. CASE nas[r.asset] # "good"
        BY <1>0, <1>8, <3>2 DEF HashCopy, ArchiverPCs
      <3>3. QED  BY <3>1, <3>2
    <2>2. r.asset \in Assets /\ r.asset \notin archived
      BY <1>8 DEF HashCopy, RetentionInv, CopyPart, Copying
    <2>3. QED  BY <1>2, <1>8, <2>1, <2>2, ArchiverMoves DEF HashCopy, tables, bounds
  <1>9. CASE RecordAsset(w)
    <2>1. r.asset \in Assets /\ r.asset \notin archived
      BY <1>9 DEF RecordAsset, RetentionInv, CopyPart, Copying
    <2> DEFINE x == [r EXCEPT !.pc = "asset", !.newly = TRUE]
    <2>2. x \in ArchiverStates /\ x.pc = "asset"
      BY <1>1 DEF ArchiverStates, ArchiverPCs
    <2>3. Archive(w, x) /\ archived' = archived \cup {r.asset}
      BY <1>9, <2>1 DEF RecordAsset
    <2> HIDE DEF x
    <2>4. archiver' \in [Archivers -> ArchiverStates] /\ archiver'[w].pc = "asset"
      BY <2>2, <2>3 DEF RetentionInv, TypeOK, Archive
    <2>5. TypeOK'
      BY <1>9, <2>1, <2>3, <2>4
      DEF RecordAsset, RetentionInv, TypeOK, ArchiverOnly, disk, bounds
    <2>6. CopyPart'
      BY <2>4 DEF OneArchiver, CopyPart, Copying
    <2>7. CleanPart'
      BY <1>9, <2>3 DEF RecordAsset, RetentionInv, CleanPart, ArchiverOnly, disk
    <2>8. LocalPart'
      BY <1>9, <2>3 DEF RecordAsset, RetentionInv, LocalPart, ArchiverOnly, disk
    <2>9. QED  BY <2>5, <2>6, <2>7, <2>8 DEF RetentionInv
  <1>10. CASE Progress(w)
    <2>1. CASE FullyArchived(r.meeting)
      <3>1. PICK x \in ArchiverStates : Archive(w, x) /\ x.pc \in {"upsert", "find"}
        BY ZenonT(40), <1>1, <1>10, <2>1, ArchiverFields DEF Progress, ArchiverPCs
      <3>2. QED  BY <1>2, <1>10, <3>1, ArchiverMoves DEF Progress, Copying, tables, bounds
    <2>2. CASE ~FullyArchived(r.meeting)
      BY <1>2, <1>10, <2>2, ArchiverGivesUp DEF Progress, tables, bounds
    <2>3. QED  BY <2>1, <2>2
  <1>11. CASE FindRecord(w)
    <2>1. CASE record[r.meeting].exists
      BY <1>2, <1>11, <2>1, ArchiverGivesUp DEF FindRecord, tables, bounds
    <2>2. CASE ~record[r.meeting].exists
      <3>1. PICK x \in ArchiverStates : Archive(w, x) /\ x.pc = "upsert"
        BY ZenonT(40), <1>1, <1>11, <2>2, ArchiverFields DEF FindRecord, ArchiverPCs
      <3>2. QED  BY <1>2, <1>11, <3>1, ArchiverMoves DEF FindRecord, Copying, tables, bounds
    <2>3. QED  BY <2>1, <2>2
  <1>12. CASE UpsertRecord(w)
    <2>1. record' \in [Meetings -> MeetingRecords]
      <3>1. r.now \in Nat
        BY <1>1, ArchiverFields
      <3>2. ASSUME NEW v \in MeetingRecords
            PROVE  [v EXCEPT !.exists = TRUE, !.at = r.now] \in MeetingRecords
        BY <3>1 DEF MeetingRecords
      <3>3. record' = [record EXCEPT ![r.meeting] =
                         [record[r.meeting] EXCEPT !.exists = TRUE, !.at = r.now]]
        BY <1>12 DEF UpsertRecord, RetentionInv, TypeOK
      <3>4. QED  BY <1>2, <3>2, <3>3
    <2>2. QED  BY <1>2, <1>12, <2>1, ArchiverGivesUp DEF UpsertRecord, bounds
  <1>13. CASE ArchiverFails(w)
    BY <1>2, <1>13, ArchiverGivesUp DEF ArchiverFails, Fault, tables
  <1>14. QED
    BY <1>3, <1>4, <1>5, <1>6, <1>7, <1>8, <1>9, <1>10, <1>11, <1>12, <1>13 DEF ArchiverStep

-----------------------------------------------------------------------------
\* The fields of a cleaner's state, and the states it moves to.
LEMMA CleanerFields ==
  ASSUME NEW r \in CleanerStates
  PROVE  /\ r.now \in Nat /\ r.candidates \in SUBSET Meetings
         /\ r.meeting \in Meetings \cup {NoMeeting}
         /\ r.files \in SUBSET Assets /\ r.left \in SUBSET Assets
         /\ \A pc \in CleanerPCs :
              LET x == [r EXCEPT !.pc = pc]
              IN  x \in CleanerStates /\ x.pc = pc /\ x.left = r.left /\ x.files = r.files
  BY DEF CleanerStates

\* A cleaner that holds no files: idle, starting, or between two meetings.
LEMMA CleanerRests ==
  /\ CleanerIdle \in CleanerStates /\ CleanerIdle.files = {} /\ CleanerIdle.left = {}
  /\ CleanerIdle.pc = "idle"
  /\ \A n \in Nat : LET x == [CleanerIdle EXCEPT !.pc = "list", !.now = n]
                    IN  x \in CleanerStates /\ x.files = {} /\ x.left = {} /\ x.pc = "list"
  /\ \A n \in Nat, P \in SUBSET Meetings :
       LET x == [CleanerIdle EXCEPT !.pc = "next", !.now = n, !.candidates = P]
       IN  x \in CleanerStates /\ x.files = {} /\ x.left = {} /\ x.pc = "next"
  BY DEF CleanerIdle, CleanerStates, CleanerPCs

\* What may be said of one cleaner's state.
CleanState(x) ==
  /\ x \in CleanerStates
  /\ x.files \subseteq archived /\ x.left \subseteq x.files
  /\ x.pc = "verify" => \A a \in x.files \ x.left : nas[a] = "good"
  /\ x.pc \in {"recheck", "delete", "mark"} => \A a \in x.files : nas[a] = "good"

\* A step of a cleaner that deletes nothing but recorded assets.
LEMMA CleanerMoves ==
  ASSUME RetentionInv, NEW c \in Cleaners, NEW x, CleanState(x), Clean(c, x), CleanerOnly,
         local' \subseteq local, local \ local' \subseteq archived,
         record' \in [Meetings -> MeetingRecords],
         faults' \in Nat, rots' \in Nat, extensions' \in Nat
  PROVE  RetentionInv'
  <1>1. cleaner' = [cleaner EXCEPT ![c] = x] /\ cleaner \in [Cleaners -> CleanerStates]
    BY DEF RetentionInv, TypeOK, Clean
  <1>2. cleaner' \in [Cleaners -> CleanerStates] /\ cleaner'[c] = x
    BY <1>1 DEF CleanState
  <1>3. TypeOK'
    BY <1>2 DEF RetentionInv, TypeOK, CleanerOnly
  <1>4. CopyPart' /\ LocalPart'
    BY DEF RetentionInv, CopyPart, LocalPart, CleanerOnly
  <1>5. CleanPart'
    <2>1. ASSUME NEW d \in Cleaners PROVE CleanState(cleaner'[d])
      <3>1. CASE d = c
        BY <1>2, <3>1
      <3>2. CASE d # c
        BY <1>1, <3>2 DEF RetentionInv, CleanPart, CleanState
      <3>3. QED  BY <3>1, <3>2
    <2>2. UNCHANGED <<archived, nas>>
      BY DEF CleanerOnly
    <2>3. QED  BY <2>1, <2>2 DEF CleanState, CleanPart
  <1>6. QED  BY <1>3, <1>4, <1>5 DEF RetentionInv

\* Leaving a meeting, or the round, is such a step.
LEMMA CleanerLeaves ==
  ASSUME RetentionInv, NEW c \in Cleaners, LeaveMeeting(c) \/ Clean(c, CleanerIdle),
         CleanerOnly, UNCHANGED local, record' \in [Meetings -> MeetingRecords],
         faults' \in Nat, rots' \in Nat, extensions' \in Nat
  PROVE  RetentionInv'
  <1>1. cleaner[c].now \in Nat /\ cleaner[c].candidates \in SUBSET Meetings
    BY CleanerFields DEF RetentionInv, TypeOK
  <1>2. PICK x \in CleanerStates :
          Clean(c, x) /\ x.files = {} /\ x.left = {} /\ x.pc \in {"idle", "next"}
    <2>1. CASE LeaveMeeting(c)
      <3> DEFINE x == [CleanerIdle EXCEPT !.pc = "next", !.now = cleaner[c].now,
                                        !.candidates = cleaner[c].candidates]
      <3>1. x \in CleanerStates /\ x.files = {} /\ x.left = {} /\ x.pc = "next"
        BY ZenonT(40), <1>1, CleanerRests
      <3>2. Clean(c, x)
        BY <2>1 DEF LeaveMeeting
      <3> HIDE DEF x
      <3>3. QED  BY <3>1, <3>2
    <2>2. CASE Clean(c, CleanerIdle)
      BY <2>2, CleanerRests
    <2>3. QED  BY <2>1, <2>2
  <1>3. CleanState(x)
    BY <1>2 DEF CleanState
  <1>4. QED  BY <1>2, <1>3, CleanerMoves

\* Every step of a cleaner preserves the invariant.
LEMMA CleanerStepInv ==
  ASSUME RetentionInv, NEW c \in Cleaners, CleanerStep(c) \/ CleanerFails(c)
  PROVE  RetentionInv'
  <1> DEFINE r == cleaner[c]
  <1>1. CleanState(r)
    BY DEF RetentionInv, TypeOK, CleanPart, CleanState
  <1>2. r \in CleanerStates
    BY <1>1 DEF CleanState
  <1>3. /\ record \in [Meetings -> MeetingRecords]
        /\ faults \in Nat /\ rots \in Nat /\ extensions \in Nat
    BY DEF RetentionInv, TypeOK
  <1> HIDE DEF r
  <1>4. CASE StartCleanup(c)
    <2>1. clock \in Nat
      BY RetentionAssumption DEF RetentionInv, TypeOK
    <2>2. PICK x \in CleanerStates : Clean(c, x) /\ x.files = {} /\ x.left = {} /\ x.pc = "list"
      BY <1>4, <2>1, CleanerRests DEF StartCleanup
    <2>3. CleanState(x)
      BY <2>2 DEF CleanState
    <2>4. QED  BY <1>3, <1>4, <2>2, <2>3, CleanerMoves DEF StartCleanup, bounds
  <1>5. CASE ListExpired(c)
    <2>1. [r EXCEPT !.pc = "next", !.candidates = ExpiredCandidates(r.now)] \in CleanerStates
      BY <1>2 DEF CleanerStates, CleanerPCs, ExpiredCandidates
    <2>2. CleanState([r EXCEPT !.pc = "next", !.candidates = ExpiredCandidates(r.now)])
      BY <1>1, <1>2, <2>1 DEF CleanState, CleanerStates
    <2>3. QED  BY <1>3, <1>5, <2>2, CleanerMoves DEF ListExpired, r, bounds
  <1>6. CASE NextCandidate(c)
    <2>1. CASE paused \/ r.candidates = {}
      BY <1>3, <1>6, <2>1, CleanerLeaves DEF NextCandidate, r, bounds
    <2>2. CASE ~(paused \/ r.candidates = {})
      <3>1. PICK m \in r.candidates :
              Clean(c, [r EXCEPT !.pc = "load", !.meeting = m, !.candidates = @ \ {m}])
        BY <1>6, <2>2 DEF NextCandidate, r
      <3>2. CleanState([r EXCEPT !.pc = "load", !.meeting = m,
                                 !.candidates = r.candidates \ {m}])
        <4>1. [r EXCEPT !.pc = "load", !.meeting = m, !.candidates = r.candidates \ {m}]
                \in CleanerStates
          BY <1>2 DEF CleanerStates, CleanerPCs
        <4>2. QED  BY <1>1, <1>2, <4>1 DEF CleanState, CleanerStates
      <3>3. QED  BY <1>3, <1>6, <3>1, <3>2, CleanerMoves DEF NextCandidate, bounds
    <2>3. QED  BY <2>1, <2>2
  <1>7. CASE LoadArchived(c)
    <2> DEFINE F == ArchivedOf(r.meeting)
    <2>1. F \in SUBSET Assets /\ F \subseteq archived
      BY DEF ArchivedOf, AssetsOf
    <2> HIDE DEF F
    <2>2. CleanState([r EXCEPT !.pc = "verify", !.files = F, !.left = F])
      <3>1. [r EXCEPT !.pc = "verify", !.files = F, !.left = F] \in CleanerStates
        BY <1>2, <2>1 DEF CleanerStates, CleanerPCs
      <3>2. QED  BY <1>2, <2>1, <3>1 DEF CleanState, CleanerStates
    <2>3. QED  BY <1>3, <1>7, <2>2, CleanerMoves DEF LoadArchived, r, F, bounds
  <1>8. CASE VerifyNasCopy(c)
    <2>1. CASE r.left = {}
      <3>1. CleanState([r EXCEPT !.pc = "recheck", !.left = r.files])
        <4>1. r.files \in SUBSET Assets /\ "recheck" \in CleanerPCs
          BY <1>2, CleanerFields DEF CleanerPCs
        <4>2. \A a \in r.files : nas[a] = "good"
          BY <1>1, <1>8, <2>1 DEF VerifyNasCopy, CleanState, r
        <4>3. LET x == [r EXCEPT !.pc = "recheck", !.left = r.files]
              IN  x \in CleanerStates /\ x.pc = "recheck" /\ x.left = r.files /\ x.files = r.files
          BY <1>2, <4>1 DEF CleanerStates
        <4>4. QED  BY <1>1, <4>2, <4>3 DEF CleanState
      <3>2. QED  BY <1>3, <1>8, <2>1, <3>1, CleanerMoves DEF VerifyNasCopy, r, bounds
    <2>2. CASE r.left # {}
      <3>1. PICK a \in r.left : IF nas[a] = "good"
                                  THEN Clean(c, [r EXCEPT !.left = @ \ {a}])
                                  ELSE LeaveMeeting(c)
        BY <1>8, <2>2 DEF VerifyNasCopy, r
      <3>2. CASE nas[a] = "good"
        <4>1. r.left \ {a} \in SUBSET Assets
          BY <1>2, CleanerFields
        <4>2. r.pc = "verify"
          BY <1>8 DEF VerifyNasCopy, r
        <4>3. CleanState([r EXCEPT !.left = r.left \ {a}])
          <5>1. LET x == [r EXCEPT !.left = r.left \ {a}]
                IN  x \in CleanerStates /\ x.pc = "verify" /\ x.left = r.left \ {a}
                      /\ x.files = r.files
            BY <1>2, <4>1, <4>2 DEF CleanerStates
          <5>2. QED  BY <1>1, <3>2, <4>2, <5>1 DEF CleanState
        <4>4. QED  BY <1>3, <1>8, <3>1, <3>2, <4>3, CleanerMoves DEF VerifyNasCopy, bounds
      <3>3. CASE nas[a] # "good"
        BY <1>3, <1>8, <3>1, <3>3, CleanerLeaves DEF VerifyNasCopy, bounds
      <3>4. QED  BY <3>2, <3>3
    <2>3. QED  BY <2>1, <2>2
  <1>9. CASE RecheckPause(c)
    <2>1. CASE paused
      BY <1>3, <1>9, <2>1, CleanerLeaves DEF RecheckPause, bounds
    <2>2. CASE ~paused
      <3>1. CleanState([r EXCEPT !.pc = "delete"])
        <4>1. r.pc = "recheck"
          BY <1>9 DEF RecheckPause, r
        <4>2. QED  BY <1>1, <1>2, <4>1, CleanerFields DEF CleanState, CleanerPCs
      <3>2. QED  BY <1>3, <1>9, <2>2, <3>1, CleanerMoves DEF RecheckPause, r, bounds
    <2>3. QED  BY <2>1, <2>2
  <1>10. CASE DeleteLocal(c)
    <2>1. r.pc = "delete"
      BY <1>10 DEF DeleteLocal, r
    <2>2. CASE r.left = {}
      <3>1. CleanState([r EXCEPT !.pc = "mark"])
        BY <1>1, <1>2, <2>1, CleanerFields DEF CleanState, CleanerPCs
      <3>2. QED  BY <1>3, <1>10, <2>2, <3>1, CleanerMoves DEF DeleteLocal, r, bounds
    <2>3. CASE r.left # {}
      <3>1. PICK a \in r.left :
              local' = local \ {a} /\ Clean(c, [r EXCEPT !.left = @ \ {a}])
        BY <1>10, <2>3 DEF DeleteLocal, r
      <3>2. CleanState([r EXCEPT !.left = r.left \ {a}]) /\ a \in archived
        <4>1. r.left \ {a} \in SUBSET Assets
          BY <1>2, CleanerFields
        <4>2. LET x == [r EXCEPT !.left = r.left \ {a}]
              IN  x \in CleanerStates /\ x.pc = "delete" /\ x.left = r.left \ {a}
                    /\ x.files = r.files
          BY <1>2, <2>1, <4>1 DEF CleanerStates
        <4>3. QED  BY <1>1, <2>1, <4>2 DEF CleanState
      <3>3. QED  BY <1>3, <1>10, <3>1, <3>2, CleanerMoves DEF DeleteLocal, bounds
    <2>4. QED  BY <2>2, <2>3
  <1>11. CASE MarkLocalPurged(c)
    <2>1. record' \in [Meetings -> MeetingRecords]
      <3>1. ASSUME NEW v \in MeetingRecords PROVE [v EXCEPT !.purged = TRUE] \in MeetingRecords
        BY DEF MeetingRecords
      <3>2. record' = [record EXCEPT ![r.meeting] = [record[r.meeting] EXCEPT !.purged = TRUE]]
        BY <1>3, <1>11 DEF MarkLocalPurged, r
      <3>3. QED  BY <1>3, <3>1, <3>2
    <2>2. QED  BY <1>3, <1>11, <2>1, CleanerLeaves DEF MarkLocalPurged, bounds
  <1>12. CASE CleanerFails(c)
    BY <1>3, <1>12, CleanerLeaves DEF CleanerFails, Fault
  <1>13. QED
    BY <1>4, <1>5, <1>6, <1>7, <1>8, <1>9, <1>10, <1>11, <1>12 DEF CleanerStep

-----------------------------------------------------------------------------
\* The invariant holds initially.
LEMMA RetentionInit == Init => RetentionInv
  <1> SUFFICES ASSUME Init PROVE RetentionInv
    OBVIOUS
  <1> USE DEF Init
  <1>1. record \in [Meetings -> MeetingRecords] /\ clock \in 0..MaxClock
    BY RetentionAssumption DEF NoRecord, MeetingRecords
  <1>2. archiver \in [Archivers -> ArchiverStates] /\ cleaner \in [Cleaners -> CleanerStates]
    BY ArchiverRests, CleanerRests
  <1>3. TypeOK
    <2>1. faults \in Nat /\ rots \in Nat /\ extensions \in Nat
      BY RetentionAssumption
    <2>2. QED  BY <1>1, <1>2, <2>1 DEF TypeOK, Statuses, Contents
  <1>4. CopyPart /\ LocalPart
    BY ArchiverRests DEF CopyPart, LocalPart, Copying
  <1>5. CleanPart
    BY CleanerRests DEF CleanPart
  <1>6. QED  BY <1>3, <1>4, <1>5 DEF RetentionInv

\* Every step preserves the invariant.
LEMMA RetentionStep == OneArchiver /\ RetentionInv /\ [Next]_vars => RetentionInv'
  <1> SUFFICES ASSUME OneArchiver, RetentionInv, [Next]_vars PROVE RetentionInv'
    OBVIOUS
  <1> USE DEF RetentionInv, CopyPart, CleanPart, LocalPart
  <1>1. ASSUME NEW a \in Assets, Download(a) PROVE RetentionInv'
    <2>1. TypeOK'
      BY <1>1 DEF Download, TypeOK, Statuses, tables, bounds
    <2>2. LocalPart'
      BY <1>1 DEF Download, TypeOK, tables
    <2>3. QED  BY <1>1, <2>1, <2>2 DEF Download, tables
  <1>2. ASSUME NEW a \in Assets, NasRots(a) PROVE RetentionInv'
    <2>1. TypeOK'
      BY <1>2 DEF NasRots, TypeOK, Contents, tables
    <2>2. \A c \in Cleaners : \A b \in cleaner[c].files : nas'[b] = nas[b]
      BY <1>2 DEF NasRots, TypeOK
    <2>3. CleanPart'
      BY <1>2, <2>2 DEF NasRots, tables
    <2>4. QED  BY <1>2, <2>1, <2>3 DEF NasRots, tables
  <1>3. ASSUME NEW w \in Archivers, ArchiverStep(w) \/ ArchiverFails(w) PROVE RetentionInv'
    BY <1>3, ArchiverStepInv
  <1>4. ASSUME NEW c \in Cleaners, CleanerStep(c) \/ CleanerFails(c) PROVE RetentionInv'
    BY <1>4, CleanerStepInv
  <1>5. ASSUME NEW p \in BOOLEAN, SetPaused(p) PROVE RetentionInv'
    BY <1>5 DEF SetPaused, TypeOK, disk, bounds
  <1>6. ASSUME NEW m \in Meetings, CheckExtension(m) PROVE RetentionInv'
    BY <1>6 DEF CheckExtension, TypeOK, disk, tables
  <1>7. ASSUME NEW m \in Meetings, ExtendRetention(m) PROVE RetentionInv'
    <2>1. record' \in [Meetings -> MeetingRecords]
      <3>1. record[m] \in MeetingRecords
        BY DEF TypeOK
      <3>2. [record[m] EXCEPT !.extended = record[m].extended + 1] \in MeetingRecords
        BY <3>1 DEF MeetingRecords
      <3>3. QED  BY <1>7, <3>2 DEF ExtendRetention, TypeOK
    <2>2. QED  BY <1>7, <2>1 DEF ExtendRetention, TypeOK, disk, bounds
  <1>8. CASE Advance
    <2>1. clock' \in 0..MaxClock
      BY <1>8, RetentionAssumption DEF Advance, TypeOK
    <2>2. QED  BY <1>8, <2>1 DEF Advance, TypeOK, disk, tables, bounds
  <1>9. CASE UNCHANGED vars
    BY <1>9 DEF vars, TypeOK, disk, tables, bounds
  <1>10. QED  BY <1>1, <1>2, <1>3, <1>4, <1>5, <1>6, <1>7, <1>8, <1>9 DEF Next

\* The invariant holds in every reachable state when there is one archiver.
LEMMA RetentionHolds == ASSUME OneArchiver PROVE Spec => []RetentionInv
  <1>1. RetentionInv /\ [Next]_vars => RetentionInv'
    BY RetentionStep
  <1>2. QED  BY <1>1, RetentionInit, PTL DEF Spec

\* The disk, the tables and the two kinds of rounds are well typed in every
\* reachable state.
THEOREM RetentionTypeCorrect == ASSUME OneArchiver PROVE Spec => []TypeOK
  <1>1. RetentionInv => TypeOK
    BY DEF RetentionInv
  <1>2. QED  BY <1>1, RetentionHolds, PTL

\* A local file disappears only in a cleaner's deletion, which holds files it has
\* found recorded and intact.
LEMMA DeleteStep ==
  ASSUME RetentionInv, [Next]_vars, NEW a \in local, a \notin local'
  PROVE  a \in archived /\ nas[a] = "good"
  <1>1. ASSUME NEW b \in Assets, Download(b) \/ NasRots(b) PROVE FALSE
    BY <1>1 DEF Download, NasRots
  <1>2. ASSUME NEW w \in Archivers, ArchiverStep(w) \/ ArchiverFails(w) PROVE FALSE
    BY <1>2 DEF ArchiverStep, ArchiverFails, StartArchive, NextMeeting, NextAsset, BeginCopy,
      EndCopy, HashCopy, RecordAsset, Progress, FindRecord, UpsertRecord, disk
  <1>3. ASSUME NEW c \in Cleaners, DeleteLocal(c) PROVE a \in archived /\ nas[a] = "good"
    <2>1. a \in cleaner[c].left /\ cleaner[c].pc = "delete"
      BY <1>3 DEF DeleteLocal
    <2>2. QED  BY <2>1 DEF RetentionInv, CleanPart
  <1>4. ASSUME NEW c \in Cleaners, CleanerStep(c) \/ CleanerFails(c), ~DeleteLocal(c)
        PROVE  FALSE
    BY <1>4 DEF CleanerStep, CleanerFails, StartCleanup, ListExpired, NextCandidate,
      LoadArchived, VerifyNasCopy, RecheckPause, MarkLocalPurged
  <1>5. ASSUME NEW p \in BOOLEAN, SetPaused(p) PROVE FALSE
    BY <1>5 DEF SetPaused, disk
  <1>6. ASSUME NEW m \in Meetings, CheckExtension(m) \/ ExtendRetention(m) PROVE FALSE
    BY <1>6 DEF CheckExtension, ExtendRetention, disk
  <1>7. CASE Advance \/ UNCHANGED vars
    BY <1>7 DEF Advance, vars, disk
  <1>8. QED  BY <1>1, <1>2, <1>3, <1>4, <1>5, <1>6, <1>7 DEF Next

\* With one archiver, whatever the cleaners, the administrators and the NAS do
\* around it, the last local copy of an asset is given up only for a NAS copy
\* that is recorded and, at that moment, intact.
THEOREM CleanupDeletesOnlyVerified == ASSUME OneArchiver PROVE Spec => DeletesOnlyVerified
  <1>1. RetentionInv /\ [Next]_vars
          => [\A a \in local \ local' : a \in archived /\ nas[a] = "good"]_vars
    BY DeleteStep
  <1>2. QED  BY <1>1, RetentionHolds, PTL DEF Spec, DeletesOnlyVerified

-----------------------------------------------------------------------------
\* While nobody changes the NAS from outside, what is recorded is intact, and so
\* is what a round is about to record.
IntactPart ==
  /\ \A a \in archived : nas[a] = "good"
  /\ \A w \in Archivers : archiver[w].pc = "record" => nas[archiver[w].asset] = "good"

\* A step of the archiver keeps recorded copies intact: the file it writes is of
\* an asset that has no record.
LEMMA IntactArchiverStep ==
  ASSUME RetentionInv, IntactPart, OneArchiver, NEW w \in Archivers,
         ArchiverStep(w) \/ ArchiverFails(w)
  PROVE  IntactPart'
  <1>1. archiver[w] \in ArchiverStates /\ nas \in [Assets -> Contents]
    BY DEF RetentionInv, TypeOK
  <1>2. archiver[w].pc \in Copying
          => archiver[w].asset \in Assets /\ archiver[w].asset \notin archived
    BY DEF RetentionInv, CopyPart
  <1>3. ASSUME NEW x, Archive(w, x), x.pc # "record", UNCHANGED <<nas, archived>>
        PROVE  IntactPart'
    BY <1>3 DEF RetentionInv, TypeOK, IntactPart, OneArchiver, Archive
  <1>4. ASSUME GiveUpMeeting(w) \/ Archive(w, ArchiverIdle), UNCHANGED <<nas, archived>>
        PROVE  IntactPart'
    BY <1>3, <1>4 DEF GiveUpMeeting, ArchiverIdle
  <1>5. CASE StartArchive(w)
    BY <1>3, <1>5 DEF StartArchive, ArchiverIdle, disk, tables
  <1>6. CASE NextMeeting(w)
    <2>1. \E x : Archive(w, x) /\ x.pc # "record"
      <3>1. CASE archiver[w].pending = {}
        BY <1>6, <3>1 DEF NextMeeting, ArchiverIdle
      <3>2. CASE archiver[w].pending # {}
        <4>1. PICK m \in archiver[w].pending :
                \/ Archive(w, [archiver[w] EXCEPT !.pending = archiver[w].pending \ {m}])
                \/ Archive(w, [ArchiverIdle EXCEPT !.pc = "asset", !.meeting = m,
                              !.pending = archiver[w].pending \ {m},
                              !.todo = CompletedOf(m), !.now = clock])
          BY <1>6, <3>2 DEF NextMeeting
        <4>2. [archiver[w] EXCEPT !.pending = archiver[w].pending \ {m}].pc = "next"
          BY <1>1, <1>6 DEF NextMeeting, ArchiverStates
        <4>3. [ArchiverIdle EXCEPT !.pc = "asset", !.meeting = m,
                 !.pending = archiver[w].pending \ {m},
                 !.todo = CompletedOf(m), !.now = clock].pc = "asset"
          BY DEF ArchiverIdle
        <4>4. QED  BY <4>1, <4>2, <4>3
      <3>3. QED  BY <3>1, <3>2
    <2>2. QED  BY <1>3, <1>6, <2>1 DEF NextMeeting, disk, tables
  <1>7. CASE NextAsset(w)
    <2>1. \E x : Archive(w, x) /\ x.pc # "record"
      <3>1. CASE archiver[w].todo = {}
        <4>1. [archiver[w] EXCEPT !.pc = "progress"].pc = "progress"
          BY <1>1 DEF ArchiverStates
        <4>2. QED  BY <1>7, <3>1, <4>1 DEF NextAsset
      <3>2. CASE archiver[w].todo # {}
        <4>1. PICK a \in archiver[w].todo :
                \/ Archive(w, [archiver[w] EXCEPT !.todo = archiver[w].todo \ {a}])
                \/ Archive(w, [archiver[w] EXCEPT !.pc = "copy", !.asset = a,
                                                 !.todo = archiver[w].todo \ {a}])
          BY <1>7, <3>2 DEF NextAsset
        <4>2. [archiver[w] EXCEPT !.todo = archiver[w].todo \ {a}].pc = "asset"
          BY <1>1, <1>7 DEF NextAsset, ArchiverStates
        <4>3. [archiver[w] EXCEPT !.pc = "copy", !.asset = a,
                                  !.todo = archiver[w].todo \ {a}].pc = "copy"
          BY <1>1 DEF ArchiverStates
        <4>4. QED  BY <4>1, <4>2, <4>3
      <3>3. QED  BY <3>1, <3>2
    <2>2. QED  BY <1>3, <1>7, <2>1 DEF NextAsset, disk, tables
  <1>8. ASSUME NEW content, nas' = [nas EXCEPT ![archiver[w].asset] = content],
               archiver[w].pc \in Copying, UNCHANGED archived,
               NEW x, Archive(w, x), x.pc # "record"
        PROVE  IntactPart'
    BY <1>1, <1>2, <1>8 DEF RetentionInv, TypeOK, IntactPart, OneArchiver, Archive
  <1>9. CASE BeginCopy(w)
    <2>1. CASE archiver[w].asset \in local
      <3>1. PICK x : Archive(w, x) /\ x.pc = "copying"
        BY <1>1, <1>9, <2>1 DEF BeginCopy, ArchiverStates
      <3>2. QED  BY <1>8, <1>9, <2>1, <3>1 DEF BeginCopy, Copying, tables
    <2>2. CASE archiver[w].asset \notin local
      BY <1>4, <1>9, <2>2 DEF BeginCopy, tables
    <2>3. QED  BY <2>1, <2>2
  <1>10. CASE EndCopy(w)
    <2>1. PICK x : Archive(w, x) /\ x.pc = "hash"
      BY <1>1, <1>10 DEF EndCopy, ArchiverStates
    <2>2. PICK content : nas' = [nas EXCEPT ![archiver[w].asset] = content]
      BY <1>10 DEF EndCopy
    <2>3. QED  BY <1>8, <1>10, <2>1, <2>2 DEF EndCopy, Copying, tables
  <1>11. CASE HashCopy(w)
    <2>1. PICK x : Archive(w, x) /\ x.asset = archiver[w].asset
                    /\ (x.pc = "record" => nas[x.asset] = "good")
      BY <1>1, <1>11 DEF HashCopy, ArchiverStates
    <2>2. QED
      BY <1>11, <2>1 DEF HashCopy, RetentionInv, TypeOK, IntactPart, OneArchiver, Archive,
        disk, tables
  <1>12. CASE RecordAsset(w)
    <2>1. archived' = archived \cup {archiver[w].asset}
      BY <1>2, <1>12 DEF RecordAsset, Copying
    <2>2. PICK x : Archive(w, x) /\ x.pc = "asset"
      <3>1. Archive(w, [archiver[w] EXCEPT !.pc = "asset", !.newly = TRUE])
        BY <1>2, <1>12 DEF RecordAsset, Copying
      <3>2. [archiver[w] EXCEPT !.pc = "asset", !.newly = TRUE].pc = "asset"
        BY <1>1 DEF ArchiverStates
      <3>3. QED  BY <3>1, <3>2
    <2>3. nas[archiver[w].asset] = "good" /\ UNCHANGED nas
      BY <1>12 DEF RecordAsset, IntactPart, disk
    <2>4. QED
      BY <2>1, <2>2, <2>3 DEF RetentionInv, TypeOK, IntactPart, OneArchiver, Archive
  <1>13. CASE Progress(w)
    <2>1. CASE FullyArchived(archiver[w].meeting)
      <3>1. PICK x : Archive(w, x) /\ x.pc # "record"
        BY <1>1, <1>13, <2>1 DEF Progress, ArchiverStates
      <3>2. QED  BY <1>3, <1>13, <3>1 DEF Progress, disk, tables
    <2>2. CASE ~FullyArchived(archiver[w].meeting)
      BY <1>4, <1>13, <2>2 DEF Progress, disk, tables
    <2>3. QED  BY <2>1, <2>2
  <1>14. CASE FindRecord(w)
    <2>1. CASE record[archiver[w].meeting].exists
      BY <1>4, <1>14, <2>1 DEF FindRecord, disk, tables
    <2>2. CASE ~record[archiver[w].meeting].exists
      <3>1. PICK x : Archive(w, x) /\ x.pc # "record"
        BY <1>1, <1>14, <2>2 DEF FindRecord, ArchiverStates
      <3>2. QED  BY <1>3, <1>14, <3>1 DEF FindRecord, disk, tables
    <2>3. QED  BY <2>1, <2>2
  <1>15. CASE UpsertRecord(w)
    BY <1>4, <1>15 DEF UpsertRecord, disk
  <1>16. CASE ArchiverFails(w)
    BY <1>4, <1>16 DEF ArchiverFails, disk, tables
  <1>17. QED
    BY <1>5, <1>6, <1>7, <1>9, <1>10, <1>11, <1>12, <1>13, <1>14, <1>15, <1>16 DEF ArchiverStep

\* Every step keeps recorded copies intact while the NAS is left alone.
LEMMA IntactStep ==
  OneArchiver /\ RotBound = 0 /\ RetentionInv /\ IntactPart /\ [Next]_vars => IntactPart'
  <1> SUFFICES ASSUME OneArchiver, RotBound = 0, RetentionInv, IntactPart, [Next]_vars
               PROVE  IntactPart'
    OBVIOUS
  <1>1. ASSUME UNCHANGED <<nas, archived, archiver>> PROVE IntactPart'
    BY <1>1 DEF IntactPart
  <1>2. ASSUME NEW a \in Assets, Download(a) PROVE IntactPart'
    BY <1>1, <1>2 DEF Download, tables
  <1>3. ASSUME NEW a \in Assets, NasRots(a) PROVE IntactPart'
    BY <1>3 DEF NasRots, RetentionInv, TypeOK
  <1>4. ASSUME NEW w \in Archivers, ArchiverStep(w) \/ ArchiverFails(w) PROVE IntactPart'
    BY <1>4, IntactArchiverStep
  <1>5. ASSUME NEW c \in Cleaners, CleanerStep(c) \/ CleanerFails(c) PROVE IntactPart'
    BY <1>1, <1>5 DEF CleanerStep, CleanerFails, StartCleanup, ListExpired, NextCandidate,
      LoadArchived, VerifyNasCopy, RecheckPause, DeleteLocal, MarkLocalPurged, CleanerOnly
  <1>6. ASSUME NEW p \in BOOLEAN, SetPaused(p) PROVE IntactPart'
    BY <1>1, <1>6 DEF SetPaused, disk
  <1>7. ASSUME NEW m \in Meetings, CheckExtension(m) \/ ExtendRetention(m) PROVE IntactPart'
    BY <1>1, <1>7 DEF CheckExtension, ExtendRetention, disk, tables
  <1>8. CASE Advance \/ UNCHANGED vars
    BY <1>1, <1>8 DEF Advance, vars, disk, tables
  <1>9. QED  BY <1>2, <1>3, <1>4, <1>5, <1>6, <1>7, <1>8 DEF Next

\* With one archiver and a NAS that nobody else writes to, no downloaded asset is
\* ever lost: through failed copies, rounds dying anywhere, late assets and any
\* number of cleaners, it is on the local disk or intact on the NAS.
THEOREM ArchiveLosesNothing ==
  ASSUME OneArchiver, RotBound = 0
  PROVE  Spec => []NothingLost
  <1>1. Init => IntactPart
    BY ArchiverRests DEF Init, IntactPart
  <1>2. RetentionInv /\ IntactPart /\ [Next]_vars => IntactPart'
    BY IntactStep
  <1>3. RetentionInv /\ IntactPart => NothingLost
    BY DEF RetentionInv, LocalPart, IntactPart, NothingLost
  <1>4. QED  BY <1>1, <1>2, <1>3, RetentionHolds, PTL DEF Spec

-----------------------------------------------------------------------------
\* What the pause switch is read for: with any number of archivers and cleaners.
CleanersTyped == clock \in Nat /\ cleaner \in [Cleaners -> CleanerStates]

\* A cleaner begins to delete on a reading of the switch in the very step.
LEMMA CleanerGoes ==
  ASSUME CleanersTyped, NEW c \in Cleaners, CleanerStep(c) \/ CleanerFails(c)
  PROVE  \E x \in CleanerStates :
           Clean(c, x) /\ (x.pc = "delete" => cleaner[c].pc = "delete" \/ ~paused)
  <1> DEFINE r == cleaner[c]
  <1>1. r \in CleanerStates /\ clock \in Nat
    BY DEF CleanersTyped
  <1> HIDE DEF r
  <1>0. r.now \in Nat /\ r.candidates \in SUBSET Meetings
          /\ r.files \in SUBSET Assets /\ r.left \in SUBSET Assets
    BY <1>1, CleanerFields
  <1>2. ASSUME LeaveMeeting(c) \/ Clean(c, CleanerIdle)
        PROVE  \E x \in CleanerStates : Clean(c, x) /\ x.pc # "delete"
    <2>1. CASE LeaveMeeting(c)
      BY <1>0, <2>1, CleanerRests DEF LeaveMeeting, r
    <2>2. CASE Clean(c, CleanerIdle)
      BY <2>2, CleanerRests
    <2>3. QED  BY <1>2, <2>1, <2>2
  <1>3. CASE StartCleanup(c)
    <2>1. PICK x \in CleanerStates : Clean(c, x) /\ x.pc = "list"
      BY <1>1, <1>3, CleanerRests DEF StartCleanup
    <2>2. QED  BY <2>1
  <1>4. CASE ListExpired(c)
    <2> DEFINE x == [r EXCEPT !.pc = "next", !.candidates = ExpiredCandidates(r.now)]
    <2>1. x \in CleanerStates /\ x.pc = "next"
      BY <1>1 DEF CleanerStates, CleanerPCs, ExpiredCandidates
    <2>2. Clean(c, x)
      BY <1>4 DEF ListExpired, r
    <2> HIDE DEF x
    <2>3. QED  BY <2>1, <2>2
  <1>5. CASE NextCandidate(c)
    <2>1. CASE paused \/ r.candidates = {}
      BY <1>2, <1>5, <2>1 DEF NextCandidate, r
    <2>2. CASE ~(paused \/ r.candidates = {})
      <3>1. PICK m \in r.candidates :
              Clean(c, [r EXCEPT !.pc = "load", !.meeting = m, !.candidates = @ \ {m}])
        BY <1>5, <2>2 DEF NextCandidate, r
      <3> DEFINE x == [r EXCEPT !.pc = "load", !.meeting = m, !.candidates = r.candidates \ {m}]
      <3>2. x \in CleanerStates /\ x.pc = "load"
        BY <1>1 DEF CleanerStates, CleanerPCs
      <3>3. Clean(c, x)
        BY <3>1
      <3> HIDE DEF x
      <3>4. QED  BY <3>2, <3>3
    <2>3. QED  BY <2>1, <2>2
  <1>6. CASE LoadArchived(c)
    <2> DEFINE F == ArchivedOf(r.meeting)
    <2> DEFINE x == [r EXCEPT !.pc = "verify", !.files = F, !.left = F]
    <2>1. F \in SUBSET Assets
      BY DEF ArchivedOf, AssetsOf
    <2>2. Clean(c, x)
      BY <1>6 DEF LoadArchived, r
    <2> HIDE DEF F
    <2>3. x \in CleanerStates /\ x.pc = "verify"
      BY <1>1, <2>1 DEF CleanerStates, CleanerPCs
    <2> HIDE DEF x
    <2>4. QED  BY <2>2, <2>3
  <1>7. CASE VerifyNasCopy(c)
    <2>1. CASE r.left = {}
      <3> DEFINE x == [r EXCEPT !.pc = "recheck", !.left = r.files]
      <3>1. x \in CleanerStates /\ x.pc = "recheck"
        BY <1>0, <1>1 DEF CleanerStates, CleanerPCs
      <3>2. Clean(c, x)
        BY <1>7, <2>1 DEF VerifyNasCopy, r
      <3> HIDE DEF x
      <3>3. QED  BY <3>1, <3>2
    <2>2. CASE r.left # {}
      <3>1. PICK a \in r.left : IF nas[a] = "good"
                                  THEN Clean(c, [r EXCEPT !.left = @ \ {a}])
                                  ELSE LeaveMeeting(c)
        BY <1>7, <2>2 DEF VerifyNasCopy, r
      <3>2. CASE nas[a] = "good"
        <4> DEFINE x == [r EXCEPT !.left = r.left \ {a}]
        <4>1. r.pc = "verify" /\ r.left \ {a} \in SUBSET Assets
          BY <1>0, <1>7 DEF VerifyNasCopy, r
        <4>2. x \in CleanerStates /\ x.pc = "verify"
          BY <1>1, <4>1 DEF CleanerStates
        <4>3. Clean(c, x)
          BY <3>1, <3>2
        <4> HIDE DEF x
        <4>4. QED  BY <4>2, <4>3
      <3>3. CASE nas[a] # "good"
        BY <1>2, <3>1, <3>3
      <3>4. QED  BY <3>2, <3>3
    <2>3. QED  BY <2>1, <2>2
  <1>8. CASE RecheckPause(c)
    <2>1. CASE paused
      BY <1>2, <1>8, <2>1 DEF RecheckPause
    <2>2. CASE ~paused
      <3> DEFINE x == [r EXCEPT !.pc = "delete"]
      <3>1. x \in CleanerStates
        BY <1>1, CleanerFields DEF CleanerPCs
      <3>2. Clean(c, x)
        BY <1>8, <2>2 DEF RecheckPause, r
      <3> HIDE DEF x
      <3>3. QED  BY <2>2, <3>1, <3>2
    <2>3. QED  BY <2>1, <2>2
  <1>9. CASE DeleteLocal(c)
    <2>1. CASE r.left = {}
      <3> DEFINE x == [r EXCEPT !.pc = "mark"]
      <3>1. x \in CleanerStates /\ x.pc = "mark"
        BY <1>1, CleanerFields DEF CleanerPCs
      <3>2. Clean(c, x)
        BY <1>9, <2>1 DEF DeleteLocal, r
      <3> HIDE DEF x
      <3>3. QED  BY <3>1, <3>2
    <2>2. CASE r.left # {}
      <3>1. PICK a \in r.left : Clean(c, [r EXCEPT !.left = @ \ {a}])
        BY <1>9, <2>2 DEF DeleteLocal, r
      <3> DEFINE x == [r EXCEPT !.left = r.left \ {a}]
      <3>2. x \in CleanerStates
        BY <1>0, <1>1 DEF CleanerStates
      <3>3. Clean(c, x) /\ cleaner[c].pc = "delete"
        BY <1>9, <3>1 DEF DeleteLocal
      <3> HIDE DEF x
      <3>4. QED  BY <3>2, <3>3
    <2>3. QED  BY <2>1, <2>2
  <1>10. CASE MarkLocalPurged(c)
    BY <1>2, <1>10 DEF MarkLocalPurged
  <1>11. CASE CleanerFails(c)
    BY <1>2, <1>11 DEF CleanerFails
  <1>12. QED
    BY <1>3, <1>4, <1>5, <1>6, <1>7, <1>8, <1>9, <1>10, <1>11 DEF CleanerStep

\* Every step keeps the cleaners' types, and begins a deletion only unpaused.
LEMMA PauseStep ==
  ASSUME CleanersTyped, [Next]_vars
  PROVE  /\ CleanersTyped'
         /\ paused => \A d \in Cleaners : cleaner'[d].pc = "delete" => cleaner[d].pc = "delete"
  <1>1. CASE UNCHANGED <<clock, cleaner>>
    BY <1>1 DEF CleanersTyped
  <1>2. ASSUME NEW c \in Cleaners, CleanerStep(c) \/ CleanerFails(c)
        PROVE  /\ CleanersTyped'
               /\ paused => \A d \in Cleaners :
                              cleaner'[d].pc = "delete" => cleaner[d].pc = "delete"
    <2>1. PICK x \in CleanerStates :
            Clean(c, x) /\ (x.pc = "delete" => cleaner[c].pc = "delete" \/ ~paused)
      BY <1>2, CleanerGoes
    <2>2. UNCHANGED clock
      BY <1>2 DEF CleanerStep, CleanerFails, StartCleanup, ListExpired, NextCandidate,
        LoadArchived, VerifyNasCopy, RecheckPause, DeleteLocal, MarkLocalPurged, CleanerOnly
    <2>3. cleaner' = [cleaner EXCEPT ![c] = x] /\ cleaner \in [Cleaners -> CleanerStates]
      BY <2>1 DEF Clean, CleanersTyped
    <2>4. CleanersTyped'
      BY <2>2, <2>3 DEF CleanersTyped
    <2>5. \A d \in Cleaners : cleaner'[d] = IF d = c THEN x ELSE cleaner[d]
      BY <2>3
    <2>6. QED  BY <2>1, <2>4, <2>5
  <1>3. CASE Advance
    BY <1>3, RetentionAssumption DEF Advance, CleanersTyped
  <1>4. CASE ~(\E c \in Cleaners : CleanerStep(c) \/ CleanerFails(c)) /\ ~Advance
    <2>1. UNCHANGED <<clock, cleaner>>
      <3>1. ASSUME NEW a \in Assets, Download(a) \/ NasRots(a) PROVE UNCHANGED <<clock, cleaner>>
        BY <3>1 DEF Download, NasRots
      <3>2. ASSUME NEW w \in Archivers, ArchiverStep(w) \/ ArchiverFails(w)
            PROVE  UNCHANGED <<clock, cleaner>>
        BY <3>2 DEF ArchiverStep, ArchiverFails, StartArchive, NextMeeting, NextAsset, BeginCopy,
          EndCopy, HashCopy, RecordAsset, Progress, FindRecord, UpsertRecord, ArchiverOnly
      <3>3. ASSUME NEW p \in BOOLEAN, SetPaused(p) PROVE UNCHANGED <<clock, cleaner>>
        BY <3>3 DEF SetPaused
      <3>4. ASSUME NEW m \in Meetings, CheckExtension(m) \/ ExtendRetention(m)
            PROVE  UNCHANGED <<clock, cleaner>>
        BY <3>4 DEF CheckExtension, ExtendRetention
      <3>5. CASE UNCHANGED vars
        BY <3>5 DEF vars
      <3>6. QED  BY <1>4, <3>1, <3>2, <3>3, <3>4, <3>5 DEF Next
    <2>2. QED  BY <1>1, <2>1
  <1>5. QED  BY <1>2, <1>3, <1>4

\* The pause switch is read late enough: with any number of archivers and cleaners,
\* and whatever fails, no meeting begins to be deleted once cleanup is paused.
THEOREM PauseIsHeeded == Spec => PauseStopsDeletion
  <1>1. Init => CleanersTyped
    BY RetentionInit, RetentionAssumption DEF RetentionInv, TypeOK, CleanersTyped
  <1>2. CleanersTyped /\ [Next]_vars => CleanersTyped'
    BY PauseStep
  <1>3. CleanersTyped /\ [Next]_vars =>
          [paused => \A c \in Cleaners : cleaner'[c].pc = "delete" => cleaner[c].pc = "delete"]_vars
    BY PauseStep
  <1>4. QED  BY <1>1, <1>2, <1>3, PTL DEF Spec, PauseStopsDeletion

-----------------------------------------------------------------------------
\* No window starts later than today, and a round took its meeting up no earlier
\* than any window starts: it is its own date that the window will get.
WindowPart ==
  /\ \A m \in Meetings : record[m].at <= clock
  /\ \A w \in Archivers : archiver[w].pc \notin {"idle", "next"} =>
       /\ archiver[w].now <= clock
       /\ \A m \in Meetings : record[m].at <= archiver[w].now

\* A round's date is the day it took its meeting up.
LEMMA ArchiverKeepsDate ==
  ASSUME RetentionInv, NEW w \in Archivers, ArchiverStep(w) \/ ArchiverFails(w),
         archiver'[w].pc \notin {"idle", "next"}
  PROVE  \/ archiver'[w].now = clock /\ archiver[w].pc = "next"
         \/ archiver'[w].now = archiver[w].now /\ archiver[w].pc \notin {"idle", "next"}
  <1> DEFINE r == archiver[w]
  <1>1. r \in ArchiverStates /\ archiver \in [Archivers -> ArchiverStates]
    BY DEF RetentionInv, TypeOK
  <1>2. r.pending \in SUBSET Meetings
    BY <1>1, ArchiverFields
  <1>3. ASSUME GiveUpMeeting(w) \/ Archive(w, ArchiverIdle) PROVE FALSE
    BY <1>1, <1>2, <1>3, ArchiverRests DEF GiveUpMeeting, Archive
  <1>4. ASSUME NEW pc \in ArchiverPCs, Archive(w, [r EXCEPT !.pc = pc])
        PROVE  archiver'[w].now = r.now
    BY <1>1, <1>4 DEF Archive, ArchiverStates
  <1>5. CASE StartArchive(w)
    <2>1. NeedingArchive \in SUBSET Meetings
      BY DEF NeedingArchive
    <2>2. QED  BY <1>1, <1>5, <2>1, ArchiverRests DEF StartArchive, Archive
  <1>6. CASE NextMeeting(w)
    <2>1. r.pending # {}
      BY <1>3, <1>6 DEF NextMeeting
    <2>2. PICK m \in r.pending :
            Archive(w, IF m \in Skipped
                         THEN [r EXCEPT !.pending = @ \ {m}]
                         ELSE [ArchiverIdle EXCEPT !.pc = "asset", !.meeting = m,
                                 !.pending = r.pending \ {m},
                                 !.todo = CompletedOf(m), !.now = clock])
      BY <1>6, <2>1 DEF NextMeeting
    <2>3. CASE m \in Skipped
      <3>1. archiver'[w] = [r EXCEPT !.pending = r.pending \ {m}]
        BY <1>1, <2>2, <2>3 DEF Archive
      <3>2. archiver'[w].pc = "next"
        BY <1>1, <1>6, <3>1 DEF NextMeeting, ArchiverStates
      <3>3. QED  BY <3>2
    <2>4. CASE m \notin Skipped
      <3>1. archiver'[w] = [ArchiverIdle EXCEPT !.pc = "asset", !.meeting = m,
                              !.pending = r.pending \ {m}, !.todo = CompletedOf(m), !.now = clock]
        BY <1>1, <2>2, <2>4 DEF Archive
      <3>2. archiver'[w].now = clock
        BY <3>1 DEF ArchiverIdle
      <3>3. QED  BY <1>6, <3>2 DEF NextMeeting
    <2>5. QED  BY <2>3, <2>4
  <1>7. CASE NextAsset(w)
    <2>1. CASE r.todo = {}
      BY <1>4, <1>7, <2>1 DEF NextAsset, ArchiverPCs
    <2>2. CASE r.todo # {}
      <3>1. PICK a \in r.todo :
              Archive(w, IF a \in archived
                           THEN [r EXCEPT !.todo = @ \ {a}]
                           ELSE [r EXCEPT !.pc = "copy", !.asset = a, !.todo = @ \ {a}])
        BY <1>7, <2>2 DEF NextAsset
      <3>2. CASE a \in archived
        <4>1. archiver'[w] = [r EXCEPT !.todo = r.todo \ {a}]
          BY <1>1, <3>1, <3>2 DEF Archive
        <4>2. QED  BY <1>1, <1>7, <4>1 DEF NextAsset, ArchiverStates
      <3>3. CASE a \notin archived
        <4>1. archiver'[w] = [r EXCEPT !.pc = "copy", !.asset = a, !.todo = r.todo \ {a}]
          BY <1>1, <3>1, <3>3 DEF Archive
        <4>2. QED  BY <1>1, <1>7, <4>1 DEF NextAsset, ArchiverStates
      <3>4. QED  BY <3>2, <3>3
    <2>3. QED  BY <1>7, <2>1, <2>2 DEF NextAsset
  <1>8. CASE BeginCopy(w)
    BY <1>3, <1>4, <1>8 DEF BeginCopy, ArchiverPCs
  <1>9. CASE EndCopy(w)
    BY <1>4, <1>9 DEF EndCopy, ArchiverPCs
  <1>10. CASE HashCopy(w)
    <2>1. CASE nas[r.asset] = "good"
      BY <1>4, <1>10, <2>1 DEF HashCopy, ArchiverPCs
    <2>2. CASE nas[r.asset] # "good"
      BY <1>4, <1>10, <2>2 DEF HashCopy, ArchiverPCs
    <2>3. QED  BY <2>1, <2>2
  <1>11. CASE RecordAsset(w)
    <2>1. archiver'[w] = [r EXCEPT !.pc = "asset", !.newly = TRUE]
      BY <1>1, <1>3, <1>11 DEF RecordAsset, Archive
    <2>2. QED  BY <1>1, <1>11, <2>1 DEF RecordAsset, ArchiverStates
  <1>12. CASE Progress(w)
    <2>1. CASE r.newly
      BY <1>3, <1>4, <1>12, <2>1 DEF Progress, ArchiverPCs
    <2>2. CASE ~r.newly
      BY <1>3, <1>4, <1>12, <2>2 DEF Progress, ArchiverPCs
    <2>3. QED  BY <2>1, <2>2
  <1>13. CASE FindRecord(w)
    BY <1>3, <1>4, <1>13 DEF FindRecord, ArchiverPCs
  <1>14. CASE UpsertRecord(w) \/ ArchiverFails(w)
    BY <1>3, <1>14 DEF UpsertRecord, ArchiverFails
  <1>15. QED
    BY <1>5, <1>6, <1>7, <1>8, <1>9, <1>10, <1>11, <1>12, <1>13, <1>14 DEF ArchiverStep

\* What a step does to the windows: nothing, the purge mark, a day more, or the
\* date of a round.
LEMMA RecordChanges ==
  ASSUME RetentionInv, [Next]_vars, NEW m \in Meetings
  PROVE  /\ record'[m].extended >= record[m].extended
         /\ \/ record'[m].at = record[m].at
            \/ \E w \in Archivers : UpsertRecord(w) /\ record'[m].at = archiver[w].now
  <1>1. record \in [Meetings -> MeetingRecords] /\ record[m] \in MeetingRecords
    BY DEF RetentionInv, TypeOK
  <1>2. record[m].extended \in Nat /\ record[m].at \in Nat
    BY <1>1 DEF MeetingRecords
  <1>3. CASE UNCHANGED record
    BY <1>2, <1>3
  <1>4. ASSUME NEW w \in Archivers, UpsertRecord(w) PROVE
          /\ record'[m].extended = record[m].extended
          /\ record'[m].at = record[m].at \/ record'[m].at = archiver[w].now
    <2>1. CASE archiver[w].meeting = m
      <3>1. record'[m] = [record[m] EXCEPT !.exists = TRUE, !.at = archiver[w].now]
        BY <1>1, <1>4, <2>1 DEF UpsertRecord
      <3>2. QED  BY <1>1, <3>1 DEF MeetingRecords
    <2>2. CASE archiver[w].meeting # m
      BY <1>1, <1>4, <2>2 DEF UpsertRecord
    <2>3. QED  BY <2>1, <2>2
  <1>5. ASSUME NEW c \in Cleaners, MarkLocalPurged(c) PROVE
          record'[m].extended = record[m].extended /\ record'[m].at = record[m].at
    <2>1. CASE cleaner[c].meeting = m
      <3>1. record'[m] = [record[m] EXCEPT !.purged = TRUE]
        BY <1>1, <1>5, <2>1 DEF MarkLocalPurged
      <3>2. QED  BY <1>1, <3>1 DEF MeetingRecords
    <2>2. CASE cleaner[c].meeting # m
      BY <1>1, <1>5, <2>2 DEF MarkLocalPurged
    <2>3. QED  BY <2>1, <2>2
  <1>6. ASSUME NEW e \in Meetings, ExtendRetention(e) PROVE
          record'[m].extended >= record[m].extended /\ record'[m].at = record[m].at
    <2>1. CASE e = m
      <3>1. record'[m] = [record[m] EXCEPT !.extended = record[m].extended + 1]
        BY <1>1, <1>6, <2>1 DEF ExtendRetention
      <3>2. record'[m].at = record[m].at /\ record'[m].extended = record[m].extended + 1
        BY <1>1, <3>1 DEF MeetingRecords
      <3>3. QED  BY <1>2, <3>2
    <2>2. CASE e # m
      BY <1>1, <1>2, <1>6, <2>2 DEF ExtendRetention
    <2>3. QED  BY <2>1, <2>2
  <1>7. ASSUME NEW a \in Assets, Download(a) \/ NasRots(a) PROVE UNCHANGED record
    BY <1>7 DEF Download, NasRots, tables
  <1>8. ASSUME NEW w \in Archivers, ArchiverStep(w) \/ ArchiverFails(w), ~UpsertRecord(w)
        PROVE  UNCHANGED record
    BY <1>8 DEF ArchiverStep, ArchiverFails, StartArchive, NextMeeting, NextAsset, BeginCopy,
      EndCopy, HashCopy, RecordAsset, Progress, FindRecord, tables
  <1>9. ASSUME NEW c \in Cleaners, CleanerStep(c) \/ CleanerFails(c), ~MarkLocalPurged(c)
        PROVE  UNCHANGED record
    BY <1>9 DEF CleanerStep, CleanerFails, StartCleanup, ListExpired, NextCandidate,
      LoadArchived, VerifyNasCopy, RecheckPause, DeleteLocal
  <1>10. ASSUME NEW p \in BOOLEAN, SetPaused(p) PROVE UNCHANGED record
    BY <1>10 DEF SetPaused
  <1>11. ASSUME NEW e \in Meetings, CheckExtension(e) PROVE UNCHANGED record
    BY <1>11 DEF CheckExtension, tables
  <1>12. CASE Advance
    BY <1>3, <1>12 DEF Advance, tables
  <1>13. CASE UNCHANGED vars
    BY <1>3, <1>13 DEF vars, tables
  <1>14. QED
    BY <1>2, <1>3, <1>4, <1>5, <1>6, <1>7, <1>8, <1>9, <1>10, <1>11, <1>12, <1>13 DEF Next

\* The dates stay in order: one archiver, so that no other date comes in between.
LEMMA WindowStep ==
  ASSUME OneArchiver, RetentionInv, WindowPart, [Next]_vars
  PROVE  /\ WindowPart'
         /\ \A m \in Meetings : record'[m].at >= record[m].at
  <1>1. clock \in Nat /\ clock' \in Nat /\ clock <= clock'
    <2>1. clock \in Nat
      BY RetentionAssumption DEF RetentionInv, TypeOK
    <2>2. clock' = clock \/ clock' = clock + 1
      BY DEF Next, Download, NasRots, ArchiverStep, ArchiverFails, StartArchive, NextMeeting,
        NextAsset, BeginCopy, EndCopy, HashCopy, RecordAsset, Progress, FindRecord,
        UpsertRecord, ArchiverOnly, CleanerStep, CleanerFails, StartCleanup, ListExpired,
        NextCandidate, LoadArchived, VerifyNasCopy, RecheckPause, DeleteLocal,
        MarkLocalPurged, CleanerOnly, SetPaused, CheckExtension, ExtendRetention, Advance, vars
    <2>3. QED  BY <2>1, <2>2
  <1>2. \A m \in Meetings : record[m].at \in Nat
    BY DEF RetentionInv, TypeOK, MeetingRecords
  <1>3. \A w \in Archivers : archiver[w].now \in Nat
    BY ArchiverFields DEF RetentionInv, TypeOK
  <1>4. ASSUME NEW w \in Archivers, UpsertRecord(w)
        PROVE  /\ archiver[w].now <= clock
               /\ \A m \in Meetings : record[m].at <= archiver[w].now
    BY <1>4 DEF UpsertRecord, WindowPart
  <1>5. \A m \in Meetings : record'[m].at >= record[m].at /\ record'[m].at <= clock
                              /\ record'[m].at \in Nat
    <2> TAKE m \in Meetings
    <2>1. CASE record'[m].at = record[m].at
      BY <1>2, <2>1 DEF WindowPart
    <2>2. ASSUME NEW w \in Archivers, UpsertRecord(w), record'[m].at = archiver[w].now
          PROVE  record'[m].at >= record[m].at /\ record'[m].at <= clock /\ record'[m].at \in Nat
      BY <1>2, <1>3, <1>4, <2>2
    <2>3. QED  BY <2>1, <2>2, RecordChanges
  <1>6. \A m \in Meetings : record'[m].at <= clock'
    BY <1>1, <1>5
  <1>7. ASSUME NEW w \in Archivers, archiver'[w].pc \notin {"idle", "next"}
        PROVE  /\ archiver'[w].now <= clock'
               /\ \A m \in Meetings : record'[m].at <= archiver'[w].now
    <2>1. CASE ArchiverStep(w) \/ ArchiverFails(w)
      <3>1. CASE archiver'[w].now = clock
        BY <1>1, <1>5, <3>1
      <3>2. CASE archiver'[w].now = archiver[w].now /\ archiver[w].pc \notin {"idle", "next"}
        <4>1. ~UpsertRecord(w)
          <5>1. ASSUME UpsertRecord(w) PROVE archiver'[w].pc = "next"
            BY <5>1, ArchiverFields, ArchiverRests
            DEF UpsertRecord, GiveUpMeeting, Archive, RetentionInv, TypeOK
          <5>2. QED  BY <1>7, <5>1
        <4>2. \A m \in Meetings : record'[m].at = record[m].at
          BY <4>1, RecordChanges DEF OneArchiver
        <4>3. QED  BY <1>1, <1>3, <3>2, <4>2 DEF WindowPart
      <3>3. QED  BY <1>7, <2>1, <3>1, <3>2, ArchiverKeepsDate
    <2>2. CASE ~(ArchiverStep(w) \/ ArchiverFails(w))
      <3>1. \A u \in Archivers : ~ArchiverStep(u) /\ ~ArchiverFails(u)
        BY <2>2 DEF OneArchiver
      <3>2. archiver' = archiver
        BY <3>1 DEF Next, Download, NasRots, CleanerStep, CleanerFails, StartCleanup,
          ListExpired, NextCandidate, LoadArchived, VerifyNasCopy, RecheckPause, DeleteLocal,
          MarkLocalPurged, CleanerOnly, SetPaused, CheckExtension, ExtendRetention, Advance, vars
      <3>3. \A m \in Meetings : record'[m].at = record[m].at
        BY <3>1, RecordChanges DEF ArchiverStep
      <3>4. QED  BY <1>1, <1>3, <1>7, <3>2, <3>3 DEF WindowPart
    <2>3. QED  BY <2>1, <2>2
  <1>8. QED  BY <1>5, <1>6, <1>7 DEF WindowPart

\* With one archiver a window never ends earlier than it did: archiving a late asset
\* again moves its start forward, and the days an administrator added stay, even if
\* they are added in the middle of the round.
THEOREM WindowsOnlyGrow == ASSUME OneArchiver PROVE Spec => WindowNeverShrinks
  <1>1. Init => WindowPart
    <2> SUFFICES ASSUME Init PROVE WindowPart
      OBVIOUS
    <2>1. \A m \in Meetings : record[m].at = 0
      BY DEF Init, NoRecord
    <2>2. \A w \in Archivers : archiver[w].pc = "idle"
      BY ArchiverRests DEF Init
    <2>3. QED  BY <2>1, <2>2 DEF Init, WindowPart
  <1>2. RetentionInv /\ WindowPart /\ [Next]_vars => WindowPart'
    BY WindowStep
  <1>3. RetentionInv /\ WindowPart /\ [Next]_vars =>
          [\A m \in Meetings :
             record[m].exists => /\ record'[m].at >= record[m].at
                                 /\ record'[m].extended >= record[m].extended]_vars
    BY WindowStep, RecordChanges
  <1>4. QED  BY <1>1, <1>2, <1>3, RetentionHolds, PTL DEF Spec, WindowNeverShrinks
=============================================================================
