---------------------------- MODULE Directories ----------------------------
(***************************************************************************)
(* Where the files of a recording go: the directory ordinals of            *)
(* domain/dir-ordinal.ts, the path that handleOne builds from the map of   *)
(* its round (executor/index.ts), and the sidecars written at its end      *)
(* (manifest/index.ts).  One meeting_id, whose recordings may begin in     *)
(* the same minute; each has one file, of the same name.                   *)
(*                                                                         *)
(* A directory is named on every round anew, from the meetings table, and  *)
(* the files of earlier rounds lie in it: the names have to stay.          *)
(***************************************************************************)
EXTENDS Integers, FiniteSets

CONSTANTS
  Processes,   \* those that run rounds: the scheduler, a one-shot worker
  Recordings,  \* sub_meeting_ids: numbers, in the order of the strings
  Minutes,     \* start times
  LastTime,    \* bound: the clock
  Edits,       \* bound: start times the platform changes
  Deaths       \* bound: hosts that die

ASSUME DirectoriesAssumption ==
  /\ Recordings \cup Minutes \subseteq Nat \ {0} /\ IsFiniteSet(Recordings)
  /\ LastTime \in Nat /\ Edits \in Nat /\ Deaths \in Nat

VARIABLES
  time,
  platform,  \* [recording -> its start minute, or Unknown]
  meetings,  \* the meetings table: [recording -> [start, created], or NoRow]
  asset,     \* the assets table: [recording -> [status, path]]
  disk,      \* [directory -> whose file lies in it]
  sidecar,   \* [directory -> whose meeting.json and _manifest.json lie in it]
  round,     \* [Processes -> state of its round]
  edited,    \* history: start times changed so far
  crossed,   \* history: a host discovered a recording during another one's round
  died

outside == <<time, platform, edited, died>>
directoryVars == <<outside, meetings, asset, disk, sidecar, round, crossed>>

Unknown == 0
Nobody == 0
NoRow == [start |-> Unknown, created |-> 0]
NoAsset == [status |-> "none", path |-> <<>>]
NoMap == <<>>
AtRest == [pc |-> "off", now |-> 0, todo |-> {}, map |-> NoMap, works |-> Nobody]

Ordinals == 1..Cardinality(Recordings)
Directory == Minutes \X Ordinals
Known == {r \in Recordings : meetings[r] # NoRow}
Step(h, row) == round' = [round EXCEPT ![h] = row]

-----------------------------------------------------------------------------
\* Mutant: siblings are told apart by sub_meeting_id alone.
BeforeById(x, r) == x <= r

\* The order of assignDirOrdinals: first discovery, then sub_meeting_id.
Before(x, r) ==
  \/ meetings[x].created < meetings[r].created
  \/ meetings[x].created = meetings[r].created /\ x <= r

\* Mutant: the place is counted from zero.
DirOrdinalFromZero(r) ==
  Cardinality({x \in Known \ {r} : meetings[x].start = meetings[r].start /\ Before(x, r)})

\* assignDirOrdinals: the place of a recording among those with the same directory name.
DirOrdinal(r) ==
  Cardinality({x \in Known : meetings[x].start = meetings[r].start /\ Before(x, r)})

-----------------------------------------------------------------------------
\* discover: one time for the whole round, one statement per recording.  Rounds take
\* longer than the second that created_at is kept in.
BeginRound(h) ==
  /\ round[h].pc = "off"
  /\ \A r \in Known : meetings[r].created < time
  /\ Step(h, [AtRest EXCEPT !.pc = "scan", !.now = time,
                            !.todo = {r \in Recordings : platform[r] # Unknown}])
  /\ UNCHANGED <<outside, meetings, asset, disk, sidecar, crossed>>

\* upsertMeeting: created_at stays, the start time follows the platform; then upsertAsset.
UpsertMeeting(h) ==
  /\ round[h].pc = "scan"
  /\ \E r \in round[h].todo :
       /\ meetings' = [meetings EXCEPT ![r] =
            [start |-> platform[r],
             created |-> IF r \in Known THEN meetings[r].created ELSE round[h].now]]
       /\ asset' = [asset EXCEPT ![r] =
            IF @ = NoAsset THEN [NoAsset EXCEPT !.status = "pending"] ELSE @]
       /\ crossed' = (\/ crossed
                      \/ r \notin Known /\ \E g \in Processes \ {h} : round[g].pc # "off")
       /\ Step(h, [round[h] EXCEPT !.todo = @ \ {r}])
  /\ UNCHANGED <<outside, disk, sidecar>>

\* meetingsForPaths: directories as the table gives them now, for the rest of the round.
MeetingsForPaths(h) ==
  /\ round[h].pc = "scan" /\ round[h].todo = {}
  /\ Step(h, [round[h] EXCEPT !.pc = "run",
        !.map = [r \in Known |-> <<meetings[r].start, DirOrdinal(r)>>]])
  /\ UNCHANGED <<outside, meetings, asset, disk, sidecar, crossed>>

\* claimNext; a row whose host died is claimed once its lease has run out.
Claimable(r) ==
  \/ asset[r].status = "pending"
  \/ asset[r].status = "running" /\ \A g \in Processes : round[g].works # r

\* handleOne up to setTargetPath: a recording the map does not know is skipped for good.
ClaimRow(h) ==
  /\ round[h].pc = "run" /\ round[h].works = Nobody
  /\ \E r \in Recordings :
       /\ Claimable(r)
       /\ IF r \in DOMAIN round[h].map
          THEN /\ asset' = [asset EXCEPT ![r] = [status |-> "running", path |-> round[h].map[r]]]
               /\ Step(h, [round[h] EXCEPT !.works = r])
          ELSE /\ asset' = [asset EXCEPT ![r].status = "skipped"]
               /\ UNCHANGED round
  /\ UNCHANGED <<outside, meetings, disk, sidecar, crossed>>

\* The download is renamed into place, and reported.
FinishRow(h) ==
  /\ round[h].works # Nobody
  /\ LET r == round[h].works IN
       /\ disk' = [disk EXCEPT ![round[h].map[r]] = r]
       /\ asset' = [asset EXCEPT ![r].status = "completed"]
  /\ Step(h, [round[h] EXCEPT !.works = Nobody])
  /\ UNCHANGED <<outside, meetings, sidecar, crossed>>

\* The queue is empty: the sidecars of every recording of the map.
BeginManifests(h) ==
  /\ round[h].pc = "run" /\ round[h].works = Nobody
  /\ \A r \in Recordings : ~Claimable(r)
  /\ Step(h, [round[h] EXCEPT !.pc = "manifest", !.todo = DOMAIN round[h].map])
  /\ UNCHANGED <<outside, meetings, asset, disk, sidecar, crossed>>

\* Only what lies in this directory is listed.
LiesIn(r, dir) == asset[r].status = "completed" /\ asset[r].path = dir

\* writeMeetingManifest: the start time is read again, the ordinal is the map's.
WriteMeetingManifest(h) ==
  /\ round[h].pc = "manifest"
  /\ \E r \in round[h].todo :
       LET dir == <<meetings[r].start, round[h].map[r][2]>> IN
       /\ sidecar' = IF LiesIn(r, dir) THEN [sidecar EXCEPT ![dir] = r] ELSE sidecar
       /\ Step(h, [round[h] EXCEPT !.todo = @ \ {r}])
  /\ UNCHANGED <<outside, meetings, asset, disk, crossed>>

FinishRound(h) ==
  /\ round[h].pc = "manifest" /\ round[h].todo = {}
  /\ Step(h, AtRest)
  /\ UNCHANGED <<outside, meetings, asset, disk, sidecar, crossed>>

Dies(h) ==
  /\ round[h].pc # "off" /\ died < Deaths
  /\ died' = died + 1 /\ Step(h, AtRest)
  /\ UNCHANGED <<time, platform, edited, meetings, asset, disk, sidecar, crossed>>

-----------------------------------------------------------------------------
\* The platform shows another recording, or corrects a start time.
Appear ==
  /\ \E r \in Recordings, m \in Minutes :
       platform[r] = Unknown /\ platform' = [platform EXCEPT ![r] = m]
  /\ UNCHANGED <<time, edited, died, meetings, asset, disk, sidecar, round, crossed>>
EditStart ==
  /\ edited < Edits /\ edited' = edited + 1
  /\ \E r \in Recordings, m \in Minutes :
       platform[r] \notin {Unknown, m} /\ platform' = [platform EXCEPT ![r] = m]
  /\ UNCHANGED <<time, died, meetings, asset, disk, sidecar, round, crossed>>
TimePasses ==
  /\ time < LastTime /\ time' = time + 1
  /\ UNCHANGED <<platform, edited, died, meetings, asset, disk, sidecar, round, crossed>>

DirectoryInit ==
  /\ time = 0 /\ edited = 0 /\ died = 0 /\ crossed = FALSE
  /\ platform = [r \in Recordings |-> Unknown]
  /\ meetings = [r \in Recordings |-> NoRow]
  /\ asset = [r \in Recordings |-> NoAsset]
  /\ disk = [d \in Directory |-> Nobody] /\ sidecar = [d \in Directory |-> Nobody]
  /\ round = [h \in Processes |-> AtRest]

RoundStep(h) ==
  \/ BeginRound(h) \/ UpsertMeeting(h) \/ MeetingsForPaths(h) \/ ClaimRow(h) \/ FinishRow(h)
  \/ BeginManifests(h) \/ WriteMeetingManifest(h) \/ FinishRound(h) \/ Dies(h)

DirectoryNext == (\E h \in Processes : RoundStep(h)) \/ Appear \/ EditStart \/ TimePasses
DirectorySpec == DirectoryInit /\ [][DirectoryNext]_directoryVars

-----------------------------------------------------------------------------
DirectoryTypeOK ==
  /\ platform \in [Recordings -> Minutes \cup {Unknown}]
  /\ \A r \in Recordings : asset[r].status \in {"none", "pending", "running", "completed", "skipped"}
  /\ \A r \in Recordings : asset[r].path \in Directory \cup {<<>>}
  /\ disk \in [Directory -> Recordings \cup {Nobody}]
  /\ sidecar \in [Directory -> Recordings \cup {Nobody}]
  /\ \A h \in Processes : round[h].pc \in {"off", "scan", "run", "manifest"}

\* A finished file stays where its row says, the sidecars beside it are its own, and no
\* row is given up for want of its meeting: through recordings found later that begin in
\* the same minute, deaths of a host and rounds of several hosts, as long as the platform
\* corrects no start time and no host finds a recording during another one's round.
FilesKeepTheirPlace ==
  edited = 0 /\ ~crossed =>
    /\ \A r \in Recordings :
         /\ asset[r].status = "completed" => disk[asset[r].path] = r
         /\ asset[r].status # "skipped"
    /\ \A d \in Directory : sidecar[d] # Nobody => disk[d] = sidecar[d]
=============================================================================
