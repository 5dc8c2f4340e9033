------------------------------ MODULE MCEngine ------------------------------
(***************************************************************************)
(* A small instance of the engine around the queue: one download           *)
(* (Downloader), discovery and probes of a meeting (Discovery), the        *)
(* directories of the recordings of a meeting (Directories), and the list  *)
(* of downloads that were given up (FailureMirror).  They share no state   *)
(* at this level: only the component in focus moves.                       *)
(***************************************************************************)
EXTENDS Downloader, Discovery, Directories, FailureMirror

CONSTANTS va, vb, ve, a1, v1, v2, n1

VARIABLE focus

-----------------------------------------------------------------------------
\* Three versions of an object: of two cells, of three, and empty.
VersionLength == [v \in Versions |-> IF v = va THEN 2 ELSE IF v = vb THEN 3 ELSE 0]

\* A download is followed until two slots have the row together; nothing is claimed of
\* it from then on.
FileMove == focus = "file" /\ ~overlapped /\ FileNext

-----------------------------------------------------------------------------
\* An audio is waited for, beside a video with two segments.
WaitedKinds == <<"video", "audio">>
FilesOfKinds == [k \in {"video", "audio"} |-> IF k = "video" THEN <<v1, v2>> ELSE <<a1>>]
AudioPulled == {{"audio"}}
AudioBans == {{}, {"audio"}}
ProbeBackoffs == <<1>>
\* Hosts die where the end of the meeting is known.
ProbeMove ==
  focus = "probes" /\ DiscoveryNext /\ (ended = NoTime => UNCHANGED crashed)

-----------------------------------------------------------------------------
\* Rounds are followed until the platform corrects a start time, or a process finds a
\* recording during another one's round.
DirectoryMove == focus = "directories" /\ edited = 0 /\ ~crossed /\ DirectoryNext

-----------------------------------------------------------------------------
\* Two rows of one meeting that may be given up.
Homes == [a \in FailAssets |-> n1]
MirrorMove == focus = "failures" /\ MirrorNext

-----------------------------------------------------------------------------
\* What is not in focus rests in one state.
EngineInit ==
  /\ focus \in {"file", "probes", "directories", "failures"}
  /\ focus # "file" => object = va /\ expected = NoSize
  /\ focus # "probes" => barred = {} /\ ended = 0
  /\ FileInit /\ DiscoveryInit /\ DirectoryInit /\ MirrorInit
  /\ ended = NoTime => barred = {}

EngineNext ==
  \/ FileMove /\ UNCHANGED <<focus, discoveryVars, directoryVars, mirrorVars>>
  \/ ProbeMove /\ UNCHANGED <<focus, fileVars, directoryVars, mirrorVars>>
  \/ DirectoryMove /\ UNCHANGED <<focus, fileVars, discoveryVars, mirrorVars>>
  \/ MirrorMove /\ UNCHANGED <<focus, fileVars, discoveryVars, directoryVars>>

engineVars == <<focus, fileVars, discoveryVars, directoryVars, mirrorVars>>
ProbeStep == ProbeMove /\ (\E h \in Hosts : HostStep(h)) /\ UNCHANGED <<focus, fileVars, directoryVars, mirrorVars>>
ProbeTick == ProbeMove /\ Tick /\ UNCHANGED <<focus, fileVars, directoryVars, mirrorVars>>

\* The rounds of one host or the other go on and time passes.
EngineSpec ==
  /\ EngineInit /\ [][EngineNext]_engineVars
  /\ WF_engineVars(ProbeTick) /\ WF_engineVars(ProbeStep)

\* Every variable of the four components holds a value of its kind.
EngineTypeOK == FileTypeOK /\ DiscoveryTypeOK /\ DirectoryTypeOK /\ MirrorTypeOK
=============================================================================
