----------------------------- MODULE Downloader -----------------------------
(***************************************************************************)
(* The download of one asset to disk: downloadAsset over the local storage *)
(* (downloader/index.ts, storage/local.ts, storage/nas.ts), as the slots   *)
(* of the executor run it.  The queue's lease may run out under a slot     *)
(* that is alive: another slot then claims the row and both write the same *)
(* .part file.                                                             *)
(*                                                                         *)
(* Every await is a step.  The meeting platform is external: a link leads  *)
(* to the version of the object that was current when it was issued; it    *)
(* may expire, the object may be replaced or vanish, the server may ignore *)
(* a Range or fail, a connection may break or stall, a body may come to    *)
(* its end early, and every round of discovery may write another announced *)
(* size into the row, whatever has become of it.  A file is a sequence of  *)
(* cells, each the version whose byte lies there or a hole.                *)
(***************************************************************************)
EXTENDS Integers, Sequences, FiniteSets

CONSTANTS
  Writers,      \* slots of executors
  Versions,     \* versions of the object
  Length,       \* [Versions -> cells]
  Sizes,        \* bytes_expected of the row: some of them a number, NoSize for NULL
  NoSize,
  NoFile,
  Renewals,     \* responses one download looks at before it gives up
  Takeovers,    \* bound: claims of a row whose slot still runs
  Replacements, \* bound: new versions
  Claims        \* bound: claims of the row

\* What a link leads to once the object is lost, and a cell that no byte was written to.
Gone == "gone"
Hole == "hole"
Cells == Versions \cup {Hole}

ASSUME DownloaderAssumption ==
  /\ Length \in [Versions -> Nat] /\ Gone \notin Versions /\ Hole \notin Versions
  /\ NoFile \notin Seq(Cells)
  /\ NoSize \notin Nat /\ Sizes \subseteq Nat \cup {NoSize}
  /\ Renewals \in Nat \ {0}
  /\ Takeovers \in Nat /\ Replacements \in Nat /\ Claims \in Nat

VARIABLES
  object,    \* the platform: version it has, or Gone
  expected,  \* bytes_expected
  part,      \* the .part file: a sequence of cells, or NoFile
  final,     \* the file under its own name
  verdict,   \* of the row: "queued", "claimed", "completed", "skipped"
  reported,  \* bytes_written and content_hash: what the finished download said the file holds;
             \* and, as a history, the announced size it had been given
  claimer,   \* the slot whose claim the row's attempts name
  writer,    \* [Writers -> state of a slot]
  overlapped,\* history: two slots ran the row together
  replaced,  \* history: versions issued after the first
  short,     \* history: the body that ended last had not brought the whole object
  claimed    \* claims so far

fileVars == <<object, expected, part, final, verdict, reported, claimer, writer,
              overlapped, replaced, short, claimed>>

Nothing == <<>>
NoOne == "no one"
Off == [pc |-> "off", link |-> Gone, size |-> 0, tries |-> 0, renewed |-> FALSE,
        text |-> Nothing, due |-> NoSize]
\* A slot that has claimed the row, and what the row announced.
Claimed(s) == [Off EXCEPT !.pc = "link", !.due = s]
WriterPcs == {"off", "link", "size", "fetch", "answer", "read", "end", "hash", "finalize",
              "completed", "missing", "failed"}
\* Who may still touch the file.
Running == {w \in Writers : writer[w].pc # "off"}

Size(f) == IF f = NoFile THEN 0 ELSE Len(f)
At(w, pc) == writer[w].pc = pc
To(w, row) == writer' = [writer EXCEPT ![w] = row]
On(w, pc) == To(w, [writer[w] EXCEPT !.pc = pc])
\* The parts a step of a download leaves alone.
Upstream == <<object, replaced>>
Queue == <<expected, verdict, reported, claimer, overlapped, claimed>>

-----------------------------------------------------------------------------
\* storage/local.ts

\* appendChunk: the first chunk truncates the file ("w"), a later one is written at its
\* offset ("r+"), beyond the end of a file that has become shorter too.
Appended(f, offset, v) ==
  LET old == IF offset = 0 THEN Nothing ELSE f
      n == IF Len(old) > offset + 1 THEN Len(old) ELSE offset + 1
  IN [i \in 1..n |-> IF i = offset + 1 THEN v ELSE IF i <= Len(old) THEN old[i] ELSE Hole]
CanAppend(f, offset) == offset = 0 \/ f # NoFile

-----------------------------------------------------------------------------
\* The queue, as AssetQueue describes it

\* A claim: of a queued row, or of one whose lease ran out while its slot still runs.  The
\* row it returns is what the slot knows of the announced size from then on.
Claim(w) ==
  /\ At(w, "off") /\ claimed < Claims
  /\ \/ verdict = "queued"
     \/ verdict = "claimed" /\ (claimer \in Running => Cardinality(Running) <= Takeovers)
  /\ verdict' = "claimed" /\ claimer' = w /\ claimed' = claimed + 1
  /\ overlapped' = (overlapped \/ Running # {})
  /\ To(w, Claimed(expected))
  /\ UNCHANGED <<object, expected, part, final, reported, replaced, short>>

\* The write-back of handleOne: it is lost when the row was claimed again.
WriteBack(w) ==
  /\ writer[w].pc \in {"completed", "missing", "failed"}
  /\ IF claimer = w /\ verdict = "claimed"
     THEN /\ verdict' = CASE At(w, "completed") -> "completed"
                          [] At(w, "missing") -> "skipped"
                          [] At(w, "failed") -> "queued"
          /\ reported' = IF At(w, "completed")
                         THEN [size |-> writer[w].size, text |-> writer[w].text,
                               due |-> writer[w].due]
                         ELSE reported
     ELSE UNCHANGED <<verdict, reported>>
  /\ To(w, Off)
  /\ UNCHANGED <<Upstream, expected, part, final, claimer, overlapped, short, claimed>>

\* upsertAsset, which every round of discovery calls for a recording that is there: the
\* announced size is taken over if there is one, whatever the status of the row.
Announce(s) ==
  /\ expected' = IF s = NoSize THEN expected ELSE s
  /\ UNCHANGED <<Upstream, part, final, verdict, reported, claimer, writer, overlapped, short,
                 claimed>>

\* The process dies: whatever its slot was doing is left as it is.
SlotDies(w) ==
  /\ ~At(w, "off") /\ To(w, Off)
  /\ UNCHANGED <<Upstream, Queue, part, final, short>>

-----------------------------------------------------------------------------
\* downloadAsset

\* getDownloadUrl, for the first link and for every other: a lost object has links too.
GetLink(w) ==
  /\ At(w, "link")
  /\ \/ To(w, [writer[w] EXCEPT !.pc = "size", !.link = object])
     \/ On(w, "failed")
  /\ UNCHANGED <<Upstream, Queue, part, final, short>>

\* The head of the loop: so many answers at most; writtenSize.
WrittenSize(w) ==
  /\ At(w, "size")
  /\ IF writer[w].tries < Renewals
     THEN To(w, [writer[w] EXCEPT !.pc = "fetch", !.tries = @ + 1, !.size = Size(part)])
     ELSE On(w, "failed")
  /\ UNCHANGED <<Upstream, Queue, part, final, short>>

\* 404: once, another link is asked for, and what was written is thrown away.
NotFound(w) ==
  IF writer[w].renewed THEN On(w, "missing") /\ UNCHANGED part
  ELSE To(w, [writer[w] EXCEPT !.pc = "link", !.renewed = TRUE]) /\ part' = NoFile

\* 200: the server sends everything; what was written is thrown away.
WholeBody(w) ==
  /\ To(w, [writer[w] EXCEPT !.pc = "read", !.size = 0])
  /\ part' = IF writer[w].size > 0 THEN NoFile ELSE part

\* 416: there is nothing from here on; the file starts over under another link.
OutOfRange(w) == On(w, "link") /\ part' = NoFile

\* The answer to the request with Range: size-.  An old link may go on serving the
\* version it was issued for, or lead nowhere.
Answer(w) ==
  LET v == writer[w].link
      k == writer[w].size
      found == object # Gone /\ v # Gone IN
  /\ At(w, "fetch")
  /\ \/ On(w, "link") /\ UNCHANGED part             \* 403, 410, 5xx: another link
     \/ On(w, "failed") /\ UNCHANGED part           \* another status, an error, no answer
     \/ (v = Gone \/ object # v) /\ NotFound(w)
     \/ found /\ k > 0 /\ k >= Length[v] /\ OutOfRange(w)
     \/ found /\ WholeBody(w)
     \/ /\ found /\ k > 0 /\ k < Length[v]           \* 206
        /\ On(w, "read") /\ UNCHANGED part
  /\ UNCHANGED <<Upstream, Queue, final, short>>

\* A chunk arrives, or the body ends: with the object, or before it when nothing says how
\* long the body is, for `done` is all that is looked at.  Or the connection breaks or
\* stalls; writing into a file that is no longer there throws.
ReadChunk(w) ==
  LET k == writer[w].size  v == writer[w].link IN
  /\ At(w, "read")
  /\ \/ /\ k < Length[v] /\ CanAppend(part, k)
        /\ part' = Appended(part, k, v)
        /\ To(w, [writer[w] EXCEPT !.size = k + 1])
        /\ UNCHANGED short
     \/ k <= Length[v] /\ On(w, "end") /\ short' = (k < Length[v]) /\ UNCHANGED part
     \/ On(w, "failed") /\ UNCHANGED <<part, short>>
  /\ UNCHANGED <<Upstream, Queue, final>>

\* Mutant: the size that the platform announced is not compared.
SizeUnchecked(w) == TRUE

\* A size that was announced when the row was claimed must be the one that came.
SizeAgrees(w) == writer[w].due = NoSize \/ writer[w].size = writer[w].due

\* The end of the body: an empty one still makes a file; then the size is compared.
EndOfBody(w) ==
  /\ At(w, "end")
  /\ part' = IF writer[w].size = 0 THEN Nothing ELSE part
  /\ On(w, IF SizeAgrees(w) THEN "hash" ELSE "failed")
  /\ UNCHANGED <<Upstream, Queue, final, short>>

\* hashFile, of a text asset: the .part file is read.
HashFile(w) ==
  /\ At(w, "hash")
  /\ IF part = NoFile THEN On(w, "failed")
     ELSE To(w, [writer[w] EXCEPT !.pc = "finalize", !.text = part])
  /\ UNCHANGED <<Upstream, Queue, part, final, short>>

\* finalize: the rename, which throws when there is nothing to rename.
Finalize(w) ==
  /\ At(w, "finalize")
  /\ IF part = NoFile
     THEN On(w, "failed") /\ UNCHANGED <<part, final>>
     ELSE On(w, "completed") /\ final' = part /\ part' = NoFile
  /\ UNCHANGED <<Upstream, Queue, short>>

-----------------------------------------------------------------------------
\* The platform

\* Another version takes the object's place, or it vanishes for good.
Replace ==
  /\ Cardinality(replaced) < Replacements
  /\ \E v \in (Versions \ replaced) \ {object} :
       object # Gone /\ object' = v /\ replaced' = replaced \cup {v}
  /\ UNCHANGED <<Queue, part, final, writer, short>>
Vanish ==
  /\ object # Gone /\ object' = Gone
  /\ UNCHANGED <<replaced, Queue, part, final, writer, short>>

FileInit ==
  /\ object \in Versions /\ expected \in Sizes
  /\ part = NoFile /\ final = NoFile
  /\ verdict = "queued" /\ claimer = NoOne /\ claimed = 0
  /\ reported = [size |-> 0, text |-> Nothing, due |-> NoSize]
  /\ writer = [w \in Writers |-> Off]
  /\ overlapped = FALSE /\ replaced = {} /\ short = FALSE

SlotStep(w) ==
  \/ Claim(w) \/ WriteBack(w) \/ SlotDies(w)
  \/ GetLink(w) \/ WrittenSize(w) \/ Answer(w) \/ ReadChunk(w)
  \/ EndOfBody(w) \/ HashFile(w) \/ Finalize(w)

FileNext ==
  (\E w \in Writers : SlotStep(w)) \/ (\E s \in Sizes : Announce(s)) \/ Replace \/ Vanish

FileSpec == FileInit /\ [][FileNext]_fileVars

-----------------------------------------------------------------------------
FileTypeOK ==
  /\ object \in Versions \cup {Gone} /\ expected \in Sizes
  /\ \A f \in {part, final} : f = NoFile \/ \A i \in 1..Len(f) : f[i] \in Cells
  /\ verdict \in {"queued", "claimed", "completed", "skipped"}
  /\ claimer \in Writers \cup {NoOne}
  /\ \A w \in Writers : writer[w].pc \in WriterPcs /\ writer[w].link \in Versions \cup {Gone}

\* The file begins as version v does, and holds nothing else; all of v if the body that
\* made it was not cut short.
Begins(f, v) ==
  /\ Len(f) <= Length[v] /\ \A i \in 1..Len(f) : f[i] = v
  /\ ~short => Len(f) = Length[v]

\* What a completed row says of its file is so, through broken connections, bodies that
\* end early, renewed links, servers that ignore the Range, slots that die half-way and
\* announced sizes that change in between, as long as no two slots had the row together:
\* the file has the size and the contents that were reported, no part of it is missing in
\* the middle, its size is the one that was announced when the row was claimed if one was,
\* and it is one version of the object, to its end unless the body was cut short, unless
\* the object changed meanwhile.  (bytes_expected may be another by now: Announce.)
CompletedFileHonest ==
  verdict = "completed" /\ ~overlapped =>
    /\ final # NoFile
    /\ Len(final) = reported.size /\ final = reported.text
    /\ \A i \in 1..Len(final) : final[i] # Hole
    /\ reported.due # NoSize => Len(final) = reported.due
    /\ replaced = {} => \E v \in Versions : Begins(final, v)
=============================================================================
