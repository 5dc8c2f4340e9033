---------------------------- MODULE EngineProofs ----------------------------
(***************************************************************************)
(* Proofs about the four components around the queue, which keep no state  *)
(* in common: Downloader, for any slots, versions of the object and sizes; *)
(* Discovery, for any hosts, kinds of asset, files, rules and backoff;     *)
(* Directories, for any recordings, start times and processes; and         *)
(* FailureMirror, for any rows, meetings, requests of the console and      *)
(* mishaps.  The last part is about MCEngine: what it runs is each of      *)
(* the four and nothing else.                                              *)
(***************************************************************************)
EXTENDS MCEngine, FiniteSetTheorems, SequenceTheorems, TLAPS

-----------------------------------------------------------------------------
(* The download of one asset *)

Contents == Seq(Cells)
WriterRows == [pc : WriterPcs, link : Versions \cup {Gone}, size : Nat, tries : Nat,
               renewed : BOOLEAN, text : Contents, due : Sizes \cup {NoSize}]

\* Every variable of the Downloader has a value of its kind.
FileTypes ==
  /\ object \in Versions \cup {Gone} /\ expected \in Sizes
  /\ part \in Contents \cup {NoFile} /\ final \in Contents \cup {NoFile}
  /\ verdict \in {"queued", "claimed", "completed", "skipped"}
  /\ reported \in [size : Nat, text : Contents, due : Sizes \cup {NoSize}]
  /\ claimer \in Writers \cup {NoOne}
  /\ writer \in [Writers -> WriterRows]
  /\ \A w \in Writers : writer[w].pc \in {"read", "end"} => writer[w].link \in Versions
  /\ overlapped \in BOOLEAN /\ replaced \subseteq Versions /\ short \in BOOLEAN /\ claimed \in Nat

\* Nobody but the slot that holds the claim runs the row.
Alone == \A w \in Writers : ~At(w, "off") => claimer = w /\ verdict = "claimed"

\* A file without holes.
Solid(f) == f \in Seq(Versions)

\* How far a slot has come, and what it knows of the files p (.part) and f and of the size
\* that was announced when it claimed the row.
Progress(row, p, f) ==
  /\ row.pc = "fetch" => row.size = Size(p)
  /\ row.pc \in {"read", "end"} => row.size = Size(p) /\ row.size <= Length[row.link]
  /\ row.pc \in {"hash", "finalize"} => p # NoFile /\ row.size = Len(p)
  /\ row.pc = "finalize" => row.text = p
  /\ row.pc = "completed" => f # NoFile /\ Solid(f) /\ row.size = Len(f) /\ row.text = f
  /\ row.pc \in {"hash", "finalize", "completed"} /\ row.due # NoSize => row.size = row.due

\* Every byte that is read or kept comes from version v, and all of v is kept unless the
\* last body was cut short (s).
AllOf(f, v) == \A i \in 1..Len(f) : f[i] = v
UpTo(n, v, s) == n <= Length[v] /\ (~s => n = Length[v])
AllFrom(row, p, f, v, s) ==
  /\ row.link \in {v, Gone}
  /\ row.pc = "end" => UpTo(row.size, v, s)
  /\ row.pc \in {"hash", "finalize"} => UpTo(Len(p), v, s)
  /\ row.pc = "completed" => UpTo(Len(f), v, s) /\ AllOf(f, v)
Only(v) ==
  /\ object \in {v, Gone}
  /\ part # NoFile => AllOf(part, v)
  /\ \A w \in Writers : AllFrom(writer[w], part, final, v, short)
  /\ verdict = "completed" => UpTo(Len(final), v, short) /\ AllOf(final, v)

\* As long as no two slots have had the row together.
Honest ==
  /\ Alone
  /\ part # NoFile => Solid(part)
  /\ \A w \in Writers : Progress(writer[w], part, final)
  /\ verdict = "completed" =>
       /\ final # NoFile /\ Solid(final)
       /\ Len(final) = reported.size /\ final = reported.text
       /\ reported.due # NoSize => Len(final) = reported.due
  /\ replaced = {} => \E v \in Versions : Only(v)

FileInv == FileTypes /\ (~overlapped => Honest)

\* One more chunk makes a file again, of the older one's cells, a hole or the chunk.
LEMMA AppendedIsFile ==
  ASSUME NEW f \in Contents \cup {NoFile}, NEW k \in Nat, NEW v \in Versions, CanAppend(f, k)
  PROVE  Appended(f, k, v) \in Contents
  <1> DEFINE old == IF k = 0 THEN Nothing ELSE f
             n == IF Len(old) > k + 1 THEN Len(old) ELSE k + 1
             cell(i) == IF i = k + 1 THEN v ELSE IF i <= Len(old) THEN old[i] ELSE Hole
  <1>1. old \in Seq(Cells)
    BY DEF CanAppend, Contents, Nothing
  <1>2. Len(old) \in Nat /\ \A i \in 1..Len(old) : old[i] \in Cells
    BY <1>1
  <1> HIDE DEF old
  <1>3. n \in Nat
    BY <1>2
  <1>4. \A i \in 1..n : cell(i) \in Cells
    BY <1>2 DEF Cells
  <1>5. Appended(f, k, v) = [i \in 1..n |-> cell(i)]
    BY DEF Appended, old
  <1> HIDE DEF n, cell
  <1>6. QED  BY <1>3, <1>4, <1>5 DEF Contents

\* The chunk that follows the last one makes the file one cell longer, and leaves no hole.
LEMMA AppendedNext ==
  ASSUME NEW f \in Contents \cup {NoFile}, NEW v \in Versions, f # NoFile => Solid(f)
  PROVE  LET g == Appended(f, Size(f), v) IN
         /\ g \in Seq(Versions) /\ Len(g) = Size(f) + 1 /\ g[Size(f) + 1] = v
         /\ \A i \in 1..Size(f) : g[i] = f[i]
  <1> DEFINE old == IF Size(f) = 0 THEN Nothing ELSE f
             k == Size(f)
             cell(i) == IF i = k + 1 THEN v ELSE IF i <= Len(old) THEN old[i] ELSE Hole
  <1>1. old \in Seq(Versions) /\ Len(old) = k /\ k \in Nat
    BY DEF Size, Solid, Nothing, Contents
  <1>2. \A i \in 1..k : old[i] = f[i] /\ old[i] \in Versions
    BY <1>1 DEF Size, Solid, Nothing
  <1>3. Appended(f, k, v) = [i \in 1..(IF Len(old) > k + 1 THEN Len(old) ELSE k + 1) |-> cell(i)]
    BY DEF Appended
  <1> HIDE DEF old, k
  <1>4. (IF Len(old) > k + 1 THEN Len(old) ELSE k + 1) = k + 1
    BY <1>1
  <1>5. \A i \in 1..(k + 1) : cell(i) \in Versions
    BY <1>1, <1>2
  <1>6. cell(k + 1) = v /\ \A i \in 1..k : cell(i) = f[i]
    BY <1>1, <1>2
  <1>7. Appended(f, k, v) = [i \in 1..(k + 1) |-> cell(i)]
    BY <1>3, <1>4
  <1> HIDE DEF cell
  <1>8. /\ Appended(f, k, v) \in Seq(Versions) /\ Len(Appended(f, k, v)) = k + 1
        /\ Appended(f, k, v)[k + 1] = v /\ \A i \in 1..k : Appended(f, k, v)[i] = f[i]
    BY <1>1, <1>5, <1>6, <1>7
  <1>9. QED  BY <1>8 DEF k

\* What a step makes of a slot.
LEMMA RowMoves ==
  ASSUME NEW row \in WriterRows
  PROVE  /\ \A pc \in WriterPcs : [row EXCEPT !.pc = pc] \in WriterRows
         /\ \A v \in Versions \cup {Gone} : [row EXCEPT !.pc = "size", !.link = v] \in WriterRows
         /\ \A n \in Nat : [row EXCEPT !.pc = "fetch", !.tries = row.tries + 1,
            !.size = n] \in WriterRows
         /\ [row EXCEPT !.pc = "link", !.renewed = TRUE] \in WriterRows
         /\ \A n \in Nat : [row EXCEPT !.pc = "read", !.size = n] \in WriterRows
         /\ \A n \in Nat : [row EXCEPT !.size = n] \in WriterRows
         /\ \A t \in Contents : [row EXCEPT !.pc = "finalize", !.text = t] \in WriterRows
  <1>1. row \in [pc : WriterPcs, link : Versions \cup {Gone}, size : Nat, tries : Nat,
                 renewed : BOOLEAN, text : Contents, due : Sizes \cup {NoSize}]
    BY DEF WriterRows
  <1>2. \A pc \in WriterPcs : [row EXCEPT !.pc = pc] \in WriterRows
    BY <1>1 DEF WriterRows
  <1>3. {"size", "fetch", "link", "read", "finalize"} \subseteq WriterPcs /\ row.tries + 1 \in Nat
    BY <1>1 DEF WriterPcs
  <1>4. \A v \in Versions \cup {Gone} : [row EXCEPT !.pc = "size", !.link = v] \in WriterRows
    BY <1>1, <1>3 DEF WriterRows
  <1>5. \A n \in Nat : [row EXCEPT !.pc = "fetch", !.tries = row.tries + 1,
          !.size = n] \in WriterRows
    BY <1>1, <1>3 DEF WriterRows
  <1>6. [row EXCEPT !.pc = "link", !.renewed = TRUE] \in WriterRows
    BY <1>1, <1>3 DEF WriterRows
  <1>7. \A n \in Nat : [row EXCEPT !.pc = "read", !.size = n] \in WriterRows
    BY <1>1, <1>3 DEF WriterRows
  <1>8. \A n \in Nat : [row EXCEPT !.size = n] \in WriterRows
    BY <1>1, <1>3 DEF WriterRows
  <1>9. \A t \in Contents : [row EXCEPT !.pc = "finalize", !.text = t] \in WriterRows
    BY <1>1, <1>3 DEF WriterRows
  <1>10. QED  BY <1>2, <1>4, <1>5, <1>6, <1>7, <1>8, <1>9

\* A slot that rests, or asks for its first link, is one.
LEMMA OffIsRow ==
  /\ Off \in WriterRows
  /\ \A s \in Sizes : Claimed(s) \in WriterRows /\ Claimed(s).pc = "link" /\ Claimed(s).link = Gone
  <1>1. Nothing \in Contents
    BY DEF Contents, Nothing
  <1>2. Off \in WriterRows
    BY <1>1 DEF Off, WriterRows, WriterPcs
  <1>3. ASSUME NEW s \in Sizes
        PROVE  Claimed(s) \in WriterRows /\ Claimed(s).pc = "link" /\ Claimed(s).link = Gone
    <2>1. [Off EXCEPT !.pc = "link"] \in WriterRows /\ [Off EXCEPT !.pc = "link"].link = Gone
          /\ [Off EXCEPT !.pc = "link"].pc = "link"
      BY <1>1 DEF Off, WriterRows, WriterPcs
    <2>2. Claimed(s) = [[Off EXCEPT !.pc = "link"] EXCEPT !.due = s]
      BY DEF Claimed
    <2> DEFINE row == [Off EXCEPT !.pc = "link"]
    <2> HIDE DEF row
    <2>3. row \in WriterRows => [row EXCEPT !.due = s] \in WriterRows
      BY DEF WriterRows
    <2>4. row \in WriterRows => [row EXCEPT !.due = s].pc = row.pc /\ [row EXCEPT !.due = s].link = row.link
      BY DEF WriterRows
    <2>5. QED  BY <2>1, <2>2, <2>3, <2>4 DEF row
  <1>4. QED  BY <1>2, <1>3

\* What is written, counted.
LEMMA SizeIsNat == part \in Contents \cup {NoFile} => Size(part) \in Nat
  BY DEF Size, Contents

\* Every step of a download keeps every variable in its type.
LEMMA FileTypeStep == FileTypes /\ [FileNext]_fileVars => FileTypes'
  <1> SUFFICES ASSUME FileTypes, [FileNext]_fileVars PROVE FileTypes'
    OBVIOUS
  <1> USE DownloaderAssumption, OffIsRow
  <1> DEFINE
        Typed(w, row) ==
          row \in WriterRows /\ To(w, row) /\ (row.pc \in {"read", "end"} => row.link \in Versions)
  <1>0. ASSUME NEW w \in Writers, NEW row, Typed(w, row)
        PROVE  /\ writer' \in [Writers -> WriterRows]
               /\ \A x \in Writers : writer'[x].pc \in {"read", "end"} =>
                    writer'[x].link \in Versions
    <2>1. writer' = [writer EXCEPT ![w] = row] /\ row \in WriterRows
      BY <1>0 DEF To
    <2>2. writer \in [Writers -> WriterRows]
      BY DEF FileTypes
    <2>3. \A x \in Writers : writer'[x] = (IF x = w THEN row ELSE writer[x])
      BY <2>1, <2>2
    <2>4. \A x \in Writers : writer'[x].pc \in {"read", "end"} => writer'[x].link \in Versions
      BY <1>0, <2>3 DEF FileTypes
    <2>5. QED  BY <2>1, <2>2, <2>4
  <1>a. \A w \in Writers :
          /\ writer[w] \in WriterRows /\ writer[w].tries \in Nat
          /\ writer[w].size \in Nat /\ writer[w].text \in Contents
    BY DEF FileTypes, WriterRows
  <1>1. ASSUME NEW w \in Writers, Claim(w) PROVE FileTypes'
    <2>1. Typed(w, Claimed(expected))
      BY <1>1 DEF Claim, FileTypes
    <2>2. overlapped' \in BOOLEAN
      BY <1>1, Zenon DEF Claim
    <2>3. claimed' \in Nat
      BY <1>1 DEF Claim, FileTypes
    <2>4. QED  BY <1>1, <2>1, <2>2, <2>3, <1>0 DEF Claim, FileTypes
  <1>2. ASSUME NEW w \in Writers, WriteBack(w) PROVE FileTypes'
    <2>1. Typed(w, Off)
      BY <1>2 DEF WriteBack, Off
    <2>2. verdict' \in {"queued", "claimed", "completed", "skipped"}
      BY <1>2 DEF WriteBack, FileTypes, At
    <2>a. writer[w].due \in Sizes \cup {NoSize}
      BY DEF FileTypes, WriterRows
    <2>3. reported' \in [size : Nat, text : Contents, due : Sizes \cup {NoSize}]
      BY <1>2, <1>a, <2>a DEF WriteBack, FileTypes
    <2>4. QED  BY <1>2, <2>1, <2>2, <2>3, <1>0 DEF WriteBack, FileTypes, Upstream
  <1>3. ASSUME NEW w \in Writers, SlotDies(w) PROVE FileTypes'
    <2>1. Typed(w, Off)
      BY <1>3 DEF SlotDies, Off
    <2>2. QED  BY <1>3, <2>1, <1>0 DEF SlotDies, FileTypes, Upstream, Queue
  <1>4. ASSUME NEW w \in Writers, NEW pc \in WriterPcs \ {"read", "end"}, On(w, pc)
        PROVE  Typed(w, [writer[w] EXCEPT !.pc = pc])
    <2>1. [writer[w] EXCEPT !.pc = pc] \in WriterRows
      BY <1>a, RowMoves
    <2>2. [writer[w] EXCEPT !.pc = pc].pc = pc
      BY <1>a DEF WriterRows
    <2>3. QED  BY <1>4, <2>1, <2>2 DEF On
  <1>b. ASSUME NEW w \in Writers, NEW pc \in {"read", "end"}, On(w, pc), writer[w].link \in Versions
        PROVE  Typed(w, [writer[w] EXCEPT !.pc = pc])
    <2>1. pc \in WriterPcs /\ writer[w] \in WriterRows
      BY <1>a DEF WriterPcs
    <2>2. [writer[w] EXCEPT !.pc = pc] \in WriterRows
      BY <2>1, RowMoves
    <2>3. [writer[w] EXCEPT !.pc = pc].link = writer[w].link
      BY <2>1 DEF WriterRows
    <2>4. QED  BY <1>b, <2>2, <2>3 DEF On
  <1>5. ASSUME NEW w \in Writers, GetLink(w) PROVE FileTypes'
    <2>1. \E row : Typed(w, row)
      <3>1. CASE On(w, "failed")
        BY <3>1, <1>4 DEF WriterPcs
      <3>2. CASE To(w, [writer[w] EXCEPT !.pc = "size", !.link = object])
        <4> DEFINE row == [writer[w] EXCEPT !.pc = "size", !.link = object]
        <4>1. row \in WriterRows
          BY <1>a, RowMoves DEF FileTypes
        <4>2. row.pc = "size"
          BY <1>a DEF WriterRows
        <4>3. Typed(w, row)
          BY <3>2, <4>1, <4>2
        <4>4. QED  BY <4>3
      <3>3. QED  BY <1>5, <3>1, <3>2 DEF GetLink
    <2>2. QED  BY <1>5, <2>1, <1>0 DEF GetLink, FileTypes, Upstream, Queue
  <1>6. ASSUME NEW w \in Writers, WrittenSize(w) PROVE FileTypes'
    <2>1. \E row : Typed(w, row)
      <3>1. CASE On(w, "failed")
        BY <3>1, <1>4 DEF WriterPcs
      <3>2. CASE To(w, [writer[w] EXCEPT !.pc = "fetch", !.tries = @ + 1, !.size = Size(part)])
        <4> DEFINE row == [writer[w] EXCEPT !.pc = "fetch", !.tries = writer[w].tries + 1,
                   !.size = Size(part)]
        <4>1. row \in WriterRows
          BY SizeIsNat, <1>a, RowMoves DEF FileTypes
        <4>2. row.pc = "fetch"
          BY <1>a DEF WriterRows
        <4>3. Typed(w, row)
          BY <3>2, <4>1, <4>2
        <4>4. QED  BY <4>3
      <3>3. QED  BY <1>6, <3>1, <3>2 DEF WrittenSize
    <2>2. QED  BY <1>6, <2>1, <1>0 DEF WrittenSize, FileTypes, Upstream, Queue
  <1>7. ASSUME NEW w \in Writers, Answer(w) PROVE FileTypes'
    <2>1. \E row : Typed(w, row)
      <3>1. CASE On(w, "failed") \/ On(w, "link") \/ On(w, "missing")
        BY <3>1, <1>4 DEF WriterPcs
      <3>2. CASE To(w, [writer[w] EXCEPT !.pc = "link", !.renewed = TRUE])
        <4> DEFINE row == [writer[w] EXCEPT !.pc = "link", !.renewed = TRUE]
        <4>1. row \in WriterRows
          BY <1>a, RowMoves DEF FileTypes
        <4>2. row.pc = "link"
          BY <1>a DEF WriterRows
        <4>3. Typed(w, row)
          BY <3>2, <4>1, <4>2
        <4>4. QED  BY <4>3
      <3>3. CASE To(w, [writer[w] EXCEPT !.pc = "read", !.size = 0]) /\ writer[w].link # Gone
        <4> DEFINE row == [writer[w] EXCEPT !.pc = "read", !.size = 0]
        <4>1. row \in WriterRows
          BY <1>a, RowMoves
        <4>2. row.link = writer[w].link /\ writer[w].link \in Versions
          BY <1>a, <3>3 DEF WriterRows
        <4>3. Typed(w, row)
          BY <3>3, <4>1, <4>2
        <4>4. QED  BY <4>3
      <3>4. CASE On(w, "read") /\ writer[w].link # Gone
        BY <3>4, <1>b, <1>a DEF WriterRows
      <3>5. QED  BY <1>7, <3>1, <3>2, <3>3, <3>4 DEF Answer, NotFound, WholeBody, OutOfRange
    <2>2. part' \in Contents \cup {NoFile}
      BY <1>7 DEF Answer, NotFound, WholeBody, OutOfRange, FileTypes
    <2>3. QED  BY <1>7, <2>1, <2>2, <1>0 DEF Answer, FileTypes, Upstream, Queue
  <1>8. ASSUME NEW w \in Writers, ReadChunk(w) PROVE FileTypes'
    <2>1. At(w, "read") /\ writer[w].link \in Versions
      BY <1>8 DEF ReadChunk, At, FileTypes
    <2>2. \E row : Typed(w, row)
      <3>1. CASE On(w, "failed")
        BY <3>1, <1>4 DEF WriterPcs
      <3>2. CASE On(w, "end")
        BY <3>2, <2>1, <1>b
      <3>3. CASE To(w, [writer[w] EXCEPT !.size = writer[w].size + 1])
        <4> DEFINE row == [writer[w] EXCEPT !.size = writer[w].size + 1]
        <4>1. writer[w].size + 1 \in Nat
          BY <1>a
        <4>2. row \in WriterRows
          BY <1>a, <4>1, RowMoves
        <4>3. row.link = writer[w].link
          BY <1>a DEF WriterRows
        <4>4. Typed(w, row)
          BY <3>3, <2>1, <4>2, <4>3
        <4>5. QED  BY <4>4
      <3>4. QED  BY <1>8, <3>1, <3>2, <3>3 DEF ReadChunk
    <2>3. part' \in Contents \cup {NoFile}
      <3> DEFINE k == writer[w].size
                 v == writer[w].link
      <3>1. part \in Contents \cup {NoFile} /\ k \in Nat /\ v \in Versions
        BY <2>1, <1>a DEF FileTypes
      <3>2. part' = part \/ (CanAppend(part, k) /\ part' = Appended(part, k, v))
        BY <1>8 DEF ReadChunk
      <3> HIDE DEF k, v
      <3>3. CanAppend(part, k) => Appended(part, k, v) \in Contents
        BY <3>1, AppendedIsFile
      <3>4. QED  BY <3>1, <3>2, <3>3
    <2>4. short' \in BOOLEAN
      <3>1. short' = short \/ short' = (writer[w].size < Length[writer[w].link])
        BY <1>8, Zenon DEF ReadChunk
      <3>2. (writer[w].size < Length[writer[w].link]) \in BOOLEAN
        OBVIOUS
      <3>3. QED  BY <3>1, <3>2, Zenon DEF FileTypes
    <2>5. QED  BY <1>8, <2>2, <2>3, <2>4, <1>0 DEF ReadChunk, FileTypes, Upstream, Queue
  <1>9. ASSUME NEW w \in Writers, EndOfBody(w) PROVE FileTypes'
    <2>1. \E row : Typed(w, row)
      BY <1>9, <1>4 DEF EndOfBody, WriterPcs
    <2>2. QED  BY <1>9, <2>1, <1>0 DEF EndOfBody, FileTypes, Upstream, Queue, Nothing, Contents
  <1>10. ASSUME NEW w \in Writers, HashFile(w) PROVE FileTypes'
    <2>1. \E row : Typed(w, row)
      <3>1. CASE On(w, "failed")
        BY <3>1, <1>4 DEF WriterPcs
      <3>2. CASE To(w, [writer[w] EXCEPT !.pc = "finalize", !.text = part]) /\ part # NoFile
        <4> DEFINE row == [writer[w] EXCEPT !.pc = "finalize", !.text = part]
        <4>1. row \in WriterRows
          BY <3>2, <1>a, RowMoves DEF FileTypes
        <4>2. row.pc = "finalize"
          BY <1>a DEF WriterRows
        <4>3. Typed(w, row)
          BY <3>2, <4>1, <4>2
        <4>4. QED  BY <4>3
      <3>3. QED  BY <1>10, <3>1, <3>2 DEF HashFile
    <2>2. QED  BY <1>10, <2>1, <1>0 DEF HashFile, FileTypes, Upstream, Queue
  <1>11. ASSUME NEW w \in Writers, Finalize(w) PROVE FileTypes'
    <2>1. \E row : Typed(w, row)
      BY <1>11, <1>4 DEF Finalize, WriterPcs
    <2>2. QED  BY <1>11, <2>1, <1>0 DEF Finalize, FileTypes, Upstream, Queue
  <1>c. ASSUME NEW s \in Sizes, Announce(s) PROVE FileTypes'
    BY <1>c DEF Announce, FileTypes, Upstream
  <1>12. CASE Replace
    BY <1>12 DEF Replace, FileTypes, Queue
  <1>13. CASE Vanish
    BY <1>13 DEF Vanish, FileTypes, Queue
  <1>14. CASE UNCHANGED fileVars
    BY <1>14 DEF fileVars, FileTypes
  <1>15. QED
    BY <1>1, <1>2, <1>3, <1>5, <1>6, <1>7, <1>8, <1>9, <1>10, <1>11, <1>c, <1>12, <1>13, <1>14
       DEF FileNext, SlotStep

-----------------------------------------------------------------------------
\* A step of the one slot that runs the row leaves what it says to be checked: its own
\* progress, and where the bytes come from.
LEMMA SlotHonest ==
  ASSUME FileTypes, Honest, NEW w \in Writers, NEW row \in WriterRows, ~At(w, "off"),
         writer' = [writer EXCEPT ![w] = row], UNCHANGED Queue, UNCHANGED Upstream,
         part' # NoFile => Solid(part'), Progress(row, part', final'),
         \A v \in Versions : replaced = {} /\ Only(v) =>
           AllFrom(row, part', final', v, short') /\ (part' # NoFile => AllOf(part', v))
  PROVE  Honest'
  <1>1. claimer = w /\ verdict = "claimed"
    BY DEF Honest, Alone
  <1>2. UNCHANGED <<object, replaced, expected, verdict, reported, claimer, overlapped>>
    BY DEF Queue, Upstream
  <1>3. \A x \in Writers : writer'[x] = IF x = w THEN row ELSE writer[x]
    BY DEF FileTypes
  <1>4. \A x \in Writers : x # w => writer[x].pc = "off"
    BY <1>1 DEF Honest, Alone, At
  <1>5. Alone'
    BY <1>1, <1>2, <1>3, <1>4 DEF Alone, At
  <1>6. \A x \in Writers : Progress(writer'[x], part', final')
    BY <1>3, <1>4 DEF Progress
  <1>7. ASSUME NEW v \in Versions, replaced = {}, Only(v) PROVE Only(v)'
    <2>1. AllFrom(row, part', final', v, short') /\ (part' # NoFile => AllOf(part', v))
      BY <1>7
    <2>2. \A x \in Writers : AllFrom(writer'[x], part', final', v, short')
      BY <2>1, <1>7, <1>3, <1>4 DEF Only, AllFrom
    <2>3. QED  BY <2>1, <2>2, <1>1, <1>2, <1>7 DEF Only, AllOf
  <1>8. replaced' = {} => \E v \in Versions : Only(v)'
    BY <1>2, <1>7 DEF Honest
  <1>9. QED  BY <1>1, <1>2, <1>5, <1>6, <1>8 DEF Honest, Solid

\* A slot that stops or starts over has no progress to account for.
LEMMA Afresh ==
  ASSUME NEW row, row.pc \in {"off", "link", "size", "missing", "failed"}, NEW p, NEW f, NEW v, NEW s,
         row.link \in {v, Gone}
  PROVE  Progress(row, p, f) /\ AllFrom(row, p, f, v, s)
  BY DEF Progress, AllFrom

\* As long as no two slots have the row together, what is known of the file stays so.
LEMMA HonestStep ==
  FileTypes /\ (~overlapped => Honest) /\ [FileNext]_fileVars => (~overlapped' => Honest')
  <1> SUFFICES ASSUME FileTypes, ~overlapped => Honest, [FileNext]_fileVars, ~overlapped'
               PROVE  Honest'
    OBVIOUS
  <1> USE DownloaderAssumption
  <1>a. ~overlapped
    BY DEF FileNext, SlotStep, fileVars, Claim, WriteBack, SlotDies, GetLink, WrittenSize, Answer,
           ReadChunk, EndOfBody, HashFile, Finalize, Announce, Replace, Vanish, Queue
  <1>b. Honest
    BY <1>a
  <1>c. \A w \in Writers :
          /\ writer[w] \in WriterRows /\ Progress(writer[w], part, final)
          /\ writer[w].size \in Nat /\ writer[w].text \in Contents
    BY <1>b DEF FileTypes, WriterRows, Honest
  <1>d. (part # NoFile => Solid(part)) /\ part \in Contents \cup {NoFile}
    BY <1>b DEF Honest, FileTypes
  <1>e. Size(part) \in Nat /\ (part # NoFile => Size(part) = Len(part))
    BY <1>d, SizeIsNat DEF Size
  <1>f. ASSUME NEW w \in Writers, NEW v \in Versions, Only(v)
        PROVE  /\ AllFrom(writer[w], part, final, v, short) /\ writer[w].link \in {v, Gone}
               /\ object \in {v, Gone} /\ (part # NoFile => AllOf(part, v))
    BY <1>f DEF Only, AllFrom
  \* A claim finds nobody running.
  <1>1. ASSUME NEW w \in Writers, Claim(w) PROVE Honest'
    <2>1. /\ Running = {} /\ verdict' = "claimed" /\ claimer' = w /\
             writer \in [Writers -> WriterRows]
          /\ UNCHANGED <<object, expected, part, final, reported, replaced, short>>
          /\ writer' = [writer EXCEPT ![w] = Claimed(expected)]
      BY <1>1 DEF Claim, To, FileTypes
    <2>2. \A x \in Writers : writer[x].pc = "off"
      BY <2>1 DEF Running
    <2>3. \A x \in Writers : writer'[x].pc \in {"off", "link"} /\
            writer'[x].link \in {Gone, writer[x].link}
      BY <2>1, <2>2, OffIsRow DEF FileTypes
    <2>4. \A x \in Writers : x # w => writer'[x].pc = "off"
      BY <2>1, <2>2
    <2>5. Alone'
      BY <2>1, <2>4 DEF Alone, At
    <2>6. \A x \in Writers : Progress(writer'[x], part', final')
      BY <2>3 DEF Progress
    <2>7. ASSUME NEW v \in Versions, Only(v) PROVE Only(v)'
      <3>1. \A x \in Writers : writer'[x].link \in {v, Gone}
        BY <2>3, <2>7, <1>f
      <3>2. \A x \in Writers : AllFrom(writer'[x], part', final', v, short')
        BY <2>3, <3>1 DEF AllFrom
      <3>3. QED  BY <2>1, <2>7, <3>2 DEF Only, AllOf
    <2>8. QED  BY <1>b, <2>1, <2>5, <2>6, <2>7 DEF Honest, Solid
  \* What is written back is what the download found.
  <1>2. ASSUME NEW w \in Writers, WriteBack(w) PROVE Honest'
    <2>1. claimer = w /\ verdict = "claimed" /\ \A x \in Writers : x # w => writer[x].pc = "off"
      BY <1>2, <1>b DEF WriteBack, Honest, Alone, At
    <2>2. /\ writer' = [writer EXCEPT ![w] = Off] /\ writer \in [Writers -> WriterRows]
          /\ UNCHANGED <<object, replaced, expected, part, final, claimer, overlapped, short>>
      BY <1>2 DEF WriteBack, To, FileTypes, Upstream
    <2>3. \A x \in Writers : writer'[x].pc = "off" /\ writer'[x].link \in {Gone, writer[x].link}
      BY <2>1, <2>2 DEF Off
    <2>4. Alone'
      BY <2>3 DEF Alone, At
    <2>5. \A x \in Writers : Progress(writer'[x], part', final')
      BY <2>3 DEF Progress
    <2>6. CASE writer[w].pc = "completed"
      <3>1. verdict' = "completed" /\ 
               reported' = [size |-> writer[w].size, text |-> writer[w].text, due |-> writer[w].due]
        BY <1>2, <2>1, <2>6 DEF WriteBack, At
      <3>2. /\ final # NoFile /\ Solid(final)
            /\ Len(final) = writer[w].size /\ final = writer[w].text
            /\ writer[w].due # NoSize => writer[w].size = writer[w].due
        BY <1>c, <2>6 DEF Progress
      <3>3. ASSUME NEW v \in Versions, Only(v) PROVE Only(v)'
        <4>1. UpTo(Len(final), v, short) /\ AllOf(final, v)
          BY <2>6, <3>3, <1>f DEF AllFrom
        <4>2. \A x \in Writers : AllFrom(writer'[x], part', final', v, short')
          BY <2>3, <3>3, <1>f DEF AllFrom
        <4>3. QED  BY <2>2, <3>3, <4>1, <4>2 DEF Only, AllOf
      <3>4. QED  BY <1>b, <2>2, <2>4, <2>5, <3>1, <3>2, <3>3 DEF Honest, Solid
    <2>7. CASE writer[w].pc # "completed"
      <3>1. verdict' # "completed"
        BY <1>2, <2>1, <2>7 DEF WriteBack, At
      <3>2. ASSUME NEW v \in Versions, Only(v) PROVE Only(v)'
        <4>1. \A x \in Writers : AllFrom(writer'[x], part', final', v, short')
          BY <2>3, <3>2, <1>f DEF AllFrom
        <4>2. QED  BY <2>2, <3>1, <3>2, <4>1 DEF Only, AllOf
      <3>3. QED  BY <1>b, <2>2, <2>4, <2>5, <3>1, <3>2 DEF Honest, Solid
    <2>8. QED  BY <2>6, <2>7
  \* A step that neither writes nor looks at a file.
  <1>g. ASSUME NEW w \in Writers, NEW row \in WriterRows, To(w, row), ~At(w, "off"),
               row.pc \in {"off", "link", "size", "missing", "failed"},
               row.link \in {writer[w].link, object, Gone},
               UNCHANGED Queue, UNCHANGED Upstream, UNCHANGED final, part' \in {part, NoFile}
        PROVE  Honest'
    <2>1. Progress(row, part', final')
      BY <1>g DEF Progress
    <2>2. ASSUME NEW v \in Versions, Only(v)
          PROVE  AllFrom(row, part', final', v, short') /\ (part' # NoFile => AllOf(part', v))
      BY <1>g, <1>f, <2>2 DEF AllFrom
    <2>3. part' # NoFile => Solid(part')
      BY <1>d, <1>g
    <2>4. writer' = [writer EXCEPT ![w] = row]
      BY <1>g DEF To
    <2>5. QED  BY <1>b, <1>g, <2>1, <2>2, <2>3, <2>4, SlotHonest
  <1>h. ASSUME NEW w \in Writers, NEW pc \in {"link", "missing", "failed"}, On(w, pc),
               ~At(w, "off"),
               UNCHANGED Queue, UNCHANGED Upstream, UNCHANGED final, part' \in {part, NoFile}
        PROVE  Honest'
    <2> DEFINE row == [writer[w] EXCEPT !.pc = pc]
    <2>1. row \in WriterRows
      BY <1>c, RowMoves DEF WriterPcs
    <2>2. row.pc = pc /\ row.link = writer[w].link /\ To(w, row)
      BY <1>c, <1>h DEF WriterRows, On
    <2> HIDE DEF row
    <2>3. QED  BY <1>g, <1>h, <2>1, <2>2
  <1>3. ASSUME NEW w \in Writers, SlotDies(w) PROVE Honest'
    <2>1. Off.pc = "off" /\ Off.link = Gone
      BY DEF Off
    <2>2. QED  BY <1>3, <1>g, <2>1, OffIsRow DEF SlotDies
  <1>4. ASSUME NEW w \in Writers, GetLink(w) PROVE Honest'
    <2>1. ~At(w, "off") /\ UNCHANGED Queue /\ UNCHANGED Upstream /\ UNCHANGED <<part, final>>
      BY <1>4 DEF GetLink, At
    <2>2. CASE On(w, "failed")
      BY <1>h, <2>1, <2>2
    <2>3. CASE To(w, [writer[w] EXCEPT !.pc = "size", !.link = object])
      <3> DEFINE row == [writer[w] EXCEPT !.pc = "size", !.link = object]
      <3>1. object \in Versions \cup {Gone}
        BY DEF FileTypes
      <3>2. row \in WriterRows
        BY <1>c, <3>1, RowMoves
      <3>3. row.pc = "size" /\ row.link = object /\ To(w, row)
        BY <1>c, <2>3 DEF WriterRows
      <3> HIDE DEF row
      <3>4. QED  BY <1>g, <2>1, <3>2, <3>3
    <2>4. QED  BY <1>4, <2>2, <2>3 DEF GetLink
  <1>5. ASSUME NEW w \in Writers, WrittenSize(w) PROVE Honest'
    <2>1. ~At(w, "off") /\ UNCHANGED Queue /\ UNCHANGED Upstream /\ UNCHANGED <<part, final>>
      BY <1>5 DEF WrittenSize, At
    <2>2. CASE On(w, "failed")
      BY <1>h, <2>1, <2>2
    <2>3. CASE To(w, [writer[w] EXCEPT !.pc = "fetch", !.tries = @ + 1, !.size = Size(part)])
      <3> DEFINE row == [writer[w] EXCEPT !.pc = "fetch", !.tries = writer[w].tries + 1,
                 !.size = Size(part)]
      <3>1. row \in WriterRows
        BY <1>c, <1>e, RowMoves
      <3>2. row.pc = "fetch" /\ row.size = Size(part) /\ row.link = writer[w].link
        BY <1>c DEF WriterRows
      <3>3. writer' = [writer EXCEPT ![w] = row]
        BY <2>3 DEF To
      <3> HIDE DEF row
      <3>4. Progress(row, part', final')
        BY <2>1, <3>2 DEF Progress
      <3>5. \A v \in Versions : Only(v) => AllFrom(row, part', final', v, short') /\
              (part' # NoFile => AllOf(part', v))
        BY <1>f, <2>1, <3>2 DEF AllFrom
      <3>6. QED  BY <1>b, <1>d, <2>1, <3>1, <3>3, <3>4, <3>5, SlotHonest
    <2>4. QED  BY <1>5, <2>2, <2>3 DEF WrittenSize
  <1>6. ASSUME NEW w \in Writers, Answer(w) PROVE Honest'
    <2>1. At(w, "fetch") /\ ~At(w, "off") /\ UNCHANGED Queue /\ UNCHANGED Upstream /\
            UNCHANGED final
      BY <1>6 DEF Answer, At
    <2>2. writer[w].size = Size(part)
      BY <2>1, <1>c DEF At, Progress
    <2>3. CASE On(w, "link") /\ part' \in {part, NoFile}
      BY <1>h, <2>1, <2>3
    <2>4. CASE On(w, "failed") /\ UNCHANGED part
      BY <1>h, <2>1, <2>4
    <2>5. CASE On(w, "missing") /\ UNCHANGED part
      BY <1>h, <2>1, <2>5
    <2>6. CASE To(w, [writer[w] EXCEPT !.pc = "link", !.renewed = TRUE]) /\ part' = NoFile
      <3> DEFINE row == [writer[w] EXCEPT !.pc = "link", !.renewed = TRUE]
      <3>1. row \in WriterRows
        BY <1>c, RowMoves
      <3>2. row.pc = "link" /\ row.link = writer[w].link /\ To(w, row)
        BY <1>c, <2>6 DEF WriterRows
      <3> HIDE DEF row
      <3>3. QED  BY <1>g, <2>1, <2>6, <3>1, <3>2
    \* The body begins, at the end of what lies there.
    <2>a. ASSUME NEW row \in WriterRows, writer' = [writer EXCEPT ![w] = row], row.pc = "read",
                 row.link = writer[w].link, row.size = Size(part'), row.size <= Length[row.link],
                 part' \in {part, NoFile}
          PROVE  Honest'
      <3>1. Progress(row, part', final')
        BY <2>a DEF Progress
      <3>2. \A v \in Versions : Only(v) => AllFrom(row, part', final', v, short') /\
              (part' # NoFile => AllOf(part', v))
        BY <1>f, <2>a DEF AllFrom
      <3>3. QED  BY <1>b, <1>d, <2>1, <2>a, <3>1, <3>2, SlotHonest
    <2>7. CASE WholeBody(w) /\ writer[w].link # Gone
      <3> DEFINE row == [writer[w] EXCEPT !.pc = "read", !.size = 0]
      <3>1. row \in WriterRows
        BY <1>c, RowMoves
      <3>2. row.pc = "read" /\ row.size = 0 /\ row.link = writer[w].link /\
              writer' = [writer EXCEPT ![w] = row]
        BY <1>c, <2>7 DEF WriterRows, WholeBody, To
      <3>3. row.link \in Versions /\ Length[row.link] \in Nat
        BY <1>c, <2>7, <3>2 DEF WriterRows
      <3>4. part' \in {part, NoFile} /\ Size(part') = 0
        BY <1>c, <2>7, <2>2, <1>e DEF WholeBody, Size
      <3> HIDE DEF row
      <3>5. row.size <= Length[row.link] /\ row.size = Size(part')
        BY <3>2, <3>3, <3>4
      <3>6. QED  BY <2>a, <3>1, <3>2, <3>4, <3>5
    <2>8. CASE On(w, "read") /\ UNCHANGED part /\ writer[w].size < Length[writer[w].link] /\
               writer[w].link # Gone
      <3> DEFINE row == [writer[w] EXCEPT !.pc = "read"]
      <3>1. row \in WriterRows
        BY <1>c, RowMoves DEF WriterPcs
      <3>2. /\ row.pc = "read" /\ row.size = writer[w].size /\ row.link = writer[w].link
            /\ writer' = [writer EXCEPT ![w] = row]
        BY <1>c, <2>8 DEF WriterRows, On, To
      <3>3. row.link \in Versions /\ Length[row.link] \in Nat
        BY <1>c, <2>8, <3>2 DEF WriterRows
      <3>4. row.size \in Nat /\ row.size <= Length[row.link] /\ row.size = Size(part')
        BY <1>c, <2>2, <2>8, <3>2, <3>3 DEF Size
      <3> HIDE DEF row
      <3>5. QED  BY <2>a, <2>8, <3>1, <3>2, <3>4
    <2>9. QED
      BY <1>6, <2>3, <2>4, <2>5, <2>6, <2>7, <2>8 DEF Answer, NotFound, OutOfRange
  <1>7. ASSUME NEW w \in Writers, ReadChunk(w) PROVE Honest'
    <2> DEFINE v == writer[w].link
    <2>1. At(w, "read") /\ ~At(w, "off") /\ UNCHANGED Queue /\ UNCHANGED Upstream /\ UNCHANGED final
      BY <1>7 DEF ReadChunk, At
    <2>2. /\ writer[w].size = Size(part) /\ v \in Versions /\ Length[v] \in Nat
          /\ writer[w].size <= Length[v]
      BY <2>1, <1>c DEF At, Progress, FileTypes
    <2>3. CASE On(w, "failed") /\ UNCHANGED part
      BY <1>h, <2>1, <2>3
    <2>4. CASE /\ writer[w].size <= Length[v] /\ On(w, "end") /\ UNCHANGED part
               /\ short' = (writer[w].size < Length[v])
      <3> DEFINE row == [writer[w] EXCEPT !.pc = "end"]
      <3>1. row \in WriterRows
        BY <1>c, RowMoves DEF WriterPcs
      <3>2. /\ row.pc = "end" /\ row.size = writer[w].size /\ row.link = v
            /\ writer' = [writer EXCEPT ![w] = row]
        BY <1>c, <2>4 DEF WriterRows, On, To
      <3> HIDE DEF row
      <3>3. Progress(row, part', final')
        BY <2>2, <2>4, <3>2 DEF Progress
      <3>a. ~short' => ~(writer[w].size < Length[v])
        BY <2>4, Zenon
      <3>4. UpTo(row.size, v, short')
        BY <2>2, <2>4, <3>2, <3>a, <1>c DEF UpTo
      <3>5. \A x \in Versions : Only(x) => AllFrom(row, part', final', x, short') /\
              (part' # NoFile => AllOf(part', x))
        BY <1>f, <2>2, <2>4, <3>2, <3>4 DEF AllFrom
      <3>6. QED  BY <1>b, <1>d, <2>1, <2>4, <3>1, <3>2, <3>3, <3>5, SlotHonest
    <2>5. CASE /\ writer[w].size < Length[v] /\ part' = Appended(part, writer[w].size, v)
               /\ To(w, [writer[w] EXCEPT !.size = writer[w].size + 1])
      <3> DEFINE row == [writer[w] EXCEPT !.size = writer[w].size + 1]
      <3>1. writer[w].size + 1 \in Nat
        BY <1>c
      <3>2. row \in WriterRows
        BY <1>c, <3>1, RowMoves
      <3>3. /\ row.pc = "read" /\ row.size = writer[w].size + 1 /\ row.link = v
            /\ writer' = [writer EXCEPT ![w] = row]
        BY <1>c, <2>1, <2>5 DEF WriterRows, To, At
      <3> HIDE DEF row
      <3>4. /\ part' \in Seq(Versions) /\ Len(part') = Size(part) + 1 /\ part'[Size(part) + 1] = v
            /\ \A i \in 1..Size(part) : part'[i] = part[i]
        BY <1>d, <2>2, <2>5, AppendedNext
      <3>5. part' # NoFile /\ Size(part') = row.size
        <4>1. part' \in Contents
          BY <3>4 DEF Contents, Cells
        <4>2. part' # NoFile
          BY <4>1 DEF Contents
        <4>3. QED  BY <4>2, <3>3, <3>4, <2>2 DEF Size
      <3>6. row.size <= Length[row.link]
        BY <2>2, <2>5, <3>3, <1>e
      <3>7. Progress(row, part', final')
        BY <3>3, <3>5, <3>6 DEF Progress
      <3>8. ASSUME NEW x \in Versions, Only(x) PROVE AllFrom(row, part', final', x, short') /\
                   AllOf(part', x)
        <4>1. v = x /\ (part # NoFile => AllOf(part, x))
          BY <3>8, <1>f, <2>2
        <4>2. \A i \in 1..Size(part) : part'[i] = x
          BY <4>1, <3>4, <1>e DEF AllOf, Size
        <4>3. AllOf(part', x)
          BY <4>1, <4>2, <3>4, <1>e DEF AllOf
        <4>4. QED  BY <4>1, <4>3, <3>3 DEF AllFrom
      <3>9. Solid(part')
        BY <3>4 DEF Solid
      <3>10. QED  BY <1>b, <2>1, <3>2, <3>3, <3>7, <3>8, <3>9, SlotHonest
    <2>6. QED  BY <1>7, <2>3, <2>4, <2>5 DEF ReadChunk
  <1>8. ASSUME NEW w \in Writers, EndOfBody(w) PROVE Honest'
    <2>1. At(w, "end") /\ ~At(w, "off") /\ UNCHANGED Queue /\ UNCHANGED Upstream /\
            UNCHANGED <<final, short>>
      BY <1>8 DEF EndOfBody, At
    <2> DEFINE k == writer[w].size
               v == writer[w].link
    <2>2. k = Size(part) /\ v \in Versions
      BY <2>1, <1>c DEF At, Progress, FileTypes
    <2>3. Nothing \in Contents /\ Nothing \in Seq(Versions) /\ Len(Nothing) = 0 /\ Nothing # NoFile
      <3>1. Nothing \in Seq(Cells) /\ Nothing \in Seq(Versions) /\ Len(Nothing) = 0
        BY DEF Nothing
      <3>2. Nothing # NoFile
        BY <3>1
      <3>3. QED  BY <3>1, <3>2 DEF Contents
    <2>4. part' # NoFile /\ Len(part') = k /\ Solid(part')
      BY <1>8, <1>d, <2>2, <2>3 DEF EndOfBody, Size, Solid
    <2>5. \A x \in Versions : Only(x) => AllOf(part', x)
      <3>1. CASE k = 0
        BY <2>4, <3>1 DEF AllOf
      <3>2. CASE k # 0
        BY <1>8, <1>f, <2>4, <3>2 DEF EndOfBody
      <3>3. QED  BY <3>1, <3>2
    <2>6. PICK pc \in {"hash", "failed"} : On(w, pc) /\ (pc = "hash" => SizeAgrees(w))
      BY <1>8 DEF EndOfBody
    <2> DEFINE row == [writer[w] EXCEPT !.pc = pc]
    <2>7. row \in WriterRows
      BY <1>c, RowMoves DEF WriterPcs
    <2>8. /\ row.pc = pc /\ row.size = k /\ row.link = v /\ writer' = [writer EXCEPT ![w] = row]
          /\ row.due = writer[w].due
      BY <1>c, <2>6 DEF WriterRows, On, To
    <2> HIDE DEF row
    <2>9. Progress(row, part', final')
      BY <2>4, <2>6, <2>8 DEF Progress, SizeAgrees
    <2>10. \A x \in Versions : Only(x) => AllFrom(row, part', final', x, short')
      <3>1. ASSUME NEW x \in Versions, Only(x) PROVE AllFrom(row, part', final', x, short')
        <4>1. v = x /\ UpTo(k, x, short)
          BY <3>1, <1>f, <2>1, <2>2 DEF AllFrom, At
        <4>2. QED  BY <4>1, <2>1, <2>2, <2>4, <2>8, <2>6 DEF AllFrom
      <3>2. QED  BY <3>1
    <2>11. QED  BY <1>b, <2>1, <2>4, <2>5, <2>7, <2>8, <2>9, <2>10, SlotHonest
  <1>9. ASSUME NEW w \in Writers, HashFile(w) PROVE Honest'
    <2>1. At(w, "hash") /\ ~At(w, "off") /\ UNCHANGED Queue /\ UNCHANGED Upstream /\
            UNCHANGED <<part, final, short>>
      BY <1>9 DEF HashFile, At
    <2>2. part # NoFile /\ writer[w].size = Len(part) /\
            (writer[w].due # NoSize => writer[w].size = writer[w].due)
      BY <2>1, <1>c DEF At, Progress
    <2> DEFINE row == [writer[w] EXCEPT !.pc = "finalize", !.text = part]
    <2>3. row \in WriterRows
      BY <1>c, <1>d, <2>2, RowMoves
    <2>4. /\ row.pc = "finalize" /\ row.size = writer[w].size /\ row.link = writer[w].link /\
             row.text = part /\ row.due = writer[w].due
          /\ writer' = [writer EXCEPT ![w] = row]
      BY <1>c, <1>9, <2>2 DEF WriterRows, HashFile, To
    <2> HIDE DEF row
    <2>5. Progress(row, part', final')
      BY <2>1, <2>2, <2>4 DEF Progress
    <2>6. \A x \in Versions : Only(x) => AllFrom(row, part', final', x, short') /\
            (part' # NoFile => AllOf(part', x))
      BY <1>f, <2>1, <2>4 DEF AllFrom, At
    <2>7. QED  BY <1>b, <1>d, <2>1, <2>3, <2>4, <2>5, <2>6, SlotHonest
  <1>10. ASSUME NEW w \in Writers, Finalize(w) PROVE Honest'
    <2>1. At(w, "finalize") /\ ~At(w, "off") /\ UNCHANGED Queue /\ UNCHANGED Upstream /\ UNCHANGED short
      BY <1>10 DEF Finalize, At
    <2>2. /\ part # NoFile /\ writer[w].size = Len(part) /\ writer[w].text = part
          /\ writer[w].due # NoSize => writer[w].size = writer[w].due
      BY <2>1, <1>c DEF At, Progress
    <2>3. final' = part /\ part' = NoFile /\ On(w, "completed")
      BY <1>10, <2>2 DEF Finalize
    <2> DEFINE row == [writer[w] EXCEPT !.pc = "completed"]
    <2>4. row \in WriterRows
      BY <1>c, RowMoves DEF WriterPcs
    <2>5. /\ row.pc = "completed" /\ row.size = writer[w].size /\ row.link = writer[w].link
          /\ row.text = writer[w].text /\ row.due = writer[w].due /\ writer' = [writer EXCEPT ![w] = row]
      BY <1>c, <2>3 DEF WriterRows, On, To
    <2> HIDE DEF row
    <2>6. Progress(row, part', final')
      BY <1>d, <2>2, <2>3, <2>5 DEF Progress
    <2>7. \A x \in Versions : Only(x) => AllFrom(row, part', final', x, short') /\
            (part' # NoFile => AllOf(part', x))
      BY <1>f, <2>1, <2>2, <2>3, <2>5 DEF AllFrom, At
    <2>8. QED  BY <1>b, <2>1, <2>3, <2>4, <2>5, <2>6, <2>7, SlotHonest
  \* Another version: from then on nothing is said of where the bytes come from.
  <1>11. CASE Replace
    <2>1. UNCHANGED <<part, final, verdict, reported, claimer, writer>> /\ replaced' # {}
      BY <1>11 DEF Replace, Queue
    <2>2. Alone'
      BY <1>b, <2>1 DEF Honest, Alone, At
    <2>3. \A x \in Writers : Progress(writer'[x], part', final')
      BY <1>c, <2>1
    <2>4. QED  BY <1>b, <2>1, <2>2, <2>3 DEF Honest, Solid
  \* What is announced anew reaches no slot that has its row, and no completed one.
  <1>12. CASE Vanish \/ UNCHANGED fileVars \/ \E s \in Sizes : Announce(s)
    <2>1. /\ UNCHANGED <<part, final, verdict, reported, claimer, writer, replaced, short>>
          /\ object' \in {object, Gone}
      BY <1>12 DEF Vanish, Queue, fileVars, Announce, Upstream
    <2>2. Alone'
      BY <1>b, <2>1 DEF Honest, Alone, At
    <2>3. \A x \in Writers : Progress(writer'[x], part', final')
      BY <1>c, <2>1
    <2>4. ASSUME NEW v \in Versions, Only(v) PROVE Only(v)'
      BY <2>1, <2>4 DEF Only, AllOf, AllFrom, At
    <2>5. QED  BY <1>b, <2>1, <2>2, <2>3, <2>4 DEF Honest, Solid
  <1>13. QED
    BY <1>1, <1>2, <1>3, <1>4, <1>5, <1>6, <1>7, <1>8, <1>9, <1>10, <1>11, <1>12
       DEF FileNext, SlotStep

\* It begins so.
LEMMA FileStarts == FileInit => FileInv
  <1> SUFFICES ASSUME FileInit PROVE FileInv
    OBVIOUS
  <1> USE DownloaderAssumption
  <1>1. Nothing \in Contents
    BY DEF Nothing, Contents
  <1>2. FileTypes
    BY <1>1, OffIsRow DEF FileInit, FileTypes, Off
  <1>3. \A w \in Writers : writer[w].pc = "off" /\ writer[w].link = Gone
    BY DEF FileInit, Off
  <1>4. \A w \in Writers : Progress(writer[w], part, final)
    BY <1>3 DEF Progress
  <1>5. Alone
    BY <1>3 DEF Alone, At
  <1>6. Only(object) /\ object \in Versions
    BY <1>3 DEF Only, AllFrom, FileInit
  <1>7. QED  BY <1>2, <1>4, <1>5, <1>6 DEF FileInv, Honest, FileInit

\* What the invariant says of a completed row.
LEMMA FileInvHonest == FileInv => FileTypeOK /\ CompletedFileHonest
  <1> SUFFICES ASSUME FileInv PROVE FileTypeOK /\ CompletedFileHonest
    OBVIOUS
  <1> USE DownloaderAssumption
  <1>1. FileTypeOK
    <2>1. \A f \in {part, final} : f = NoFile \/ \A i \in 1..Len(f) : f[i] \in Cells
      BY DEF FileInv, FileTypes, Contents
    <2>2. QED  BY <2>1 DEF FileInv, FileTypes, FileTypeOK, WriterRows
  <1>2. ASSUME verdict = "completed", ~overlapped
        PROVE  /\ final # NoFile
               /\ Len(final) = reported.size /\ final = reported.text
               /\ \A i \in 1..Len(final) : final[i] # Hole
               /\ reported.due # NoSize => Len(final) = reported.due
               /\ replaced = {} => \E v \in Versions : Begins(final, v)
    <2>1. /\ final # NoFile /\ final \in Seq(Versions)
          /\ Len(final) = reported.size /\ final = reported.text
          /\ reported.due # NoSize => Len(final) = reported.due
          /\ replaced = {} => \E v \in Versions : Only(v)
      BY <1>2 DEF FileInv, Honest, Solid
    <2>2. \A i \in 1..Len(final) : final[i] # Hole
      BY <2>1
    <2>3. \A v \in Versions : Only(v) => Begins(final, v)
      BY <1>2 DEF Only, AllOf, UpTo, Begins
    <2>4. QED  BY <2>1, <2>2, <2>3
  <1>3. QED  BY <1>1, <1>2 DEF CompletedFileHonest

\* A row that is completed tells the truth about its file, for every number of slots,
\* versions of every length, any number of claims and any sizes announced meanwhile, as
\* long as no two slots had it together: the size and the text that were reported, no hole,
\* the size that its claim had read if there was one, and one version, to its end unless
\* the body was cut short, unless the platform replaced it (downloader/index.ts).
THEOREM CompletedIsHonest == FileSpec => [](FileTypeOK /\ CompletedFileHonest)
  <1>1. FileInv /\ [FileNext]_fileVars => FileInv'
    BY FileTypeStep, HonestStep DEF FileInv
  <1>2. QED  BY <1>1, FileStarts, FileInvHonest, PTL DEF FileSpec

-----------------------------------------------------------------------------
(* Discovery and the probes *)

Reasons == {"not_generated", "download_not_allowed", "upstream_timeout"}
ProbeRows == [state : {"none", "probing", "resolved", "abandoned"}, deadline : Nat, after : Nat,
              attempts : 0..Len(Backoff), reason : Reasons \cup {"none"}]
DueRows == [kind : KindSet, deadline : Nat, attempts : 0..Len(Backoff)]
Listings == [KindSet -> States] \cup {<<>>}
Statements ==
  [op : {"upsertAsset"}, file : AllFiles]
  \cup [op : {"markSkippedByKey", "abandonProbeIfProbing", "resolveProbe"}, kind : KindSet]
  \cup [op : {"upsertProbe"}, kind : KindSet, deadline : Nat, after : Nat]
  \cup [op : {"abandonProbe"}, kind : KindSet, reason : Reasons]
  \cup [op : {"bumpProbe"}, kind : KindSet, after : Nat]
HostRows == [pc : {"off", "list", "due", "probe", "judge"}, now : Nat, wanted : SUBSET KindSet,
             seen : Listings, due : SUBSET DueRows, todo : Seq(Statements)]

\* Every variable of Discovery has a value of its kind.
ProbeTypes ==
  /\ clock \in 0..MaxClock /\ upstream \in [KindSet -> States]
  /\ ended \in EndTimes
  /\ rows \in [AllFiles -> {"none", "pending", "skipped"}]
  /\ probe \in [KindSet -> ProbeRows]
  /\ host \in [Hosts -> HostRows]
  \* a listing is there when it is judged
  /\ \A h \in Hosts : host[h].pc = "judge" => host[h].seen # <<>>

\* What a truth about a probe depends on.
Now == [clock |-> clock, upstream |-> upstream, rows |-> rows, barred |-> barred, ended |-> ended]

\* The video is there, and the audio that would have come with it is not.
NeverComes(seen) ==
  {"video", "audio"} \subseteq KindSet /\ seen["video"] = "ready" /\ seen["audio"] = "absent"
\* Why nobody waits for a kind any longer, as the world is at w.
Truth(k, why, w) ==
  /\ why = "not_generated" => k = "audio" /\ NeverComes(w.upstream)
  /\ why = "download_not_allowed" => k \in w.barred
  /\ why = "upstream_timeout" /\ w.ended # NoTime => w.clock >= w.ended + WaitCap
DeadlineKept(d, w) == w.ended # NoTime => d = w.ended + WaitCap
RowOf(k, w) == \E f \in ToSet(Files[k]) : w.rows[f] # "none"

\* What a statement that is still to be executed says is so.
Sound(s, w) ==
  /\ s.op = "upsertProbe" => DeadlineKept(s.deadline, w)
  /\ s.op = "abandonProbe" => Truth(s.kind, s.reason, w)
  /\ s.op = "abandonProbeIfProbing" => Truth(s.kind, "not_generated", w)
\* A probe is resolved after its kind has a row.
Resolvable(todo, w) == \A i \in 1..Len(todo) : todo[i].op = "resolveProbe" =>
  \/ RowOf(todo[i].kind, w)
  \/ i > 1 /\ todo[i - 1].op = "upsertAsset" /\ todo[i - 1].file \in ToSet(Files[todo[i].kind])
AllSound(todo, w) == (\A i \in 1..Len(todo) : Sound(todo[i], w)) /\ Resolvable(todo, w)

HostSound(row, w) ==
  /\ row.now <= w.clock
  /\ row.seen # <<>> /\ NeverComes(row.seen) => NeverComes(w.upstream)
  /\ \A p \in row.due : DeadlineKept(p.deadline, w)
  /\ AllSound(row.todo, w)
ProbeSound(k, p, w) ==
  /\ p.state = "none" => p = NoProbe
  /\ p.state # "none" => DeadlineKept(p.deadline, w)
  /\ p.state = "resolved" => RowOf(k, w)
  /\ p.state = "abandoned" => p.reason \in Reasons /\ Truth(k, p.reason, w)

AllTrue == /\ \A h \in Hosts : HostSound(host[h], Now)
           /\ \A k \in KindSet : ProbeSound(k, probe[k], Now)
ProbeInv == ProbeTypes /\ AllTrue

-----------------------------------------------------------------------------
\* The world moves on: time passes, rows come, and what never comes never does.
Later(w, x) ==
  /\ w.clock \in Nat /\ x.clock \in Nat /\ w.clock <= x.clock
  /\ x.barred = w.barred /\ x.ended = w.ended /\ w.ended \in Nat \cup {NoTime}
  /\ NeverComes(w.upstream) => NeverComes(x.upstream)
  /\ \A k \in KindSet : RowOf(k, w) => RowOf(k, x)

\* What was true stays so.
LEMMA TruthStays ==
  ASSUME NEW w, NEW x, Later(w, x)
  PROVE  /\ \A k, why : Truth(k, why, w) => Truth(k, why, x)
         /\ \A d : DeadlineKept(d, w) => DeadlineKept(d, x)
         /\ \A s : Sound(s, w) => Sound(s, x)
  <1>1. ASSUME NEW k, NEW why, Truth(k, why, w) PROVE Truth(k, why, x)
    <2>1. why = "upstream_timeout" /\ w.ended # NoTime => x.clock >= w.ended + WaitCap
      <3>1. CASE why = "upstream_timeout" /\ w.ended # NoTime
        <4>1. w.clock >= w.ended + WaitCap /\ w.ended \in Nat /\ WaitCap \in Nat
          BY <1>1, <3>1, DiscoveryAssumption DEF Truth, Later
        <4>2. w.clock \in Nat /\ x.clock \in Nat /\ w.clock <= x.clock
          BY DEF Later
        <4>3. x.clock >= w.ended + WaitCap
          BY <4>1, <4>2
        <4>4. QED  BY <4>3
      <3>2. QED  BY <3>1
    <2>2. QED  BY <1>1, <2>1 DEF Truth, Later
  <1>2. \A d : DeadlineKept(d, w) => DeadlineKept(d, x)
    BY DEF DeadlineKept, Later
  <1>3. \A s : Sound(s, w) => Sound(s, x)
    BY <1>1, <1>2 DEF Sound
  <1>4. QED  BY <1>1, <1>2, <1>3

\* What a host holds of a round stays sound while the world and the tables go on.
LEMMA HostStays ==
  ASSUME NEW w, NEW x, Later(w, x), NEW row \in HostRows, HostSound(row, w)
  PROVE  HostSound(row, x)
  <1>1. row.now \in Nat /\ row.todo \in Seq(Statements)
    BY DEF HostRows
  <1>2. row.now <= x.clock
    BY <1>1 DEF Later, HostSound
  <1>3. \A i \in 1..Len(row.todo) : Sound(row.todo[i], x)
    BY TruthStays DEF HostSound, AllSound
  <1>4. Resolvable(row.todo, x)
    <2>1. \A i \in 1..Len(row.todo) : row.todo[i].op = "resolveProbe" =>
            row.todo[i].kind \in KindSet
      <3>1. ASSUME NEW i \in 1..Len(row.todo), row.todo[i].op = "resolveProbe"
            PROVE  row.todo[i].kind \in KindSet
        <4>1. row.todo[i] \in Statements
          BY <1>1
        <4>2. QED  BY <3>1, <4>1 DEF Statements
      <3>2. QED  BY <3>1
    <2>2. QED  BY <2>1 DEF HostSound, AllSound, Resolvable, Later
  <1>5. QED  BY <1>2, <1>3, <1>4, TruthStays DEF HostSound, AllSound, Later

\* So does what a probe row says.
LEMMA ProbeStays ==
  ASSUME NEW w, NEW x, Later(w, x), NEW k \in KindSet, NEW p, ProbeSound(k, p, w)
  PROVE  ProbeSound(k, p, x)
  BY TruthStays DEF ProbeSound, Later

-----------------------------------------------------------------------------
\* Every kind has a first file, and all its files are files of the meeting.
LEMMA FilesOfKind ==
  ASSUME NEW k \in KindSet
  PROVE  /\ Files[k] \in Seq(AllFiles) /\ 1 \in 1..Len(Files[k])
         /\ ToSet(Files[k]) \subseteq AllFiles
         /\ \A i \in 1..Len(Files[k]) : Files[k][i] \in AllFiles /\ Files[k][i] \in ToSet(Files[k])
  <1>1. Files[k] \in Seq(AllFiles) /\ Files[k] # <<>>
    BY DiscoveryAssumption
  <1>2. Len(Files[k]) \in Nat /\ Len(Files[k]) # 0 /\ DOMAIN Files[k] = 1..Len(Files[k])
    BY <1>1
  <1>3. \A i \in 1..Len(Files[k]) : Files[k][i] \in AllFiles /\ Files[k][i] \in ToSet(Files[k])
    BY <1>1, <1>2 DEF ToSet
  <1>4. ToSet(Files[k]) \subseteq AllFiles
    BY DEF AllFiles
  <1>5. QED  BY <1>1, <1>2, <1>3, <1>4

\* One statement, two statements and the upserts of a kind are lists of statements.
LEMMA OneStatement ==
  ASSUME NEW s \in Statements, NEW w, Sound(s, w), s.op # "resolveProbe"
  PROVE  <<s>> \in Seq(Statements) /\ AllSound(<<s>>, w)
  BY DEF AllSound, Resolvable

\* The upserts of a kind's files are statements, and claim nothing.
LEMMA Upserts ==
  ASSUME NEW k \in KindSet, NEW w
  PROVE  /\ UpsertAll(k) \in Seq(Statements) /\ AllSound(UpsertAll(k), w)
         /\ \A i \in 1..Len(UpsertAll(k)) : UpsertAll(k)[i].op = "upsertAsset"
  <1>1. \A i \in 1..Len(Files[k]) : Upsert(Files[k][i]) \in Statements /\
          Upsert(Files[k][i]).op = "upsertAsset"
    BY FilesOfKind DEF Upsert, Statements
  <1>2. Len(Files[k]) \in Nat
    BY FilesOfKind
  <1>3. UpsertAll(k) \in Seq(Statements) /\ Len(UpsertAll(k)) = Len(Files[k])
    BY <1>1, <1>2 DEF UpsertAll
  <1>4. \A i \in 1..Len(UpsertAll(k)) : UpsertAll(k)[i].op = "upsertAsset"
    BY <1>1, <1>2, <1>3 DEF UpsertAll
  <1>5. QED  BY <1>3, <1>4 DEF AllSound, Sound, Resolvable

\* Neither does the markSkippedByKey that follows them.
LEMMA UpsertsAndOne ==
  ASSUME NEW t \in Seq(Statements), NEW w, \A i \in 1..Len(t) : t[i].op = "upsertAsset",
         NEW s \in Statements, s.op = "markSkippedByKey"
  PROVE  t \o <<s>> \in Seq(Statements) /\ AllSound(t \o <<s>>, w)
  <1> DEFINE u == t \o <<s>>
  <1>1. u \in Seq(Statements) /\ Len(u) = Len(t) + 1 /\ Len(t) \in Nat
    OBVIOUS
  <1>2. \A i \in 1..Len(t) : u[i] = t[i]
    OBVIOUS
  <1>3. u[Len(t) + 1] = s
    OBVIOUS
  <1> HIDE DEF u
  <1>4. \A i \in 1..Len(u) : u[i].op \in {"upsertAsset", "markSkippedByKey"}
    <2>1. ASSUME NEW i \in 1..Len(u) PROVE u[i].op \in {"upsertAsset", "markSkippedByKey"}
      <3>1. i \in 1..Len(t) \/ i = Len(t) + 1
        BY <1>1
      <3>2. QED  BY <1>2, <1>3, <3>1
    <2>2. QED  BY <2>1
  <1>5. AllSound(u, w)
    BY <1>4 DEF AllSound, Sound, Resolvable
  <1>6. QED  BY <1>1, <1>5 DEF u

\* A backoff is a number of seconds, however many the attempts.
LEMMA BackoffIsNat ==
  ASSUME NEW n \in 0..Len(Backoff) PROVE ProbeBackoff(n) \in Nat
  <1>1. Backoff \in Seq(Nat \ {0}) /\ Backoff # <<>>
    BY DiscoveryAssumption
  <1>2. Len(Backoff) \in Nat /\ Len(Backoff) # 0
    BY <1>1
  <1>3. (IF n < Len(Backoff) THEN n + 1 ELSE Len(Backoff)) \in 1..Len(Backoff)
    BY <1>2
  <1>4. QED  BY <1>1, <1>3 DEF ProbeBackoff

\* The time until which a kind is waited for.
LEMMA DeadlineIsKept ==
  ASSUME ProbeTypes, NEW now \in Nat
  PROVE  Deadline(now) \in Nat /\ DeadlineKept(Deadline(now), Now)
  BY DiscoveryAssumption DEF ProbeTypes, Deadline, DeadlineKept, Now

\* What is judged of a listing that is older than the world it is judged in.
LEMMA JudgedTruth ==
  ASSUME ProbeTypes, NEW k \in KindSet, NEW seen \in [KindSet -> States], NEW now \in Nat,
         now <= clock,
         NeverComes(seen) => NeverComes(upstream), NEW d \in Nat, DeadlineKept(d, Now)
  PROVE  /\ SiblingAbsent(k, seen) => Truth(k, "not_generated", Now)
         /\ Judge(k, seen, now, d) \in {"ready", "skip_disallowed", "skip_timeout", "wait"}
         /\ Judge(k, seen, now, d) = "skip_disallowed" => Truth(k, "download_not_allowed", Now)
         /\ Judge(k, seen, now, d) = "skip_timeout" => Truth(k, "upstream_timeout", Now)
  <1>1. SiblingAbsent(k, seen) => Truth(k, "not_generated", Now)
    BY DEF SiblingAbsent, Truth, NeverComes, Now
  <1>2. Judge(k, seen, now, d) \in {"ready", "skip_disallowed", "skip_timeout", "wait"}
    BY DEF Judge
  <1>3. Judge(k, seen, now, d) = "skip_disallowed" => Truth(k, "download_not_allowed", Now)
    BY DEF Judge, Truth, Now
  <1>4. ASSUME Judge(k, seen, now, d) = "skip_timeout" PROVE Truth(k, "upstream_timeout", Now)
    <2>1. now >= d
      BY <1>4 DEF Judge
    <2>2. clock \in Nat
      BY DiscoveryAssumption DEF ProbeTypes
    <2>3. ended # NoTime => clock >= ended + WaitCap
      BY <2>1, <2>2 DEF DeadlineKept, Now
    <2>4. QED  BY <2>3 DEF Truth, Now
  <1>5. QED  BY <1>1, <1>2, <1>3, <1>4

\* What discover writes about a kind.
LEMMA DiscoverWrites ==
  ASSUME ProbeTypes, NEW k \in KindSet, NEW seen \in [KindSet -> States], NEW now \in Nat,
         now <= clock,
         NeverComes(seen) => NeverComes(upstream)
  PROVE  DiscoverKind(k, seen, now) \in Seq(Statements) /\ AllSound(DiscoverKind(k, seen, now), Now)
  <1> DEFINE d == Deadline(now)
             judged == Judge(k, seen, now, d)
  <1>1. d \in Nat /\ DeadlineKept(d, Now)
    BY DeadlineIsKept
  <1> HIDE DEF d
  <1>2. /\ SiblingAbsent(k, seen) => Truth(k, "not_generated", Now)
        /\ judged \in {"ready", "skip_disallowed", "skip_timeout", "wait"}
        /\ judged = "skip_timeout" => Truth(k, "upstream_timeout", Now)
    BY <1>1, JudgedTruth
  <1> HIDE DEF judged
  <1>3. DiscoverKind(k, seen, now) =
          IF SiblingAbsent(k, seen) THEN <<AbandonIfProbing(k)>>
          ELSE CASE judged = "ready" -> UpsertAll(k)
                 [] judged = "skip_disallowed" -> UpsertAll(k) \o <<Skip(k)>>
                 [] judged = "skip_timeout" -> <<Probe(k, d, 0), Abandon(k, "upstream_timeout")>>
                 [] judged = "wait" -> <<Probe(k, d, now)>>
    BY DEF DiscoverKind, judged, d
  <1>4. CASE SiblingAbsent(k, seen)
    <2>1. /\ AbandonIfProbing(k) \in Statements /\ Sound(AbandonIfProbing(k), Now)
          /\ AbandonIfProbing(k).op # "resolveProbe"
      BY <1>2, <1>4 DEF AbandonIfProbing, Statements, Sound
    <2>2. QED  BY <1>3, <1>4, <2>1, OneStatement
  <1>5. CASE ~SiblingAbsent(k, seen) /\ judged = "ready"
    BY <1>3, <1>5, Upserts
  <1>6. CASE ~SiblingAbsent(k, seen) /\ judged = "skip_disallowed"
    <2>1. Skip(k) \in Statements /\ Skip(k).op = "markSkippedByKey"
      BY DEF Skip, Statements
    <2>2. QED  BY <1>3, <1>6, <2>1, Upserts, UpsertsAndOne
  <1>7. CASE ~SiblingAbsent(k, seen) /\ judged = "skip_timeout"
    <2> DEFINE a == Probe(k, d, 0)
               b == Abandon(k, "upstream_timeout")
    <2>1. a \in Statements /\ Sound(a, Now) /\ a.op # "resolveProbe"
      BY <1>1 DEF Probe, Statements, Sound
    <2>2. b \in Statements /\ Sound(b, Now) /\ b.op # "resolveProbe"
      BY <1>2, <1>7 DEF Abandon, Statements, Sound, Reasons
    <2> HIDE DEF a, b
    <2>3. <<a, b>> \in Seq(Statements) /\ AllSound(<<a, b>>, Now)
      BY <2>1, <2>2 DEF AllSound, Resolvable
    <2>4. QED  BY <1>3, <1>7, <2>3 DEF a, b
  <1>8. CASE ~SiblingAbsent(k, seen) /\ judged = "wait"
    <2>1. /\ Probe(k, d, now) \in Statements /\ Sound(Probe(k, d, now), Now)
          /\ Probe(k, d, now).op # "resolveProbe"
      BY <1>1 DEF Probe, Statements, Sound
    <2>2. QED  BY <1>3, <1>8, <2>1, OneStatement
  <1>9. QED  BY <1>2, <1>4, <1>5, <1>6, <1>7, <1>8

\* What a round writes about a probe that is due.
LEMMA DueWrites ==
  ASSUME ProbeTypes, NEW p \in DueRows, NEW seen \in [KindSet -> States],
         NeverComes(seen) => NeverComes(upstream), DeadlineKept(p.deadline, Now)
  PROVE  ProbeDue(p, seen, clock) \in Seq(Statements) /\ AllSound(ProbeDue(p, seen, clock), Now)
  <1> DEFINE k == p.kind
             d == p.deadline
             later == clock + ProbeBackoff(p.attempts)
             judged == Judge(k, seen, clock, d)
  <1>1. k \in KindSet /\ d \in Nat /\ clock \in Nat /\ DeadlineKept(d, Now) /\
          p.attempts \in 0..Len(Backoff)
    BY DiscoveryAssumption DEF DueRows, ProbeTypes
  <1>2. later \in Nat
    BY <1>1, BackoffIsNat
  <1> HIDE DEF k, d, later
  <1>3. /\ SiblingAbsent(k, seen) => Truth(k, "not_generated", Now)
        /\ judged \in {"ready", "skip_disallowed", "skip_timeout", "wait"}
        /\ judged = "skip_disallowed" => Truth(k, "download_not_allowed", Now)
        /\ judged = "skip_timeout" => Truth(k, "upstream_timeout", Now)
    BY <1>1, JudgedTruth
  <1> HIDE DEF judged
  <1>4. ProbeDue(p, seen, clock) =
          IF SiblingAbsent(k, seen) THEN <<Abandon(k, "not_generated")>>
          ELSE CASE judged = "ready" -> <<Upsert(Files[k][1]), Resolve(k)>>
                 [] judged = "skip_disallowed" -> <<Abandon(k, "download_not_allowed")>>
                 [] judged = "skip_timeout" -> <<Abandon(k, "upstream_timeout")>>
                 [] judged = "wait" -> <<Bump(k, later)>>
    BY DEF ProbeDue, judged, k, d, later
  <1>5. ASSUME NEW why \in Reasons, Truth(k, why, Now)
        PROVE  <<Abandon(k, why)>> \in Seq(Statements) /\ AllSound(<<Abandon(k, why)>>, Now)
    <2>1. /\ Abandon(k, why) \in Statements /\ Sound(Abandon(k, why), Now)
          /\ Abandon(k, why).op # "resolveProbe"
      BY <1>1, <1>5 DEF Abandon, Statements, Sound
    <2>2. QED  BY <2>1, OneStatement
  <1>6. CASE SiblingAbsent(k, seen)
    BY <1>3, <1>4, <1>5, <1>6 DEF Reasons
  <1>7. CASE ~SiblingAbsent(k, seen) /\ judged = "ready"
    <2> DEFINE f == Files[k][1]
    <2>1. f \in AllFiles /\ f \in ToSet(Files[k])
      BY <1>1, FilesOfKind
    <2> HIDE DEF f
    <2>2. Upsert(f) \in Statements /\ Resolve(k) \in Statements
      BY <1>1, <2>1 DEF Upsert, Resolve, Statements
    <2>3. /\ Upsert(f).op = "upsertAsset" /\ Upsert(f).file = f
          /\ Resolve(k).op = "resolveProbe" /\ Resolve(k).kind = k
      BY DEF Upsert, Resolve
    <2> DEFINE a == Upsert(f)
               b == Resolve(k)
               t == <<a, b>>
    <2>4. t \in Seq(Statements)
      BY <2>2
    <2>5. Len(t) = 2 /\ t[1] = a /\ t[2] = b
      OBVIOUS
    <2> HIDE DEF a, b, t
    <2>6. \A i \in 1..Len(t) : i = 1 \/ i = 2
      BY <2>5
    <2>7. AllSound(t, Now)
      <3>1. \A i \in 1..Len(t) : Sound(t[i], Now)
        BY <2>3, <2>5, <2>6 DEF a, b, Sound
      <3>2. Resolvable(t, Now)
        <4>1. ASSUME NEW i \in 1..Len(t), t[i].op = "resolveProbe"
              PROVE  i > 1 /\ t[i - 1].op = "upsertAsset" /\
                     t[i - 1].file \in ToSet(Files[t[i].kind])
          <5>1. i = 2
            BY <2>3, <2>5, <2>6, <4>1 DEF a
          <5>2. i - 1 = 1 /\ i > 1
            BY <5>1
          <5>3. QED  BY <2>1, <2>3, <2>5, <5>1, <5>2 DEF a, b
        <4>2. QED  BY <4>1 DEF Resolvable
      <3>3. QED  BY <3>1, <3>2 DEF AllSound
    <2>8. QED  BY <1>4, <1>7, <2>4, <2>7 DEF t, a, b, f
  <1>8. CASE ~SiblingAbsent(k, seen) /\ judged \in {"skip_disallowed", "skip_timeout"}
    BY <1>3, <1>4, <1>5, <1>8 DEF Reasons
  <1>9. CASE ~SiblingAbsent(k, seen) /\ judged = "wait"
    <2>1. Bump(k, later) \in Statements /\ Sound(Bump(k, later), Now) /\
            Bump(k, later).op # "resolveProbe"
      BY <1>1, <1>2 DEF Bump, Statements, Sound
    <2>2. QED  BY <1>4, <1>9, <2>1, OneStatement
  <1>10. QED  BY <1>3, <1>6, <1>7, <1>8, <1>9

-----------------------------------------------------------------------------
\* A host that rests is one.
LEMMA RestingIsHost == Resting \in HostRows
  <1>1. <<>> \in Seq(Statements)
    OBVIOUS
  <1>2. QED  BY <1>1 DEF Resting, HostRows, Listings

\* A statement keeps the rows there are, and an upsert makes sure of one.
LEMMA RowsAfterStatement ==
  ASSUME ProbeTypes, NEW s \in Statements
  PROVE  /\ RowsAfter(s) \in [AllFiles -> {"none", "pending", "skipped"}]
         /\ \A f \in AllFiles : rows[f] # "none" => RowsAfter(s)[f] # "none"
         /\ s.op = "upsertAsset" => s.file \in AllFiles /\ RowsAfter(s)[s.file] # "none"
  <1>1. rows \in [AllFiles -> {"none", "pending", "skipped"}]
    BY DEF ProbeTypes
  <1>2. CASE s.op = "upsertAsset"
    <2>1. s.file \in AllFiles
      BY <1>2 DEF Statements
    <2>2. RowsAfter(s) = [rows EXCEPT ![s.file] = IF rows[s.file] = "none"
            THEN "pending" ELSE rows[s.file]]
      BY <1>2 DEF RowsAfter
    <2>3. (IF rows[s.file] = "none" THEN "pending" ELSE rows[s.file]) \in {"pending", "skipped"}
      BY <1>1, <2>1
    <2>4. PICK e \in {"pending", "skipped"} : RowsAfter(s) = [rows EXCEPT ![s.file] = e]
      BY <2>2, <2>3
    <2>5. QED  BY <1>1, <2>1, <2>4
  <1>3. CASE s.op = "markSkippedByKey"
    <2>1. RowsAfter(s) = [f \in AllFiles |-> IF f \in ToSet(Files[s.kind]) /\ rows[f] = "pending"
                                            THEN "skipped" ELSE rows[f]]
      BY <1>3 DEF RowsAfter
    <2>2. QED  BY <1>1, <1>3, <2>1
  <1>4. CASE s.op \notin {"upsertAsset", "markSkippedByKey"}
    BY <1>1, <1>4 DEF RowsAfter
  <1>5. QED  BY <1>2, <1>3, <1>4

\* A statement makes of a probe row another one.
LEMMA ProbeAfterType ==
  ASSUME NEW p \in ProbeRows, NEW s \in Statements
  PROVE  ProbeAfter(p, s) \in ProbeRows
  <1>1. p \in [state : {"none", "probing", "resolved", "abandoned"}, deadline : Nat, after : Nat,
               attempts : 0..Len(Backoff), reason : Reasons \cup {"none"}]
    BY DEF ProbeRows
  <1>2. NoProbe \in ProbeRows
    <2>1. Len(Backoff) \in Nat
      BY DiscoveryAssumption
    <2>2. QED  BY <2>1 DEF NoProbe, ProbeRows
  <1>3. CASE s.op = "upsertProbe"
    <2>1. s.deadline \in Nat /\ s.after \in Nat
      BY <1>3 DEF Statements
    <2>2. [p EXCEPT !.deadline = s.deadline] \in ProbeRows
      BY <1>1, <2>1 DEF ProbeRows
    <2>3. [NoProbe EXCEPT !.state = "probing", !.deadline = s.deadline,
            !.after = s.after] \in ProbeRows
      BY <1>2, <2>1 DEF ProbeRows
    <2>4. QED  BY <1>3, <2>2, <2>3 DEF ProbeAfter, UpsertProbe
  <1>4. CASE s.op = "abandonProbe"
    <2>1. s.reason \in Reasons
      BY <1>4 DEF Statements
    <2>2. [p EXCEPT !.state = "abandoned", !.reason = s.reason] \in ProbeRows
      BY <1>1, <2>1 DEF ProbeRows
    <2>3. QED  BY <1>4, <2>2 DEF ProbeAfter, Ended
  <1>5. CASE s.op = "abandonProbeIfProbing"
    <2>1. [p EXCEPT !.state = "abandoned", !.reason = "not_generated"] \in ProbeRows
      BY <1>1 DEF ProbeRows, Reasons
    <2>2. QED  BY <1>5, <2>1 DEF ProbeAfter
  <1>6. CASE s.op = "resolveProbe"
    <2>1. [p EXCEPT !.state = "resolved"] \in ProbeRows
      BY <1>1 DEF ProbeRows
    <2>2. QED  BY <1>6, <2>1 DEF ProbeAfter
  <1>7. CASE s.op = "bumpProbe"
    <2> DEFINE n == IF p.attempts < Len(Backoff) THEN p.attempts + 1 ELSE p.attempts
    <2>1. s.after \in Nat
      BY <1>7 DEF Statements
    <2>2. n \in 0..Len(Backoff)
      <3>1. Len(Backoff) \in Nat /\ p.attempts \in 0..Len(Backoff)
        BY <1>1, DiscoveryAssumption
      <3>2. QED  BY <3>1
    <2>3. [p EXCEPT !.attempts = n, !.after = s.after] \in ProbeRows
      <3> HIDE DEF n
      <3>1. QED  BY <1>1, <2>1, <2>2 DEF ProbeRows
    <2>4. QED  BY <1>7, <2>3 DEF ProbeAfter
  <1>8. CASE s.op \notin {"upsertProbe", "abandonProbe", "abandonProbeIfProbing", "resolveProbe",
             "bumpProbe"}
    BY <1>8 DEF ProbeAfter
  <1>9. QED  BY <1>3, <1>4, <1>5, <1>6, <1>7, <1>8

\* A sound statement makes of a sound probe row another one.
LEMMA ProbeAfterSound ==
  ASSUME NEW k \in KindSet, NEW w, NEW p \in ProbeRows, ProbeSound(k, p, w),
         NEW s \in Statements, s.op # "upsertAsset" => s.kind = k, Sound(s, w),
         s.op = "resolveProbe" => RowOf(k, w)
  PROVE  ProbeSound(k, ProbeAfter(p, s), w)
  <1>1. p \in [state : {"none", "probing", "resolved", "abandoned"}, deadline : Nat, after : Nat,
               attempts : 0..Len(Backoff), reason : Reasons \cup {"none"}]
    BY DEF ProbeRows
  <1>2. p # NoProbe => p.state # "none" /\ DeadlineKept(p.deadline, w)
    BY DEF ProbeSound
  <1>3. CASE s.op = "upsertProbe"
    <2>1. DeadlineKept(s.deadline, w) /\ s.deadline \in Nat /\ s.after \in Nat
      BY <1>3 DEF Sound, Statements
    <2>2. CASE p = NoProbe
      <3> DEFINE q == [NoProbe EXCEPT !.state = "probing", !.deadline = s.deadline,
                 !.after = s.after]
      <3>1. ProbeAfter(p, s) = q
        BY <1>3, <2>2 DEF ProbeAfter, UpsertProbe
      <3>2. q.state = "probing" /\ q.deadline = s.deadline
        BY DEF NoProbe
      <3> HIDE DEF q
      <3>3. QED  BY <2>1, <3>1, <3>2 DEF ProbeSound
    <2>3. CASE p # NoProbe
      <3> DEFINE q == [p EXCEPT !.deadline = s.deadline]
      <3>1. ProbeAfter(p, s) = q
        BY <1>3, <2>3 DEF ProbeAfter, UpsertProbe
      <3>2. q.state = p.state /\ q.deadline = s.deadline /\ q.reason = p.reason
        BY <1>1
      <3> HIDE DEF q
      <3>3. QED  BY <1>2, <2>1, <2>3, <3>1, <3>2 DEF ProbeSound
    <2>4. QED  BY <2>2, <2>3
  <1>4. CASE s.op = "abandonProbe" /\ p # NoProbe
    <2> DEFINE q == [p EXCEPT !.state = "abandoned", !.reason = s.reason]
    <2>1. Truth(k, s.reason, w) /\ s.reason \in Reasons
      BY <1>4 DEF Sound, Statements
    <2>2. ProbeAfter(p, s) = q
      BY <1>4 DEF ProbeAfter, Ended
    <2>3. q.state = "abandoned" /\ q.deadline = p.deadline /\ q.reason = s.reason
      BY <1>1
    <2> HIDE DEF q
    <2>4. QED  BY <1>2, <1>4, <2>1, <2>2, <2>3 DEF ProbeSound
  <1>5. CASE s.op = "abandonProbeIfProbing" /\ p.state = "probing"
    <2> DEFINE q == [p EXCEPT !.state = "abandoned", !.reason = "not_generated"]
    <2>1. Truth(k, "not_generated", w)
      BY <1>5 DEF Sound
    <2>2. ProbeAfter(p, s) = q
      BY <1>5 DEF ProbeAfter
    <2>3. q.state = "abandoned" /\ q.deadline = p.deadline /\ q.reason = "not_generated"
      BY <1>1
    <2>4. DeadlineKept(p.deadline, w)
      BY <1>5 DEF ProbeSound
    <2> HIDE DEF q
    <2>5. QED  BY <2>1, <2>2, <2>3, <2>4 DEF ProbeSound, Reasons
  <1>6. CASE s.op = "resolveProbe" /\ p # NoProbe
    <2> DEFINE q == [p EXCEPT !.state = "resolved"]
    <2>1. ProbeAfter(p, s) = q
      BY <1>6 DEF ProbeAfter
    <2>2. q.state = "resolved" /\ q.deadline = p.deadline
      BY <1>1
    <2> HIDE DEF q
    <2>3. QED  BY <1>2, <1>6, <2>1, <2>2 DEF ProbeSound
  <1>7. CASE s.op = "bumpProbe" /\ p # NoProbe
    <2> DEFINE n == IF p.attempts < Len(Backoff) THEN p.attempts + 1 ELSE p.attempts
               q == [p EXCEPT !.attempts = n, !.after = s.after]
    <2>1. ProbeAfter(p, s) = q
      BY <1>7 DEF ProbeAfter
    <2> HIDE DEF n
    <2>2. q.state = p.state /\ q.deadline = p.deadline /\ q.reason = p.reason
      BY <1>1
    <2> HIDE DEF q
    <2>3. QED  BY <1>2, <1>7, <2>1, <2>2 DEF ProbeSound
  <1>8. CASE ProbeAfter(p, s) = p
    BY <1>8
  <1>9. \/ s.op = "upsertProbe"
        \/ s.op \in {"abandonProbe", "resolveProbe", "bumpProbe"} /\ p # NoProbe
        \/ s.op = "abandonProbeIfProbing" /\ p.state = "probing"
        \/ ProbeAfter(p, s) = p
    BY DEF ProbeAfter
  <1>10. QED  BY <1>3, <1>4, <1>5, <1>6, <1>7, <1>8, <1>9

\* After the first of its statements, a host's list is still sound.
LEMMA TailIsSound ==
  ASSUME NEW todo \in Seq(Statements), todo # <<>>, NEW w, NEW x, Later(w, x), AllSound(todo, w),
         Head(todo).op = "upsertAsset" => x.rows[Head(todo).file] # "none"
  PROVE  /\ Tail(todo) \in Seq(Statements) /\ AllSound(Tail(todo), x)
         /\ Head(todo) \in Statements /\ Sound(Head(todo), x)
         /\ Head(todo).op = "resolveProbe" => RowOf(Head(todo).kind, x)
  <1> DEFINE t == Tail(todo)
             n == Len(todo)
  <1>1. n \in Nat /\ n >= 1 /\ Head(todo) = todo[1] /\ Head(todo) \in Statements
    OBVIOUS
  <1>2. t \in Seq(Statements) /\ Len(t) = n - 1 /\ \A i \in 1..Len(t) : t[i] = todo[i + 1] /\
          i + 1 \in 1..n
    OBVIOUS
  <1> HIDE DEF t
  <1>3. \A i \in 1..n : Sound(todo[i], x)
    BY TruthStays DEF AllSound
  <1>4. ASSUME NEW i \in 1..n, todo[i].op = "resolveProbe" PROVE todo[i].kind \in KindSet
    <2>1. todo[i] \in Statements
      OBVIOUS
    <2>2. QED  BY <1>4, <2>1 DEF Statements
  <1>5. \A i \in 1..n : todo[i].op = "resolveProbe" =>
          \/ RowOf(todo[i].kind, x)
          \/ i > 1 /\ todo[i - 1].op = "upsertAsset" /\
             todo[i - 1].file \in ToSet(Files[todo[i].kind])
    BY <1>4 DEF AllSound, Resolvable, Later
  <1>6. 1 \in 1..n
    BY <1>1
  <1>7. \A i \in 1..Len(t) : Sound(t[i], x)
    BY <1>2, <1>3
  <1>8. ASSUME NEW i \in 1..Len(t), t[i].op = "resolveProbe"
        PROVE  \/ RowOf(t[i].kind, x)
               \/ i > 1 /\ t[i - 1].op = "upsertAsset" /\ t[i - 1].file \in ToSet(Files[t[i].kind])
    <2>1. i + 1 \in 1..n /\ (i + 1) - 1 = i /\ t[i] = todo[i + 1]
      BY <1>2
    <2>2. \/ RowOf(t[i].kind, x)
          \/ todo[i].op = "upsertAsset" /\ todo[i].file \in ToSet(Files[t[i].kind])
      BY <1>5, <1>8, <2>1
    <2>3. CASE i = 1
      BY <1>1, <2>2, <2>3 DEF RowOf
    <2>4. CASE i # 1
      <3>1. i - 1 \in 1..Len(t) /\ (i - 1) + 1 = i /\ i > 1
        BY <1>2, <1>1, <2>4
      <3>2. t[i - 1] = todo[i]
        BY <1>2, <3>1
      <3>3. QED  BY <2>2, <3>1, <3>2
    <2>5. QED  BY <2>3, <2>4
  <1>9. AllSound(t, x)
    BY <1>7, <1>8 DEF AllSound, Resolvable
  <1>10. Sound(Head(todo), x) /\ (Head(todo).op = "resolveProbe" => RowOf(Head(todo).kind, x))
    BY <1>1, <1>3, <1>5, <1>6
  <1>11. QED  BY <1>1, <1>2, <1>9, <1>10 DEF t

\* Every step keeps the invariant.
LEMMA ProbeInvStep == ProbeInv /\ [DiscoveryNext]_discoveryVars => ProbeInv'
  <1> SUFFICES ASSUME ProbeInv, [DiscoveryNext]_discoveryVars PROVE ProbeInv'
    OBVIOUS
  <1> USE DiscoveryAssumption
  <1>a. ProbeTypes /\ AllTrue
    BY DEF ProbeInv
  <1>b. /\ clock \in Nat /\ upstream \in [KindSet -> States] /\ ended \in Nat \cup {NoTime}
        /\ probe \in [KindSet -> ProbeRows] /\ host \in [Hosts -> HostRows]
        /\ rows \in [AllFiles -> {"none", "pending", "skipped"}]
    BY <1>a DEF ProbeTypes
  <1>c. \A h \in Hosts : host[h] \in HostRows /\ HostSound(host[h], Now)
    BY <1>a, <1>b DEF AllTrue
  <1>d. \A k \in KindSet : probe[k] \in ProbeRows /\ ProbeSound(k, probe[k], Now)
    BY <1>a, <1>b DEF AllTrue
  <1>e. AllSound(<<>>, Now) /\ <<>> \in Seq(Statements)
    BY DEF AllSound, Resolvable
  \* A step of a host that leaves the tables alone.
  <1>f. ASSUME NEW h \in Hosts, NEW row \in HostRows, Move(h, row), HostSound(row, Now),
               row.pc = "judge" => row.seen # <<>>, UNCHANGED <<clock, world, tables>>
        PROVE  ProbeInv'
    <2>1. UNCHANGED <<clock, upstream, barred, ended, rows, probe>> /\ Now' = Now
      BY <1>f DEF world, tables, Now
    <2>2. host' = [host EXCEPT ![h] = row]
      BY <1>f DEF Move
    <2>3. \A g \in Hosts : host'[g] = IF g = h THEN row ELSE host[g]
      BY <1>b, <2>2
    <2>4. host' \in [Hosts -> HostRows]
      BY <1>b, <2>2
    <2>5. ProbeTypes'
      BY <1>a, <1>f, <2>1, <2>3, <2>4 DEF ProbeTypes
    <2>6. \A g \in Hosts : HostSound(host'[g], Now')
      BY <1>c, <1>f, <2>1, <2>3
    <2>7. \A k \in KindSet : ProbeSound(k, probe'[k], Now')
      BY <1>d, <2>1
    <2>8. QED  BY <2>5, <2>6, <2>7 DEF ProbeInv, AllTrue
  <1>g. Resting.pc = "off" /\ HostSound(Resting, Now)
    BY <1>b, <1>e DEF Resting, HostSound, Now
  <1>1. ASSUME NEW h \in Hosts, Execute(h) PROVE ProbeInv'
    <2> DEFINE todo == host[h].todo
               s == Head(todo)
               row == [host[h] EXCEPT !.todo = Tail(todo)]
    <2>1. /\ todo # <<>> /\ rows' = RowsAfter(s) /\ Move(h, row)
          /\ probe' = IF s.op = "upsertAsset" THEN probe
                      ELSE [probe EXCEPT ![s.kind] = ProbeAfter(probe[s.kind], s)]
          /\ UNCHANGED <<clock, upstream, barred, ended>>
      BY <1>1 DEF Execute, world
    <2>2. todo \in Seq(Statements) /\ AllSound(todo, Now) /\ host[h] \in HostRows
      BY <1>c DEF HostRows, HostSound
    <2>3. s \in Statements
      BY <2>1, <2>2
    <2>4. /\ rows' \in [AllFiles -> {"none", "pending", "skipped"}]
          /\ \A f \in AllFiles : rows[f] # "none" => rows'[f] # "none"
          /\ s.op = "upsertAsset" => rows'[s.file] # "none"
      BY <1>a, <2>1, <2>3, RowsAfterStatement
    <2>5. Later(Now, Now')
      <3>1. /\ Now.clock = clock /\ Now.barred = barred /\ Now.ended = ended /\
               Now.upstream = upstream
            /\ Now.rows = rows
            /\ Now'.clock = clock /\ Now'.barred = barred /\ Now'.ended = ended /\
               Now'.upstream = upstream
            /\ Now'.rows = rows'
        BY <2>1 DEF Now
      <3>2. \A k \in KindSet : RowOf(k, Now) => RowOf(k, Now')
        BY <2>4, <3>1, FilesOfKind DEF RowOf
      <3>3. QED  BY <1>b, <3>1, <3>2 DEF Later
    <2>6. Now'.rows = rows'
      BY DEF Now
    <2> HIDE DEF todo
    <2>7. /\ Tail(todo) \in Seq(Statements) /\ AllSound(Tail(todo), Now') /\ Sound(s, Now')
          /\ s.op = "resolveProbe" => RowOf(s.kind, Now')
      BY <2>1, <2>2, <2>4, <2>5, <2>6, TailIsSound
    <2>8. /\ row \in HostRows /\ row.pc = host[h].pc /\ row.seen = host[h].seen /\
             row.now = host[h].now
          /\ row.due = host[h].due /\ row.todo = Tail(todo)
      BY <2>2, <2>7 DEF HostRows
    <2>9. \A g \in Hosts : HostSound(host[g], Now')
      BY <1>c, <2>5, HostStays
    <2>10. HostSound(row, Now')
      BY <2>7, <2>8, <2>9 DEF HostSound
    <2>11. host' = [host EXCEPT ![h] = row]
      BY <2>1 DEF Move
    <2> HIDE DEF row
    <2>12. host' \in [Hosts -> HostRows] /\
             \A g \in Hosts : host'[g] = IF g = h THEN row ELSE host[g]
      BY <1>b, <2>8, <2>11
    <2>13. probe' \in [KindSet -> ProbeRows] /\ \A k \in KindSet : ProbeSound(k, probe'[k], Now')
      <3>1. \A k \in KindSet : ProbeSound(k, probe[k], Now')
        BY <1>d, <2>5, ProbeStays
      <3>2. CASE s.op = "upsertAsset"
        BY <1>b, <2>1, <3>1, <3>2
      <3>3. CASE s.op # "upsertAsset"
        <4> HIDE DEF s
        <4>1. s.kind \in KindSet
          BY <2>3, <3>3 DEF Statements
        <4> DEFINE p == ProbeAfter(probe[s.kind], s)
        <4>2. p \in ProbeRows
          BY <1>d, <2>3, <4>1, ProbeAfterType
        <4>3. ProbeSound(s.kind, p, Now')
          BY <1>d, <2>3, <2>7, <3>1, <4>1, ProbeAfterSound
        <4>4. probe' = [probe EXCEPT ![s.kind] = p]
          BY <2>1, <3>3
        <4> HIDE DEF p
        <4>5. probe' \in [KindSet -> ProbeRows] /\
                \A k \in KindSet : probe'[k] = IF k = s.kind THEN p ELSE probe[k]
          BY <1>b, <4>1, <4>2, <4>4
        <4>6. QED  BY <3>1, <4>3, <4>5
      <3>4. QED  BY <3>2, <3>3
    <2>14. ProbeTypes'
      <3>1. /\ clock' \in 0..MaxClock /\ upstream' \in [KindSet -> States] /\ ended' \in EndTimes
        BY <1>a, <2>1 DEF ProbeTypes
      <3>2. \A g \in Hosts : host'[g].pc = "judge" => host'[g].seen # <<>>
        <4>1. \A g \in Hosts : host[g].pc = "judge" => host[g].seen # <<>>
          BY <1>a DEF ProbeTypes
        <4>2. QED  BY <2>8, <2>12, <4>1
      <3>3. QED  BY <2>4, <2>12, <2>13, <3>1, <3>2 DEF ProbeTypes
    <2>15. \A g \in Hosts : HostSound(host'[g], Now')
      BY <2>9, <2>10, <2>12
    <2>16. QED  BY <2>13, <2>14, <2>15 DEF ProbeInv, AllTrue
  <1>2. ASSUME NEW h \in Hosts, Decide(h) PROVE ProbeInv'
    <2> DEFINE row == [Resting EXCEPT !.pc = "list", !.now = clock, !.wanted = Wanted(h)]
    <2>1. Move(h, row) /\ UNCHANGED <<clock, world, tables>>
      BY <1>2 DEF Decide
    <2>2. Wanted(h) \in SUBSET KindSet
      BY DEF Wanted
    <2>3. /\ row \in HostRows /\ row.pc = "list" /\ row.seen = <<>> /\ row.now = clock
          /\ row.due = {} /\ row.todo = <<>>
      BY <1>b, <1>e, <2>2 DEF Resting, HostRows, Listings
    <2> HIDE DEF row
    <2>4. HostSound(row, Now)
      BY <1>b, <1>e, <2>3 DEF HostSound, Now
    <2>5. QED  BY <1>f, <2>1, <2>3, <2>4
  \* What is written about a kind rests on a listing as old as the first of them.
  <1>3. ASSUME NEW h \in Hosts, Discover(h) PROVE ProbeInv'
    <2> DEFINE seen == IF host[h].seen = <<>> THEN upstream ELSE host[h].seen
    <2>1. PICK i \in 1..Len(Kinds) :
            LET rest == host[h].wanted \ {Kinds[i]}
                row == IF rest = {} THEN [Resting EXCEPT !.pc = "due"]
                       ELSE [host[h] EXCEPT !.wanted = rest, !.seen = seen] IN
            /\ Kinds[i] \in host[h].wanted
            /\ Move(h, [row EXCEPT !.todo = DiscoverKind(Kinds[i], seen, host[h].now)])
      BY <1>3 DEF Discover
    <2>2. UNCHANGED <<clock, world, tables>> /\ host[h].pc = "list"
      BY <1>3 DEF Discover, HostAt
    <2>3. /\ host[h].now \in Nat /\ host[h].now <= clock /\ host[h].wanted \in SUBSET KindSet
          /\ host[h].seen \in Listings /\ host[h].due \in SUBSET DueRows
          /\ \A p \in host[h].due : DeadlineKept(p.deadline, Now)
      BY <1>c DEF HostRows, HostSound, Now
    <2>4. seen \in [KindSet -> States] /\ (NeverComes(seen) => NeverComes(upstream))
      BY <1>b, <1>c, <2>3 DEF Listings, HostSound, Now
    <2> HIDE DEF seen
    <2> DEFINE k == Kinds[i]
               todo == DiscoverKind(k, seen, host[h].now)
               rest == host[h].wanted \ {k}
    <2>5. k \in KindSet
      BY <2>1, <2>3
    <2>6. todo \in Seq(Statements) /\ AllSound(todo, Now)
      BY <1>a, <2>3, <2>4, <2>5, DiscoverWrites
    <2> HIDE DEF k, todo
    <2>7. CASE rest = {}
      <3> DEFINE row == [[Resting EXCEPT !.pc = "due"] EXCEPT !.todo = todo]
      <3>1. Move(h, row)
        BY <2>1, <2>7 DEF k, todo
      <3>2. /\ row \in HostRows /\ row.pc = "due" /\ row.seen = <<>> /\ row.now = 0
            /\ row.due = {} /\ row.todo = todo
        BY <2>6 DEF Resting, HostRows, Listings
      <3> HIDE DEF row
      <3>3. HostSound(row, Now)
        BY <1>b, <2>6, <3>2 DEF HostSound, Now
      <3>4. QED  BY <1>f, <2>2, <3>1, <3>2, <3>3
    <2>8. CASE rest # {}
      <3> DEFINE row == [[host[h] EXCEPT !.wanted = rest, !.seen = seen] EXCEPT !.todo = todo]
      <3>1. Move(h, row)
        BY <2>1, <2>8 DEF k, todo
      <3>2. rest \in SUBSET KindSet /\ seen \in Listings /\ host[h] \in HostRows
        BY <1>c, <2>3, <2>4 DEF Listings
      <3> HIDE DEF rest
      <3>3. /\ row \in HostRows /\ row.pc = "list" /\ row.seen = seen /\ row.now = host[h].now
            /\ row.due = host[h].due /\ row.todo = todo
        BY <2>2, <2>6, <3>2 DEF HostRows
      <3> HIDE DEF row
      <3>4. HostSound(row, Now)
        BY <2>3, <2>4, <2>6, <3>3 DEF HostSound, Now
      <3>5. QED  BY <1>f, <2>2, <3>1, <3>3, <3>4
    <2>9. QED  BY <2>7, <2>8
  <1>4. ASSUME NEW h \in Hosts, DueProbes(h) PROVE ProbeInv'
    <2> DEFINE due == {k \in KindSet : probe[k].state = "probing" /\ probe[k].after <= clock}
               ps == {[kind |-> k, deadline |-> probe[k].deadline,
                 attempts |-> probe[k].attempts] : k \in due}
               row == [Resting EXCEPT !.pc = "probe", !.due = ps]
    <2>1. UNCHANGED <<clock, world, tables>> /\ (Move(h, Resting) \/ Move(h, row))
      BY <1>4 DEF DueProbes
    <2>2. CASE Move(h, Resting)
      BY <1>f, <1>g, <2>1, <2>2, RestingIsHost
    <2>3. CASE Move(h, row)
      <3>1. ASSUME NEW p \in ps PROVE p \in DueRows /\ DeadlineKept(p.deadline, Now)
        <4>1. PICK k \in due : p = [kind |-> k, deadline |-> probe[k].deadline,
                   attempts |-> probe[k].attempts]
          BY <3>1
        <4>2. k \in KindSet /\ probe[k].state = "probing"
          BY <4>1
        <4>3. probe[k].deadline \in Nat /\ probe[k].attempts \in 0..Len(Backoff)
          BY <1>d, <4>2 DEF ProbeRows
        <4>4. DeadlineKept(probe[k].deadline, Now)
          BY <1>d, <4>2 DEF ProbeSound
        <4>5. QED  BY <4>1, <4>2, <4>3, <4>4 DEF DueRows
      <3> HIDE DEF ps
      <3>2. /\ row \in HostRows /\ row.pc = "probe" /\ row.seen = <<>> /\ row.now = 0
            /\ row.due = ps /\ row.todo = <<>>
        BY <1>e, <3>1 DEF Resting, HostRows, Listings
      <3> HIDE DEF row
      <3>3. HostSound(row, Now)
        BY <1>b, <1>e, <3>1, <3>2 DEF HostSound, Now
      <3>4. QED  BY <1>f, <2>1, <2>3, <3>2, <3>3
    <2>4. QED  BY <2>1, <2>2, <2>3
  <1>5. ASSUME NEW h \in Hosts, AskUpstream(h) PROVE ProbeInv'
    <2> DEFINE row == [host[h] EXCEPT !.pc = "judge", !.seen = upstream]
    <2>1. Move(h, row) /\ UNCHANGED <<clock, world, tables>> /\ host[h].due # {}
      BY <1>5 DEF AskUpstream
    <2>2. host[h] \in HostRows /\ upstream \in Listings
      BY <1>b, <1>c DEF Listings
    <2>3. /\ row \in HostRows /\ row.seen = upstream /\ row.now = host[h].now
          /\ row.due = host[h].due /\ row.todo = host[h].todo
      BY <2>2 DEF HostRows
    <2>4. upstream # <<>>
      <3>1. PICK p \in host[h].due : p.kind \in KindSet
        BY <2>1, <2>2 DEF HostRows, DueRows
      <3>2. DOMAIN upstream = KindSet /\ KindSet # {}
        BY <1>b, <3>1
      <3>3. DOMAIN <<>> = {}
        OBVIOUS
      <3>4. QED  BY <3>2, <3>3
    <2> HIDE DEF row
    <2>5. HostSound(row, Now)
      BY <1>c, <2>3 DEF HostSound, Now
    <2>6. QED  BY <1>f, <2>1, <2>3, <2>4, <2>5
  <1>6. ASSUME NEW h \in Hosts, JudgeProbe(h) PROVE ProbeInv'
    <2>1. PICK p \in host[h].due :
            Move(h, [host[h] EXCEPT !.pc = "probe", !.seen = <<>>, !.due = @ \ {p},
                                    !.todo = ProbeDue(p, host[h].seen, clock)])
      BY <1>6 DEF JudgeProbe
    <2>2. UNCHANGED <<clock, world, tables>> /\ host[h].pc = "judge"
      BY <1>6 DEF JudgeProbe, HostAt
    <2>3. /\ host[h] \in HostRows /\ p \in DueRows /\ DeadlineKept(p.deadline, Now)
          /\ host[h].seen \in Listings /\ host[h].seen # <<>>
          /\ NeverComes(host[h].seen) => NeverComes(upstream)
      BY <1>a, <1>c, <2>2 DEF HostRows, HostSound, Now, ProbeTypes
    <2> DEFINE todo == ProbeDue(p, host[h].seen, clock)
               rest == host[h].due \ {p}
               row == [host[h] EXCEPT !.pc = "probe", !.seen = <<>>, !.due = rest, !.todo = todo]
    <2>4. todo \in Seq(Statements) /\ AllSound(todo, Now)
      BY <1>a, <2>3, DueWrites DEF Listings
    <2>5. Move(h, row)
      BY <2>1
    <2> HIDE DEF todo
    <2>6. /\ row \in HostRows /\ row.pc = "probe" /\ row.seen = <<>> /\ row.now = host[h].now
          /\ row.due = rest /\ row.todo = todo
      BY <2>3, <2>4 DEF HostRows, Listings
    <2> HIDE DEF row
    <2>7. HostSound(row, Now)
      BY <1>c, <2>4, <2>6 DEF HostSound
    <2>8. QED  BY <1>f, <2>2, <2>5, <2>6, <2>7
  <1>7. ASSUME NEW h \in Hosts, EndRound(h) \/ HostDies(h) PROVE ProbeInv'
    <2>1. Move(h, Resting) /\ UNCHANGED <<clock, world, tables>>
      BY <1>7 DEF EndRound, HostDies
    <2>2. QED  BY <1>f, <1>g, <2>1, RestingIsHost
  \* A step of the world.
  <1>h. ASSUME UNCHANGED <<barred, ended, tables, host>>, clock' \in 0..MaxClock, clock' >= clock,
               upstream' \in [KindSet -> States], NeverComes(upstream) => NeverComes(upstream')
        PROVE  ProbeInv'
    <2>1. UNCHANGED <<rows, probe, host, barred, ended>>
      BY <1>h DEF tables
    <2>2. /\ Now.clock = clock /\ Now.barred = barred /\ Now.ended = ended /\
             Now.upstream = upstream
          /\ Now.rows = rows
          /\ Now'.clock = clock' /\ Now'.barred = barred /\ Now'.ended = ended /\
             Now'.upstream = upstream'
          /\ Now'.rows = rows
      BY <2>1 DEF Now
    <2>3. Later(Now, Now')
      BY <1>b, <1>h, <2>2 DEF Later, RowOf
    <2>4. ProbeTypes'
      BY <1>a, <1>h, <2>1 DEF ProbeTypes
    <2>5. \A h \in Hosts : HostSound(host'[h], Now')
      BY <1>c, <2>1, <2>3, HostStays
    <2>6. \A k \in KindSet : ProbeSound(k, probe'[k], Now')
      BY <1>d, <2>1, <2>3, ProbeStays
    <2>7. QED  BY <2>4, <2>5, <2>6 DEF ProbeInv, AllTrue
  <1>i. clock \in 0..MaxClock
    BY <1>a DEF ProbeTypes
  <1>8. CASE Tick
    BY <1>b, <1>h, <1>i, <1>8 DEF Tick, world
  <1>9. CASE StopPulling
    BY <1>b, <1>h, <1>i, <1>9 DEF StopPulling
  <1>10. ASSUME NEW k \in KindSet, Transcode(k) PROVE ProbeInv'
    <2>1. /\ upstream[k] = "absent" /\ k # "audio" /\ upstream' = [upstream EXCEPT ![k] = "working"]
          /\ UNCHANGED <<clock, barred, ended, tables, host>>
      BY <1>10 DEF Transcode
    <2>2. upstream' \in [KindSet -> States]
      BY <1>b, <2>1 DEF States
    <2>3. NeverComes(upstream) => NeverComes(upstream')
      BY <1>b, <2>1 DEF NeverComes
    <2>4. QED  BY <1>b, <1>h, <1>i, <2>1, <2>2, <2>3
  <1>11. ASSUME NEW k \in KindSet, NEW o \in SUBSET {"audio"}, Publish(k, o) PROVE ProbeInv'
    <2>1. /\ upstream[k] = "working" /\ o \subseteq (IF k = "video"
             THEN {"audio"} ELSE {}) \cap KindSet
          /\ upstream' = [x \in KindSet |-> IF x = k \/ x \in o THEN "ready" ELSE upstream[x]]
          /\ UNCHANGED <<clock, barred, ended, tables, host>>
      BY <1>11 DEF Publish
    <2>2. upstream' \in [KindSet -> States]
      BY <1>b, <2>1 DEF States
    <2>3. NeverComes(upstream) => NeverComes(upstream')
      BY <1>b, <2>1 DEF NeverComes
    <2>4. QED  BY <1>b, <1>h, <1>i, <2>1, <2>2, <2>3
  <1>12. CASE UNCHANGED discoveryVars
    BY <1>b, <1>h, <1>i, <1>12 DEF discoveryVars, world
  <1>13. QED
    BY <1>1, <1>2, <1>3, <1>4, <1>5, <1>6, <1>7, <1>8, <1>9, <1>10, <1>11, <1>12
       DEF DiscoveryNext, HostStep

\* Discovery starts in the invariant.
LEMMA ProbesStart == DiscoveryInit => ProbeInv
  <1> SUFFICES ASSUME DiscoveryInit PROVE ProbeInv
    OBVIOUS
  <1> USE DiscoveryAssumption, RestingIsHost
  <1>1. NoProbe \in ProbeRows /\ NoProbe.state = "none"
    <2>1. Len(Backoff) \in Nat
      OBVIOUS
    <2>2. QED  BY <2>1 DEF NoProbe, ProbeRows
  <1>2. ProbeTypes
    BY <1>1 DEF DiscoveryInit, ProbeTypes, States, Resting
  <1>3. \A h \in Hosts : HostSound(host[h], Now)
    <2>1. AllSound(<<>>, Now)
      BY DEF AllSound, Resolvable
    <2>2. HostSound(Resting, Now)
      BY <2>1 DEF HostSound, Resting, Now, DiscoveryInit
    <2>3. QED  BY <2>2 DEF DiscoveryInit
  <1>4. \A k \in KindSet : ProbeSound(k, probe[k], Now)
    BY <1>1 DEF ProbeSound, DiscoveryInit
  <1>5. QED  BY <1>2, <1>3, <1>4 DEF ProbeInv, AllTrue

\* The invariant says that the probes tell the truth.
LEMMA ProbeInvTruth == ProbeInv => DiscoveryTypeOK /\ ProbesTellTruth
  <1> SUFFICES ASSUME ProbeInv PROVE DiscoveryTypeOK /\ ProbesTellTruth
    OBVIOUS
  <1>1. DiscoveryTypeOK
    BY DEF ProbeInv, ProbeTypes, DiscoveryTypeOK, ProbeRows, HostRows
  <1>2. ASSUME NEW k \in KindSet
        PROVE  /\ probe[k].state = "resolved" => HasRow(k)
               /\ probe[k].state = "abandoned" =>
                    CASE probe[k].reason = "not_generated" ->
                           k = "audio" /\ upstream["video"] = "ready" /\
                             upstream["audio"] = "absent"
                      [] probe[k].reason = "download_not_allowed" -> k \in barred
                      [] probe[k].reason = "upstream_timeout" -> ended # NoTime =>
                        clock >= ended + WaitCap
    <2>1. ProbeSound(k, probe[k], Now)
      BY DEF ProbeInv, AllTrue
    <2>2. probe[k].state = "resolved" => HasRow(k)
      BY <2>1 DEF ProbeSound, RowOf, HasRow, Now
    <2>3. ASSUME probe[k].state = "abandoned"
          PROVE  probe[k].reason \in Reasons /\ Truth(k, probe[k].reason, Now)
      BY <2>1, <2>3 DEF ProbeSound
    <2>4. QED  BY <2>2, <2>3 DEF Reasons, Truth, NeverComes, Now
  <1>3. QED  BY <1>1, <1>2 DEF ProbesTellTruth

\* A resolved probe has a row to download, and an abandoned one says the truth about why,
\* for any number of hosts, kinds and files, whatever dies and however the statements of
\* the hosts mix (discovery/index.ts, executor/index.ts, domain/readiness.ts).
THEOREM ProbesSpeakTruth == DiscoverySpec => [](DiscoveryTypeOK /\ ProbesTellTruth)
  BY ProbesStart, ProbeInvStep, ProbeInvTruth, PTL DEF DiscoverySpec

-----------------------------------------------------------------------------
(* Where the files of a recording go *)

MeetingRows == [start : Minutes \cup {Unknown}, created : Nat]
AssetRows == [status : {"none", "pending", "running", "completed", "skipped"},
              path : Directory \cup {<<>>}]
DirMaps == UNION {[S -> Directory] : S \in SUBSET Recordings}
Rounds == [pc : {"off", "scan", "run", "manifest"}, now : Nat, todo : SUBSET Recordings,
           map : DirMaps, works : Recordings \cup {Nobody}]

\* Every variable of Directories has a value of its kind, and a round looks only at what
\* it may look at.
DirTypes ==
  /\ time \in Nat /\ edited \in Nat /\ crossed \in BOOLEAN
  /\ platform \in [Recordings -> Minutes \cup {Unknown}]
  /\ meetings \in [Recordings -> MeetingRows]
  /\ asset \in [Recordings -> AssetRows]
  /\ disk \in [Directory -> Recordings \cup {Nobody}]
  /\ sidecar \in [Directory -> Recordings \cup {Nobody}]
  /\ round \in [Processes -> Rounds]
\* What round row holds, as platform p shows the recordings.
Linked(row, p) ==
  /\ row.pc = "scan" => \A r \in row.todo : p[r] # Unknown
  /\ row.pc \in {"off", "scan"} => row.map = NoMap
  /\ row.works # Nobody => row.pc = "run" /\ row.works \in DOMAIN row.map
  /\ row.pc = "manifest" => row.todo \subseteq DOMAIN row.map
DirLinks ==
  /\ \A r \in Recordings : meetings[r] = NoRow \/ meetings[r].start # Unknown
  /\ \A h \in Processes : Linked(round[h], platform)

\* The directory of a recording, as the table gives it now.
Place(r) == <<meetings[r].start, DirOrdinal(r)>>
Mapped(r) == asset[r].path # <<>> \/ \E g \in Processes : r \in DOMAIN round[g].map
\* What a round has still to find.
Fresh(h) == round[h].todo \ Known
Older(r, h) == meetings[r].created < round[h].now

\* As long as no start time was corrected and nobody found a recording in another's round:
\* the table follows the platform, and every row has its meeting;
TableFollows == \A r \in Recordings :
  /\ r \in Known => meetings[r].start = platform[r]
  /\ asset[r].status # "none" => r \in Known
  /\ asset[r].status # "skipped"
\* whoever names directories names all there are, and names them as the table still does;
NamesHold == \A h \in Processes :
  /\ round[h].pc \in {"run", "manifest"} => DOMAIN round[h].map = Known
  /\ \A r \in DOMAIN round[h].map : round[h].map[r] = Place(r)
PathsHold == \A r \in Recordings : asset[r].path # <<>> => r \in Known /\ asset[r].path = Place(r)
\* what a round has still to find comes after everything that was named;
FoundLater == \A h \in Processes : round[h].pc = "scan" /\ Fresh(h) # {} =>
  \A r \in Recordings : Mapped(r) => Older(r, h)
\* of two rounds, the later one goes through what the other one has not found yet, or it
\* began after everything was found;
RoundsApart == \A g, h \in Processes : g # h /\ round[g].pc = "scan" /\ round[h].pc = "scan" =>
  Fresh(h) \subseteq round[g].todo \/ \A r \in Known : Older(r, h)
\* and files and sidecars lie where the rows say.
FilesThere ==
  /\ \A h \in Processes : round[h].works # Nobody => asset[round[h].works].path # <<>>
  /\ \A r \in Recordings : asset[r].status = "completed" => asset[r].path # <<>> /\
     disk[asset[r].path] = r
  /\ \A d \in Directory : sidecar[d] # Nobody =>
       asset[sidecar[d]].status = "completed" /\ asset[sidecar[d]].path = d

Settled == TableFollows /\ NamesHold /\ PathsHold /\ FoundLater /\ RoundsApart /\ FilesThere
DirInv == DirTypes /\ DirLinks /\ (edited = 0 /\ ~crossed => Settled)

\* No names at all are a map of names.
LEMMA NoMapIsMap == NoMap \in DirMaps /\ DOMAIN NoMap = {}
  <1>1. NoMap \in [{} -> Directory]
    BY DEF NoMap
  <1>2. QED  BY <1>1 DEF DirMaps

\* A process that rests is in a round of no names and nothing to do.
LEMMA RestIsRound == /\ AtRest \in Rounds /\ AtRest.pc = "off" /\ AtRest.map = NoMap
                     /\ AtRest.works = Nobody /\ AtRest.todo = {}
  BY NoMapIsMap DEF AtRest, Rounds

\* The recordings that a directory ordinal counts.
Group(r) == {x \in Known : meetings[x].start = meetings[r].start /\ Before(x, r)}

\* What an ordinal counts can be counted.
LEMMA GroupFinite ==
  ASSUME NEW r PROVE IsFiniteSet(Group(r)) /\ Group(r) \subseteq Recordings
  <1>1. Group(r) \subseteq Recordings
    BY DEF Group, Known
  <1>2. QED  BY <1>1, FS_Subset, DirectoriesAssumption

\* A directory ordinal is between one and the number of recordings.
LEMMA OrdinalInRange ==
  ASSUME DirTypes, NEW r \in Known
  PROVE  DirOrdinal(r) \in Ordinals
  <1>1. r \in Group(r) /\ r \in Recordings
    BY DirectoriesAssumption DEF Group, Before, Known
  <1>2. Cardinality(Group(r)) <= Cardinality(Recordings) /\ Cardinality(Recordings) \in Nat
    BY GroupFinite, FS_Subset, FS_CardinalityType, DirectoriesAssumption
  <1>3. Cardinality(Group(r)) # 0 /\ Cardinality(Group(r)) \in Nat
    BY <1>1, GroupFinite, FS_EmptySet, FS_CardinalityType
  <1>4. QED  BY <1>2, <1>3 DEF DirOrdinal, Group, Ordinals

\* Two recordings never have one directory.
LEMMA PlacesDiffer ==
  ASSUME DirTypes, NEW r \in Known, NEW s \in Known, Place(r) = Place(s)
  PROVE  r = s
  <1>1. r \in Nat /\ s \in Nat /\ \A x \in Known : x \in Nat /\ meetings[x].created \in Nat
    BY DirectoriesAssumption DEF Known, DirTypes, MeetingRows
  <1>2. meetings[r].start = meetings[s].start /\ Cardinality(Group(r)) = Cardinality(Group(s))
    BY DEF Place, DirOrdinal, Group
  <1>3. ASSUME NEW x \in Known, NEW y \in Known, x # y, Before(x, y),
               meetings[x].start = meetings[y].start
        PROVE  Cardinality(Group(x)) # Cardinality(Group(y))
    <2> DEFINE cx == meetings[x].created
               cy == meetings[y].created
    <2>a. x \in Nat /\ y \in Nat /\ cx \in Nat /\ cy \in Nat
      BY <1>1
    <2>b. cx < cy \/ (cx = cy /\ x <= y)
      BY <1>3 DEF Before
    <2>c. ASSUME NEW z \in Known, Before(z, x) PROVE Before(z, y)
      <3> DEFINE cz == meetings[z].created
      <3>1. z \in Nat /\ cz \in Nat /\ (cz < cx \/ (cz = cx /\ z <= x))
        BY <1>1, <2>c DEF Before
      <3> HIDE DEF cx, cy, cz
      <3>2. cz < cy \/ (cz = cy /\ z <= y)
        BY <3>1, <2>a, <2>b
      <3>3. QED  BY <3>2 DEF Before, cz, cy
    <2>d. ~Before(y, x) /\ Before(y, y)
      <3> HIDE DEF cx, cy
      <3>1. ~(cy < cx \/ (cy = cx /\ y <= x)) /\ y <= y
        BY <2>a, <2>b, <1>3
      <3>2. QED  BY <3>1 DEF Before, cx, cy
    <2>1. Group(x) \subseteq Group(y)
      BY <1>3, <2>c DEF Group
    <2>2. y \in Group(y) /\ y \notin Group(x)
      BY <2>d DEF Group
    <2>3. Group(x) \in SUBSET Group(y) /\ Group(x) # Group(y) /\ IsFiniteSet(Group(y))
      BY <2>1, <2>2, GroupFinite
    <2>4. QED  BY <2>3, FS_Subset
  <1>4. Before(r, s) \/ Before(s, r)
    BY <1>1 DEF Before
  <1>5. QED  BY <1>2, <1>3, <1>4

\* A recording that is found later leaves the directories of the older ones alone.
LEMMA PlaceKept ==
  ASSUME DirTypes, NEW r \in Recordings, r \notin Known, NEW row \in MeetingRows,
         meetings' = [meetings EXCEPT ![r] = row],
         NEW s \in Known, meetings[s].created < row.created
  PROVE  Place(s)' = Place(s)
  <1>1. \A x \in Recordings : meetings'[x] = IF x = r THEN row ELSE meetings[x]
    BY DEF DirTypes
  <1>2. s \in Recordings /\ s # r /\ meetings[s].created \in Nat /\ row.created \in Nat
    BY DEF Known, DirTypes, MeetingRows
  <1>3. \A x \in Recordings : x # r => (x \in Known' <=> x \in Known)
    BY <1>1 DEF Known
  <1>4. ~Before(r, s)'
    BY <1>1, <1>2 DEF Before
  <1>5. \A x \in Recordings : x # r => (Before(x, s)' <=> Before(x, s))
    BY <1>1, <1>2 DEF Before
  <1>6. \A x : x \in Group(s)' <=> x \in Group(s)
    <2>1. ASSUME NEW x \in Recordings PROVE x \in Group(s)' <=> x \in Group(s)
      BY <1>1, <1>2, <1>3, <1>4, <1>5 DEF Group
    <2>2. Group(s) \subseteq Recordings /\ Group(s)' \subseteq Recordings
      BY DEF Group, Known
    <2>3. QED  BY <2>1, <2>2
  <1>7. Group(s)' = Group(s)
    BY <1>6
  <1>8. DirOrdinal(s)' = DirOrdinal(s)
    BY <1>7 DEF DirOrdinal, Group
  <1>9. QED  BY <1>1, <1>2, <1>8 DEF Place

\* What a step makes of a round.
LEMMA RoundMoves ==
  ASSUME NEW row \in Rounds
  PROVE  /\ \A S \in SUBSET Recordings : [row EXCEPT !.todo = S] \in Rounds
         /\ \A m \in DirMaps : [row EXCEPT !.pc = "run", !.map = m] \in Rounds
         /\ \A r \in Recordings \cup {Nobody} : [row EXCEPT !.works = r] \in Rounds
         /\ \A S \in SUBSET Recordings : [row EXCEPT !.pc = "manifest", !.todo = S] \in Rounds
         /\ \A t \in Nat, S \in SUBSET Recordings :
              [row EXCEPT !.pc = "scan", !.now = t, !.todo = S] \in Rounds
         /\ DOMAIN row.map \subseteq Recordings /\
            \A r \in DOMAIN row.map : row.map[r] \in Directory
         /\ row.todo \subseteq Recordings
  <1>1. row \in [pc : {"off", "scan", "run", "manifest"}, now : Nat, todo : SUBSET Recordings,
                 map : DirMaps, works : Recordings \cup {Nobody}]
    BY DEF Rounds
  <1>2. \A S \in SUBSET Recordings : [row EXCEPT !.todo = S] \in Rounds
    BY <1>1 DEF Rounds
  <1>3. \A m \in DirMaps : [row EXCEPT !.pc = "run", !.map = m] \in Rounds
    BY <1>1 DEF Rounds
  <1>4. \A r \in Recordings \cup {Nobody} : [row EXCEPT !.works = r] \in Rounds
    BY <1>1 DEF Rounds
  <1>5. \A S \in SUBSET Recordings : [row EXCEPT !.pc = "manifest", !.todo = S] \in Rounds
    BY <1>1 DEF Rounds
  <1>6. \A t \in Nat, S \in SUBSET Recordings :
          [row EXCEPT !.pc = "scan", !.now = t, !.todo = S] \in Rounds
    BY <1>1 DEF Rounds
  <1>7. PICK S \in SUBSET Recordings : row.map \in [S -> Directory]
    BY <1>1 DEF DirMaps
  <1>8. QED  BY <1>1, <1>2, <1>3, <1>4, <1>5, <1>6, <1>7

\* A round that is put for another one leaves the rounds typed and linked.
LEMMA RoundPut ==
  ASSUME DirTypes, DirLinks, NEW h \in Processes, NEW row \in Rounds, Step(h, row),
         UNCHANGED platform, Linked(row, platform)
  PROVE  /\ round' \in [Processes -> Rounds]
         /\ \A g \in Processes : round'[g] = IF g = h THEN row ELSE round[g]
         /\ \A g \in Processes : Linked(round'[g], platform')
  <1>1. round' = [round EXCEPT ![h] = row] /\ round \in [Processes -> Rounds]
    BY DEF Step, DirTypes
  <1>2. \A g \in Processes : round'[g] = IF g = h THEN row ELSE round[g]
    BY <1>1
  <1>3. \A g \in Processes : Linked(round'[g], platform')
    BY <1>2 DEF DirLinks
  <1>4. QED  BY <1>1, <1>2, <1>3

\* The map of a round that has found everything it looked for.
MapNow == [r \in Known |-> Place(r)]
\* That map gives each recording a directory.
LEMMA MapNowIsMap == DirTypes /\ DirLinks => MapNow \in DirMaps
  <1> SUFFICES ASSUME DirTypes, DirLinks PROVE MapNow \in DirMaps
    OBVIOUS
  <1>1. ASSUME NEW r \in Known PROVE Place(r) \in Directory
    <2>1. meetings[r].start \in Minutes
      BY DEF Known, DirTypes, DirLinks, MeetingRows
    <2>2. QED  BY <2>1, OrdinalInRange DEF Place, Directory
  <1>2. Known \in SUBSET Recordings
    BY DEF Known
  <1> HIDE DEF Known
  <1>3. QED  BY <1>1, <1>2 DEF MapNow, DirMaps

\* Every step keeps the types and the links.
LEMMA DirTypeStep == DirTypes /\ DirLinks /\ [DirectoryNext]_directoryVars => DirTypes' /\ DirLinks'
  <1> SUFFICES ASSUME DirTypes, DirLinks, [DirectoryNext]_directoryVars PROVE DirTypes' /\ DirLinks'
    OBVIOUS
  <1> USE DirectoriesAssumption, RestIsRound
  <1>a. \A h \in Processes : round[h] \in Rounds /\ Linked(round[h], platform)
    BY DEF DirTypes, DirLinks
  \* A step of one round that changes neither the table nor the platform.
  <1>b. ASSUME NEW h \in Processes, NEW row \in Rounds, Step(h, row), Linked(row, platform),
               UNCHANGED <<time, platform, edited, meetings, crossed>>,
               asset' \in [Recordings -> AssetRows],
               disk' \in [Directory -> Recordings \cup {Nobody}],
               sidecar' \in [Directory -> Recordings \cup {Nobody}]
        PROVE  DirTypes' /\ DirLinks'
    <2>1. /\ round' \in [Processes -> Rounds]
          /\ \A g \in Processes : Linked(round'[g], platform')
      BY <1>b, RoundPut
    <2>2. QED  BY <1>b, <2>1 DEF DirTypes, DirLinks
  <1>c. /\ asset \in [Recordings -> AssetRows] /\ time \in Nat
        /\ disk \in [Directory -> Recordings \cup {Nobody}]
        /\ sidecar \in [Directory -> Recordings \cup {Nobody}]
    BY DEF DirTypes
  <1>1. ASSUME NEW h \in Processes, BeginRound(h) PROVE DirTypes' /\ DirLinks'
    <2> DEFINE S == {r \in Recordings : platform[r] # Unknown}
               row == [AtRest EXCEPT !.pc = "scan", !.now = time, !.todo = S]
    <2>1. row \in Rounds
      BY <1>c, RoundMoves
    <2>2. Linked(row, platform)
      BY DEF Linked, AtRest
    <2>3. Step(h, row) /\ UNCHANGED <<outside, meetings, asset, disk, sidecar, crossed>>
      BY <1>1 DEF BeginRound
    <2> HIDE DEF row
    <2>4. QED  BY <1>b, <1>c, <2>1, <2>2, <2>3 DEF outside
  <1>2. ASSUME NEW h \in Processes, UpsertMeeting(h) PROVE DirTypes' /\ DirLinks'
    <2>1. PICK r \in round[h].todo :
       /\ meetings' = [meetings EXCEPT ![r] =
            [start |-> platform[r],
             created |-> IF r \in Known THEN meetings[r].created ELSE round[h].now]]
       /\ asset' = [asset EXCEPT ![r] =
            IF @ = NoAsset THEN [NoAsset EXCEPT !.status = "pending"] ELSE @]
       /\ Step(h, [round[h] EXCEPT !.todo = @ \ {r}])
       /\ crossed' \in BOOLEAN
      BY <1>2, Zenon DEF UpsertMeeting
    <2> DEFINE row == [round[h] EXCEPT !.todo = round[h].todo \ {r}]
    <2>2. r \in Recordings /\ platform[r] # Unknown /\ platform[r] \in Minutes /\
            round[h].pc = "scan"
      <3>1. round[h].pc = "scan" /\ r \in round[h].todo
        BY <1>2 DEF UpsertMeeting
      <3>2. round[h] \in Rounds /\ Linked(round[h], platform)
        BY <1>a
      <3>3. platform[r] # Unknown
        BY <3>1, <3>2 DEF Linked
      <3>4. r \in Recordings
        BY <3>1, <3>2 DEF Rounds
      <3>5. QED  BY <3>1, <3>3, <3>4 DEF DirTypes
    <2>3. UNCHANGED <<time, platform, edited, disk, sidecar>>
      BY <1>2 DEF UpsertMeeting, outside
    <2>4. row \in Rounds
      BY <1>a, RoundMoves
    <2>5. Linked(row, platform)
      BY <1>a, <2>2 DEF Linked, Rounds
    <2>6. /\ round' \in [Processes -> Rounds]
          /\ \A g \in Processes : Linked(round'[g], platform')
      <3>1. Step(h, row)
        BY <2>1
      <3> HIDE DEF row
      <3>2. QED  BY <2>3, <2>4, <2>5, <3>1, RoundPut
    <2>7. PICK n \in Nat : meetings' = [meetings EXCEPT ![r] = [start |-> platform[r],
               created |-> n]]
      <3>1. meetings[r].created \in Nat /\ round[h].now \in Nat
        BY <1>a, <2>2 DEF DirTypes, MeetingRows, Rounds
      <3>2. (IF r \in Known THEN meetings[r].created ELSE round[h].now) \in Nat
        BY <3>1
      <3>3. QED  BY <2>1, <3>2
    <2>8. /\ meetings' \in [Recordings -> MeetingRows]
          /\ \A x \in Recordings : meetings'[x] = NoRow \/ meetings'[x].start # Unknown
      <3>1. [start |-> platform[r], created |-> n] \in MeetingRows
        BY <2>2 DEF MeetingRows
      <3>2. QED  BY <2>2, <2>7, <3>1 DEF DirTypes, DirLinks
    <2>9. asset' \in [Recordings -> AssetRows]
      <3>1. [NoAsset EXCEPT !.status = "pending"] \in AssetRows /\ asset[r] \in AssetRows
        BY <2>2, <1>c DEF NoAsset, AssetRows
      <3>2. asset'[r] \in AssetRows /\ \A x \in Recordings : x # r => asset'[x] = asset[x]
        BY <2>1, <2>2, <1>c, <3>1
      <3>3. asset' = [x \in Recordings |-> asset'[x]]
        BY <2>1, <1>c
      <3>4. QED  BY <1>c, <3>2, <3>3
    <2>10. QED  BY <2>1, <2>3, <2>6, <2>8, <2>9 DEF DirTypes, DirLinks
  <1>3. ASSUME NEW h \in Processes, MeetingsForPaths(h) PROVE DirTypes' /\ DirLinks'
    <2> DEFINE row == [round[h] EXCEPT !.pc = "run", !.map = MapNow]
    <2>1. row \in Rounds
      BY <1>a, RoundMoves, MapNowIsMap
    <2>2. Linked(row, platform)
      BY <1>a, <1>3 DEF Linked, Rounds, MeetingsForPaths
    <2>3. Step(h, row) /\ UNCHANGED <<outside, meetings, asset, disk, sidecar, crossed>>
      BY <1>3 DEF MeetingsForPaths, MapNow, Place
    <2> HIDE DEF row
    <2>4. QED  BY <1>b, <1>c, <2>1, <2>2, <2>3 DEF outside
  <1>4. ASSUME NEW h \in Processes, ClaimRow(h) PROVE DirTypes' /\ DirLinks'
    <2>1. UNCHANGED <<time, platform, edited, meetings, crossed, disk, sidecar>> /\
            round[h].pc = "run"
      BY <1>4 DEF ClaimRow, outside
    <2>2. CASE \E r \in Recordings :
                 /\ r \in DOMAIN round[h].map
                 /\ asset' = [asset EXCEPT ![r] = [status |-> "running", path |-> round[h].map[r]]]
                 /\ Step(h, [round[h] EXCEPT !.works = r])
      <3>1. PICK r \in Recordings :
                 /\ r \in DOMAIN round[h].map
                 /\ asset' = [asset EXCEPT ![r] = [status |-> "running", path |-> round[h].map[r]]]
                 /\ Step(h, [round[h] EXCEPT !.works = r])
        BY <2>2
      <3> DEFINE row == [round[h] EXCEPT !.works = r]
      <3>2. row \in Rounds
        BY <1>a, RoundMoves
      <3>3. Linked(row, platform)
        BY <1>a, <2>1, <3>1 DEF Linked, Rounds
      <3>4. asset' \in [Recordings -> AssetRows]
        <4>1. [status |-> "running", path |-> round[h].map[r]] \in AssetRows
          BY <1>a, <3>1, RoundMoves DEF AssetRows
        <4>2. QED  BY <1>c, <3>1, <4>1
      <3>5. Step(h, row)
        BY <3>1
      <3> HIDE DEF row
      <3>6. QED  BY <1>b, <1>c, <2>1, <3>2, <3>3, <3>4, <3>5
    <2>3. CASE (\E r \in Recordings : asset' = [asset EXCEPT ![r].status = "skipped"]) /\
               UNCHANGED round
      <3>1. PICK r \in Recordings : asset' = [asset EXCEPT ![r].status = "skipped"]
        BY <2>3
      <3>2. asset' \in [Recordings -> AssetRows]
        <4>1. [asset[r] EXCEPT !.status = "skipped"] \in AssetRows
          BY <1>c DEF AssetRows
        <4>2. QED  BY <1>c, <3>1, <4>1
      <3>3. QED  BY <2>1, <2>3, <3>2 DEF DirTypes, DirLinks
    <2>4. QED  BY <1>4, <2>2, <2>3 DEF ClaimRow
  <1>5. ASSUME NEW h \in Processes, FinishRow(h) PROVE DirTypes' /\ DirLinks'
    <2> DEFINE r == round[h].works
               row == [round[h] EXCEPT !.works = Nobody]
    <2>1. /\ UNCHANGED <<time, platform, edited, meetings, crossed, sidecar>> /\ r # Nobody /\
             Step(h, row)
          /\ disk' = [disk EXCEPT ![round[h].map[r]] = r]
          /\ asset' = [asset EXCEPT ![r].status = "completed"]
      BY <1>5 DEF FinishRow, outside
    <2>2. r \in Recordings /\ round[h].map[r] \in Directory
      <3>1. round[h] \in Rounds /\ r \in DOMAIN round[h].map
        BY <1>a, <2>1 DEF Linked
      <3>2. QED  BY <3>1, RoundMoves
    <2>3. row \in Rounds /\ Linked(row, platform)
      <3>1. round[h] \in Rounds /\ Nobody \in Recordings \cup {Nobody}
        BY <1>a
      <3>2. row \in Rounds
        BY <3>1, RoundMoves
      <3>3. /\ row.pc = round[h].pc /\ row.todo = round[h].todo /\ row.map = round[h].map
            /\ row.works = Nobody
        BY <3>1 DEF Rounds
      <3>4. Linked(row, platform)
        BY <1>a, <3>3 DEF Linked
      <3>5. QED  BY <3>2, <3>4
    <2>4. asset' \in [Recordings -> AssetRows]
      <3>1. [asset[r] EXCEPT !.status = "completed"] \in AssetRows
        BY <1>c, <2>2 DEF AssetRows
      <3>2. QED  BY <1>c, <2>1, <2>2, <3>1
    <2>5. disk' \in [Directory -> Recordings \cup {Nobody}]
      BY <1>c, <2>1, <2>2
    <2> HIDE DEF row
    <2>6. QED  BY <1>b, <1>c, <2>1, <2>3, <2>4, <2>5
  <1>6. ASSUME NEW h \in Processes, BeginManifests(h) PROVE DirTypes' /\ DirLinks'
    <2> DEFINE row == [round[h] EXCEPT !.pc = "manifest", !.todo = DOMAIN round[h].map]
    <2>1. row \in Rounds
      BY <1>a, RoundMoves
    <2>2. Linked(row, platform)
      BY <1>a, <1>6 DEF Linked, Rounds, BeginManifests
    <2>3. Step(h, row) /\ UNCHANGED <<outside, meetings, asset, disk, sidecar, crossed>>
      BY <1>6 DEF BeginManifests
    <2> HIDE DEF row
    <2>4. QED  BY <1>b, <1>c, <2>1, <2>2, <2>3 DEF outside
  <1>7. ASSUME NEW h \in Processes, WriteMeetingManifest(h) PROVE DirTypes' /\ DirLinks'
    <2>1. PICK r \in round[h].todo :
            LET dir == <<meetings[r].start, round[h].map[r][2]>> IN
            /\ sidecar' = IF LiesIn(r, dir) THEN [sidecar EXCEPT ![dir] = r] ELSE sidecar
            /\ Step(h, [round[h] EXCEPT !.todo = @ \ {r}])
      BY <1>7 DEF WriteMeetingManifest
    <2> DEFINE dir == <<meetings[r].start, round[h].map[r][2]>>
               row == [round[h] EXCEPT !.todo = round[h].todo \ {r}]
    <2>2. UNCHANGED <<time, platform, edited, meetings, crossed, asset, disk>> /\
            round[h].pc = "manifest"
      BY <1>7 DEF WriteMeetingManifest, outside
    <2>3. row \in Rounds /\ r \in Recordings
      BY <1>a, RoundMoves
    <2>4. Linked(row, platform)
      BY <1>a, <2>2 DEF Linked, Rounds
    <2>5. LiesIn(r, dir) => dir \in Directory
      <3>1. asset[r].path \in Directory \cup {<<>>} /\ dir # <<>>
        BY <1>c, <2>3 DEF AssetRows
      <3>2. QED  BY <3>1 DEF LiesIn
    <2>6. sidecar' \in [Directory -> Recordings \cup {Nobody}]
      BY <1>c, <2>1, <2>3, <2>5
    <2>7. Step(h, row)
      BY <2>1
    <2> HIDE DEF row
    <2>8. QED  BY <1>b, <1>c, <2>2, <2>3, <2>4, <2>6, <2>7
  <1>8. ASSUME NEW h \in Processes, FinishRound(h) \/ Dies(h) PROVE DirTypes' /\ DirLinks'
    <2>1. Step(h, AtRest) /\ UNCHANGED <<time, platform, edited, meetings, asset, disk, sidecar,
            crossed>>
      BY <1>8 DEF FinishRound, Dies, outside
    <2>2. Linked(AtRest, platform)
      BY DEF Linked
    <2>3. QED  BY <1>b, <1>c, <2>1, <2>2
  <1>9. CASE Appear \/ EditStart
    <2>1. PICK r \in Recordings, m \in Minutes : platform' = [platform EXCEPT ![r] = m]
      BY <1>9 DEF Appear, EditStart
    <2>2. UNCHANGED <<time, meetings, asset, disk, sidecar, round, crossed>> /\ edited' \in Nat
      BY <1>9 DEF Appear, EditStart, DirTypes
    <2>3. platform' \in [Recordings -> Minutes \cup {Unknown}]
      BY <2>1 DEF DirTypes
    <2>4. \A x \in Recordings : platform[x] # Unknown => platform'[x] # Unknown
      BY <2>1 DEF DirTypes, Unknown
    <2>5. \A h \in Processes : Linked(round'[h], platform')
      <3>1. ASSUME NEW h \in Processes PROVE Linked(round[h], platform')
        BY <1>a, <2>4, RoundMoves DEF Linked
      <3>2. QED  BY <2>2, <3>1
    <2>6. QED  BY <2>2, <2>3, <2>5 DEF DirTypes, DirLinks
  <1>10. CASE TimePasses
    BY <1>10 DEF TimePasses, DirTypes, DirLinks
  <1>11. CASE UNCHANGED directoryVars
    BY <1>11 DEF directoryVars, outside, DirTypes, DirLinks
  <1>12. QED
    BY <1>1, <1>2, <1>3, <1>4, <1>5, <1>6, <1>7, <1>8, <1>9, <1>10, <1>11
       DEF DirectoryNext, RoundStep

\* While the table stays, so do the directories.
LEMMA PlaceSame ==
  ASSUME UNCHANGED meetings
  PROVE  Known' = Known /\ \A r : Place(r)' = Place(r)
  BY DEF Known, Place, DirOrdinal, Before

\* Only what the table knows has been named.
LEMMA MappedKnown ==
  ASSUME DirTypes, DirLinks, NamesHold, PathsHold, NEW r \in Recordings, Mapped(r)
  PROVE  r \in Known
  <1>1. ASSUME NEW g \in Processes, r \in DOMAIN round[g].map PROVE r \in Known
    <2>1. round[g].pc \in {"off", "scan"} => DOMAIN round[g].map = {}
      BY NoMapIsMap DEF DirLinks, Linked
    <2>2. round[g].pc \in {"off", "scan", "run", "manifest"}
      BY DEF DirTypes, Rounds
    <2>3. QED  BY <1>1, <2>1, <2>2 DEF NamesHold
  <1>2. QED  BY <1>1 DEF Mapped, PathsHold

\* A round that stops looking for recordings, or has stopped, leaves the names as they are.
LEMMA RoundNames ==
  ASSUME DirTypes, DirLinks, Settled, NEW h \in Processes, NEW row,
         \A g \in Processes : round'[g] = IF g = h THEN row ELSE round[g],
         UNCHANGED meetings, row.pc # "scan",
         row.pc \in {"run", "manifest"} => DOMAIN row.map = Known,
         \A r \in DOMAIN row.map : row.map[r] = Place(r),
         DOMAIN row.map \subseteq DOMAIN round[h].map,
         \A r \in Recordings : asset'[r].path # <<>> => Mapped(r)
  PROVE  NamesHold' /\ FoundLater' /\ RoundsApart'
  <1>1. Known' = Known /\ \A r : Place(r)' = Place(r)
    BY PlaceSame
  <1>2. NamesHold'
    BY <1>1 DEF Settled, NamesHold
  <1>3. \A r \in Recordings : Mapped(r)' => Mapped(r)
    BY DEF Mapped
  <1>4. ASSUME NEW g \in Processes, round'[g].pc = "scan"
        PROVE  g # h /\ round'[g] = round[g] /\ Fresh(g)' = Fresh(g) /\ \A r : Older(r, g)' <=>
               Older(r, g)
    BY <1>1, <1>4 DEF Fresh, Older
  <1>5. FoundLater'
    BY <1>3, <1>4 DEF Settled, FoundLater
  <1>6. RoundsApart'
    BY <1>1, <1>4 DEF Settled, RoundsApart
  <1>7. QED  BY <1>2, <1>5, <1>6

\* As long as no start time is corrected and nobody finds a recording in another's round,
\* every directory that was named stays.
LEMMA SettledStep ==
  DirTypes /\ DirLinks /\ (edited = 0 /\ ~crossed => Settled) /\ [DirectoryNext]_directoryVars
    => (edited' = 0 /\ ~crossed' => Settled')
  <1> SUFFICES ASSUME DirTypes, DirLinks, edited = 0 /\ ~crossed => Settled,
                      [DirectoryNext]_directoryVars, edited' = 0, ~crossed'
               PROVE  Settled'
    OBVIOUS
  <1> USE DirectoriesAssumption, RestIsRound
  <1>a. edited = 0 /\ ~crossed
    <2>1. ~EditStart
      BY DEF EditStart, DirTypes
    <2>2. edited = 0
      BY <2>1 DEF DirectoryNext, RoundStep, directoryVars, outside, BeginRound, UpsertMeeting,
         MeetingsForPaths, ClaimRow, FinishRow, BeginManifests, WriteMeetingManifest, FinishRound,
         Dies, Appear, TimePasses
    <2>3. ASSUME NEW h \in Processes, UpsertMeeting(h) PROVE ~crossed
      BY <2>3, Zenon DEF UpsertMeeting
    <2>4. ASSUME NEW h \in Processes, RoundStep(h), ~UpsertMeeting(h) PROVE crossed' = crossed
      BY <2>4 DEF RoundStep, BeginRound, MeetingsForPaths, ClaimRow, FinishRow, BeginManifests,
         WriteMeetingManifest, FinishRound, Dies
    <2>5. ASSUME Appear \/ TimePasses \/ UNCHANGED directoryVars PROVE crossed' = crossed
      BY <2>5 DEF Appear, TimePasses, directoryVars
    <2>6. (\E h \in Processes : RoundStep(h)) \/ Appear \/ TimePasses \/ UNCHANGED directoryVars
      BY <2>1 DEF DirectoryNext
    <2>7. ASSUME NEW h \in Processes, RoundStep(h) PROVE ~crossed
      <3>1. CASE UpsertMeeting(h)
        BY <2>3, <3>1
      <3>2. CASE ~UpsertMeeting(h)
        BY <2>4, <2>7, <3>2
      <3>3. QED  BY <3>1, <3>2
    <2>8. QED  BY <2>2, <2>5, <2>6, <2>7
  <1>b. Settled
    BY <1>a
  <1>c. \A h \in Processes : round[h] \in Rounds /\ Linked(round[h], platform)
    BY DEF DirTypes, DirLinks
  <1>d. TableFollows /\ NamesHold /\ PathsHold /\ FoundLater /\ RoundsApart /\ FilesThere
    BY <1>b DEF Settled
  <1>e. \A r \in Recordings : Mapped(r) => r \in Known
    BY <1>d, MappedKnown
  <1>f. /\ asset \in [Recordings -> AssetRows] /\ meetings \in [Recordings -> MeetingRows]
        /\ disk \in [Directory -> Recordings \cup {Nobody}]
        /\ sidecar \in [Directory -> Recordings \cup {Nobody}]
        /\ round \in [Processes -> Rounds]
    BY DEF DirTypes
  <1>g. <<>> \notin Directory
    BY DEF Directory
  <1>h. ASSUME NEW h \in Processes, NEW row, Step(h, row)
        PROVE  \A g \in Processes : round'[g] = IF g = h THEN row ELSE round[g]
    BY <1>h, <1>f DEF Step
  \* The rest of a step of a round, when files and rows stay.
  <1>i. ASSUME NEW h \in Processes, NEW row, Step(h, row), row.pc # "scan", row.works = Nobody,
               row.pc \in {"run", "manifest"} => DOMAIN row.map = Known,
               row.map \in {NoMap, round[h].map},
               UNCHANGED <<platform, meetings, asset, disk>>,
               \A d \in Directory : sidecar'[d] # sidecar[d] =>
                 asset[sidecar'[d]].status = "completed" /\ asset[sidecar'[d]].path = d
        PROVE  Settled'
    <2>1. \A g \in Processes : round'[g] = IF g = h THEN row ELSE round[g]
      BY <1>h, <1>i
    <2>2. Known' = Known /\ \A r : Place(r)' = Place(r)
      BY <1>i, PlaceSame
    <2>3. \A r \in DOMAIN row.map : row.map[r] = Place(r) /\ r \in DOMAIN round[h].map
      BY <1>d, <1>i, NoMapIsMap DEF NamesHold
    <2>4. \A r \in Recordings : asset'[r].path # <<>> => Mapped(r)
      BY <1>i DEF Mapped
    <2>5. NamesHold' /\ FoundLater' /\ RoundsApart'
      BY <1>b, <1>i, <2>1, <2>3, <2>4, RoundNames
    <2>6. TableFollows' /\ PathsHold'
      BY <1>d, <1>i, <2>2 DEF TableFollows, PathsHold
    <2>7. FilesThere'
      BY <1>d, <1>i, <2>1 DEF FilesThere
    <2>8. QED  BY <2>5, <2>6, <2>7 DEF Settled
  <1>1. ASSUME NEW h \in Processes, BeginRound(h) PROVE Settled'
    <2> DEFINE S == {r \in Recordings : platform[r] # Unknown}
               row == [AtRest EXCEPT !.pc = "scan", !.now = time, !.todo = S]
    <2>1. Step(h, row) /\ UNCHANGED <<platform, meetings, asset, disk, sidecar>>
      BY <1>1 DEF BeginRound, outside
    <2>2. row.pc = "scan" /\ row.todo = S /\ row.now = time /\ row.map = NoMap /\ row.works = Nobody
      BY DEF AtRest
    <2>3. \A r \in Known : meetings[r].created < time
      BY <1>1 DEF BeginRound
    <2> HIDE DEF row
    <2>4. \A g \in Processes : round'[g] = IF g = h THEN row ELSE round[g]
      BY <1>h, <2>1
    <2>5. Known' = Known /\ \A r : Place(r)' = Place(r)
      BY <2>1, PlaceSame
    <2>6. \A r \in Recordings : Mapped(r)' => Mapped(r)
      BY <2>1, <2>2, <2>4, NoMapIsMap DEF Mapped
    <2>7. TableFollows' /\ PathsHold'
      BY <1>d, <2>1, <2>5 DEF TableFollows, PathsHold
    <2>8. NamesHold'
      BY <1>d, <2>2, <2>4, <2>5, NoMapIsMap DEF NamesHold
    <2>9. \A r \in Known : Older(r, h)'
      BY <2>1, <2>2, <2>3, <2>4 DEF Older
    <2>a. \A g \in Processes : g # h =>
            round'[g] = round[g] /\ Fresh(g)' = Fresh(g) /\ \A r : Older(r, g)' <=> Older(r, g)
      BY <2>1, <2>4, <2>5 DEF Fresh, Older
    <2>10. FoundLater'
      <3>1. ASSUME NEW g \in Processes, NEW r \in Recordings, round'[g].pc = "scan",
                   Fresh(g)' # {}, Mapped(r)'
            PROVE  Older(r, g)'
        <4>1. CASE g = h
          BY <4>1, <3>1, <2>6, <2>9, <1>e
        <4>2. CASE g # h
          BY <4>2, <3>1, <2>6, <2>a, <1>d DEF FoundLater
        <4>3. QED  BY <4>1, <4>2
      <3>2. QED  BY <3>1 DEF FoundLater
    <2>11. RoundsApart'
      <3>1. ASSUME NEW f \in Processes, NEW g \in Processes, f # g,
                   round'[f].pc = "scan", round'[g].pc = "scan"
            PROVE  Fresh(g)' \subseteq round'[f].todo \/ \A r \in Known : Older(r, g)'
        <4>1. CASE g = h
          BY <4>1, <2>9
        <4>2. CASE f = h
          <5>1. g # h /\ round[g].pc = "scan" /\ round[g] \in Rounds /\ Linked(round[g], platform)
            BY <3>1, <4>2, <2>a, <1>c
          <5>2. round[g].todo \subseteq S
            BY <5>1 DEF Linked, Rounds
          <5>3. Fresh(g)' \subseteq round'[f].todo
            BY <5>1, <5>2, <4>2, <2>2, <2>4, <2>a DEF Fresh
          <5>4. QED  BY <5>3
        <4>3. CASE f # h /\ g # h
          BY <4>3, <3>1, <2>a, <1>d DEF RoundsApart
        <4>4. QED  BY <4>1, <4>2, <4>3
      <3>2. QED  BY <3>1, <2>5 DEF RoundsApart
    <2>12. FilesThere'
      BY <1>d, <2>1, <2>2, <2>4 DEF FilesThere
    <2>13. QED  BY <2>7, <2>8, <2>10, <2>11, <2>12 DEF Settled
  <1>2. ASSUME NEW h \in Processes, MeetingsForPaths(h) PROVE Settled'
    <2> DEFINE row == [round[h] EXCEPT !.pc = "run", !.map = MapNow]
    <2>1. Step(h, row) /\ UNCHANGED <<platform, meetings, asset, disk, sidecar>>
      BY <1>2 DEF MeetingsForPaths, MapNow, Place, outside
    <2>2. round[h].pc = "scan" /\ round[h].todo = {}
      BY <1>2 DEF MeetingsForPaths
    <2>3. row.pc = "run" /\ row.map = MapNow /\ row.works = Nobody
      BY <1>c, <2>2 DEF Rounds, Linked
    <2> HIDE DEF row
    <2>4. \A g \in Processes : round'[g] = IF g = h THEN row ELSE round[g]
      BY <1>h, <2>1
    <2>5. Known' = Known /\ \A r : Place(r)' = Place(r)
      BY <2>1, PlaceSame
    <2>6. \A r \in Recordings : Mapped(r)' => r \in Known
      <3>1. ASSUME NEW r \in Recordings, NEW g \in Processes,
                   r \in DOMAIN round'[g].map PROVE r \in Known
        BY <3>1, <2>3, <2>4, <1>e DEF Mapped, MapNow
      <3>2. QED  BY <3>1, <2>1, <1>e DEF Mapped
    <2>7. TableFollows' /\ PathsHold'
      BY <1>d, <2>1, <2>5 DEF TableFollows, PathsHold
    <2>8. NamesHold'
      BY <1>d, <2>3, <2>4, <2>5 DEF NamesHold, MapNow
    <2>9. \A g \in Processes : round'[g].pc = "scan" =>
            /\ g # h /\ round'[g] = round[g] /\ Fresh(g)' = Fresh(g)
            /\ \A r : Older(r, g)' <=> Older(r, g)
      BY <2>1, <2>3, <2>4, <2>5 DEF Fresh, Older
    <2>10. FoundLater'
      <3>1. ASSUME NEW g \in Processes, NEW r \in Recordings, round'[g].pc = "scan",
                   Fresh(g)' # {}, Mapped(r)'
            PROVE  Older(r, g)'
        <4>1. g # h /\ round[g].pc = "scan" /\ Fresh(g) # {} /\ r \in Known
          BY <3>1, <2>6, <2>9
        <4>2. \A x \in Known : Older(x, g)
          BY <4>1, <2>2, <1>d DEF RoundsApart
        <4>3. QED  BY <3>1, <4>1, <4>2, <2>9
      <3>2. QED  BY <3>1 DEF FoundLater
    <2>11. RoundsApart'
      BY <1>d, <2>5, <2>9 DEF RoundsApart
    <2>12. FilesThere'
      BY <1>d, <2>1, <2>3, <2>4 DEF FilesThere
    <2>13. QED  BY <2>7, <2>8, <2>10, <2>11, <2>12 DEF Settled
  \* A recording is looked at: one that the table has, or a new one, alone.
  <1>3. ASSUME NEW h \in Processes, UpsertMeeting(h) PROVE Settled'
    <2>1. PICK r \in round[h].todo :
       /\ meetings' = [meetings EXCEPT ![r] =
            [start |-> platform[r],
             created |-> IF r \in Known THEN meetings[r].created ELSE round[h].now]]
       /\ asset' = [asset EXCEPT ![r] =
            IF @ = NoAsset THEN [NoAsset EXCEPT !.status = "pending"] ELSE @]
       /\ Step(h, [round[h] EXCEPT !.todo = @ \ {r}])
       /\ r \in Known \/ \A g \in Processes \ {h} : round[g].pc = "off"
      BY <1>3, Zenon DEF UpsertMeeting
    <2>2. UNCHANGED <<platform, disk, sidecar>> /\ round[h].pc = "scan"
      BY <1>3 DEF UpsertMeeting, outside
    <2>3. r \in Recordings /\ platform[r] # Unknown /\ round[h].now \in Nat
      BY <1>c, <2>2 DEF Linked, Rounds
    <2> DEFINE row == [round[h] EXCEPT !.todo = round[h].todo \ {r}]
    <2>4. /\ row.pc = "scan" /\ row.todo = round[h].todo \ {r} /\ row.now = round[h].now
          /\ row.map = round[h].map /\ row.works = Nobody /\ row.map = NoMap
      BY <1>c, <2>2 DEF Rounds, Linked
    <2>5. Step(h, row)
      BY <2>1
    <2> HIDE DEF row
    <2>6. \A g \in Processes : round'[g] = IF g = h THEN row ELSE round[g]
      BY <1>h, <2>5
    <2>7. \A x \in Recordings : asset'[x] = IF x = r /\ asset[r] = NoAsset
                                         THEN [NoAsset EXCEPT !.status = "pending"] ELSE asset[x]
      BY <1>f, <2>1, <2>3
    <2>8. \A x \in Recordings : /\ asset'[x].path = asset[x].path
                                /\ asset'[x].status = "completed" <=> asset[x].status = "completed"
                                /\ asset'[x].status # "skipped"
                                /\ x # r => asset'[x].status = asset[x].status
      BY <1>d, <2>7 DEF NoAsset, TableFollows
    <2>9. \A x \in Recordings : Mapped(x)' <=> Mapped(x)
      BY <2>4, <2>6, <2>8 DEF Mapped
    <2>10. FilesThere'
      <3>1. \A g \in Processes : round'[g].works # Nobody =>
              round'[g].works = round[g].works /\ round[g].works \in Recordings
        BY <1>c, <2>4, <2>6 DEF Rounds
      <3>2. \A g \in Processes : round'[g].works # Nobody => asset'[round'[g].works].path # <<>>
        BY <1>d, <2>8, <3>1 DEF FilesThere
      <3>3. \A x \in Recordings : asset'[x].status = "completed" =>
              asset'[x].path # <<>> /\ disk'[asset'[x].path] = x
        BY <1>d, <2>2, <2>8 DEF FilesThere
      <3>4. ASSUME NEW d \in Directory, sidecar'[d] # Nobody
            PROVE  asset'[sidecar'[d]].status = "completed" /\ asset'[sidecar'[d]].path = d
        <4>1. sidecar[d] \in Recordings /\ sidecar'[d] = sidecar[d]
          BY <1>f, <2>2, <3>4
        <4>2. asset[sidecar[d]].status = "completed" /\ asset[sidecar[d]].path = d
          BY <1>d, <3>4, <4>1 DEF FilesThere
        <4>3. QED  BY <2>8, <4>1, <4>2
      <3>5. QED  BY <3>2, <3>3, <3>4 DEF FilesThere
    <2>a. CASE r \in Known
      <3>1. UNCHANGED meetings
        <4>1. meetings[r].start = platform[r] /\
                meetings[r] \in [start : Minutes \cup {Unknown}, created : Nat]
          BY <1>d, <1>f, <2>3, <2>a DEF TableFollows, MeetingRows
        <4>2. meetings[r] = [start |-> platform[r], created |-> meetings[r].created]
          BY <4>1
        <4>3. meetings' = [meetings EXCEPT ![r] = meetings[r]]
          BY <2>1, <2>a, <4>2
        <4>4. QED  BY <4>3, <1>f
      <3>2. Known' = Known /\ \A x : Place(x)' = Place(x)
        BY <3>1, PlaceSame
      <3>3. TableFollows' /\ PathsHold'
        BY <1>d, <2>2, <2>8, <2>a, <3>1, <3>2 DEF TableFollows, PathsHold
      <3>4. NamesHold'
        <4>1. \A g \in Processes : round'[g].pc = round[g].pc /\ round'[g].map = round[g].map
          BY <2>2, <2>4, <2>6
        <4>2. QED  BY <1>d, <3>2, <4>1 DEF NamesHold
      <3>5. \A g \in Processes : /\ round'[g].pc = round[g].pc /\ Fresh(g)' = Fresh(g)
                                 /\ \A x : Older(x, g)' <=> Older(x, g)
        BY <2>2, <2>4, <2>6, <2>a, <3>1, <3>2 DEF Fresh, Older
      <3>6. FoundLater'
        BY <1>d, <2>9, <3>5 DEF FoundLater
      <3>7. RoundsApart'
        <4>1. \A f, g \in Processes : Fresh(g) \subseteq round[f].todo =>
                Fresh(g)' \subseteq round'[f].todo
          BY <2>4, <2>6, <2>a, <3>5 DEF Fresh
        <4>2. QED  BY <1>d, <3>2, <3>5, <4>1 DEF RoundsApart
      <3>8. QED  BY <2>10, <3>3, <3>4, <3>6, <3>7 DEF Settled
    <2>b. CASE r \notin Known
      <3> DEFINE new == [start |-> platform[r], created |-> round[h].now]
      <3>1. meetings' = [meetings EXCEPT ![r] = new] /\ new \in MeetingRows
        BY <2>1, <2>3, <2>b DEF MeetingRows, DirTypes
      <3>2. \A g \in Processes : g # h => round[g].pc = "off"
        BY <2>1, <2>b
      <3>3. \A x \in Recordings : meetings'[x] = IF x = r THEN new ELSE meetings[x]
        BY <1>f, <3>1
      <3>4. new # NoRow /\ new.start = platform[r] /\ new.created = round[h].now
        BY <2>3 DEF NoRow
      <3> HIDE DEF new
      <3>5. \A x : x \in Known' <=> x \in Known \/ x = r
        BY <2>3, <3>3, <3>4 DEF Known
      <3>6. r \in Fresh(h)
        BY <2>b, <2>1 DEF Fresh
      <3>7. \A x \in Recordings : Mapped(x) => x \in Known /\ x # r /\
              meetings[x].created < round[h].now
        BY <1>d, <1>e, <2>2, <2>b, <3>6 DEF FoundLater, Older
      <3>8. ASSUME NEW x \in Recordings, Mapped(x) PROVE Place(x)' = Place(x)
        BY <2>3, <2>b, <3>1, <3>4, <3>7, <3>8, PlaceKept
      <3>9. PathsHold'
        BY <1>d, <2>8, <3>5, <3>8 DEF PathsHold, Mapped
      <3>10. TableFollows'
        <4>1. \A x \in Recordings : x \in Known' => meetings'[x].start = platform'[x]
          BY <1>d, <2>2, <3>3, <3>4, <3>5 DEF TableFollows
        <4>2. QED  BY <1>d, <2>8, <3>5, <4>1 DEF TableFollows
      <3>11. NamesHold'
        <4>1. \A g \in Processes : round'[g].pc \in {"off", "scan"} /\ DOMAIN round'[g].map = {}
          BY <1>c, <2>4, <2>6, <3>2, NoMapIsMap DEF Linked
        <4>2. QED  BY <4>1 DEF NamesHold
      <3>12. FoundLater'
        <4>1. ASSUME NEW g \in Processes, NEW x \in Recordings, round'[g].pc = "scan", Mapped(x)'
              PROVE  Older(x, g)'
          <5>1. g = h /\ round'[g].now = round[h].now
            BY <2>4, <2>6, <3>2, <4>1
          <5>2. x # r /\ meetings[x].created < round[h].now
            BY <2>9, <3>7, <4>1
          <5>3. QED  BY <3>3, <5>1, <5>2 DEF Older
        <4>2. QED  BY <4>1 DEF FoundLater
      <3>13. RoundsApart'
        <4>1. \A g \in Processes : round'[g].pc = "scan" => g = h
          BY <2>6, <3>2
        <4>2. QED  BY <4>1 DEF RoundsApart
      <3>14. QED  BY <2>10, <3>9, <3>10, <3>11, <3>12, <3>13 DEF Settled
    <2>c. QED  BY <2>a, <2>b
  <1>4. ASSUME NEW h \in Processes, ClaimRow(h) PROVE Settled'
    <2>1. PICK r \in Recordings :
       /\ Claimable(r)
       /\ IF r \in DOMAIN round[h].map
          THEN /\ asset' = [asset EXCEPT ![r] = [status |-> "running", path |-> round[h].map[r]]]
               /\ Step(h, [round[h] EXCEPT !.works = r])
          ELSE /\ asset' = [asset EXCEPT ![r].status = "skipped"]
               /\ UNCHANGED round
      BY <1>4 DEF ClaimRow
    <2>2. UNCHANGED <<platform, meetings, disk, sidecar>> /\ round[h].pc = "run"
      BY <1>4 DEF ClaimRow, outside
    <2>3. asset[r].status \in {"pending", "running"} /\ r \in Known /\ r \in DOMAIN round[h].map
      BY <1>d, <2>1, <2>2 DEF Claimable, TableFollows, NamesHold
    <2> DEFINE row == [round[h] EXCEPT !.works = r]
               dir == round[h].map[r]
    <2>4. row.pc = "run" /\ row.map = round[h].map /\ row.works = r
      BY <1>c, <2>2 DEF Rounds
    <2>5. Step(h, row) /\ asset' = [asset EXCEPT ![r] = [status |-> "running", path |-> dir]]
      BY <2>1, <2>3
    <2>6. dir = Place(r) /\ dir \in Directory
      BY <1>c, <1>d, <2>3, RoundMoves DEF NamesHold
    <2> HIDE DEF row, dir
    <2>7. \A g \in Processes : round'[g] = IF g = h THEN row ELSE round[g]
      BY <1>h, <2>5
    <2>8. Known' = Known /\ \A x : Place(x)' = Place(x)
      BY <2>2, PlaceSame
    <2>9. \A x \in Recordings : /\ asset'[x].path = IF x = r THEN dir ELSE asset[x].path
                                /\ asset'[x].status = IF x = r THEN "running" ELSE asset[x].status
      BY <1>f, <2>5
    <2>10. \A x \in Recordings : asset'[x].path # <<>> => Mapped(x)
      BY <2>3, <2>9 DEF Mapped
    <2>11. NamesHold' /\ FoundLater' /\ RoundsApart'
      <3>1. DOMAIN row.map = Known /\ (\A x \in DOMAIN row.map : row.map[x] = Place(x))
        BY <1>d, <2>2, <2>4 DEF NamesHold
      <3>2. row.pc # "scan" /\ DOMAIN row.map \subseteq DOMAIN round[h].map
        BY <2>4
      <3>3. QED  BY <1>b, <2>2, <2>7, <2>10, <3>1, <3>2, RoundNames
    <2>12. TableFollows'
      BY <1>d, <2>2, <2>3, <2>8, <2>9 DEF TableFollows
    <2>13. PathsHold'
      BY <1>d, <2>3, <2>6, <2>8, <2>9 DEF PathsHold
    <2>14. FilesThere'
      <3>1. \A g \in Processes : round'[g].works # Nobody =>
              round'[g].works \in Recordings /\ asset'[round'[g].works].path # <<>>
        <4>1. ASSUME NEW g \in Processes, round'[g].works # Nobody
              PROVE  round'[g].works \in Recordings /\ asset'[round'[g].works].path # <<>>
          <5>1. CASE g = h
            BY <5>1, <1>g, <2>4, <2>6, <2>7, <2>9
          <5>2. CASE g # h
            <6>1. round'[g] = round[g] /\ round[g].works \in Recordings /\
                    asset[round[g].works].path # <<>>
              BY <1>c, <1>d, <2>7, <4>1, <5>2 DEF Rounds, FilesThere
            <6>2. QED  BY <1>g, <2>6, <2>9, <6>1
          <5>3. QED  BY <5>1, <5>2
        <4>2. QED  BY <4>1
      <3>2. \A x \in Recordings : asset'[x].status = "completed" =>
              asset'[x].path # <<>> /\ disk'[asset'[x].path] = x
        BY <1>d, <2>2, <2>9 DEF FilesThere
      <3>3. ASSUME NEW d \in Directory, sidecar'[d] # Nobody
            PROVE  asset'[sidecar'[d]].status = "completed" /\ asset'[sidecar'[d]].path = d
        <4>1. sidecar[d] \in Recordings /\ sidecar'[d] = sidecar[d]
          BY <1>f, <2>2, <3>3
        <4>2. asset[sidecar[d]].status = "completed" /\ asset[sidecar[d]].path = d
          BY <1>d, <3>3, <4>1 DEF FilesThere
        <4>3. sidecar[d] # r
          BY <2>3, <4>2
        <4>4. QED  BY <2>9, <4>1, <4>2, <4>3
      <3>4. QED  BY <3>1, <3>2, <3>3 DEF FilesThere
    <2>15. QED  BY <2>11, <2>12, <2>13, <2>14 DEF Settled
  \* A file comes to lie in its directory, which no other recording has.
  <1>5. ASSUME NEW h \in Processes, FinishRow(h) PROVE Settled'
    <2> DEFINE r == round[h].works
               row == [round[h] EXCEPT !.works = Nobody]
               dir == round[h].map[r]
    <2>1. /\ UNCHANGED <<platform, meetings, sidecar>> /\ r # Nobody /\ Step(h, row)
          /\ disk' = [disk EXCEPT ![dir] = r]
          /\ asset' = [asset EXCEPT ![r].status = "completed"]
      BY <1>5 DEF FinishRow, outside
    <2>2. r \in Recordings /\ r \in DOMAIN round[h].map /\ round[h].pc \notin {"off", "scan"}
      BY <1>c, <2>1 DEF Linked, Rounds
    <2>3. dir \in Directory /\ dir = Place(r) /\ asset[r].path = Place(r) /\ r \in Known
      <3>1. dir \in Directory
        BY <1>c, <2>2, RoundMoves
      <3>2. dir = Place(r)
        BY <1>d, <2>2 DEF NamesHold
      <3>3. asset[r].path # <<>>
        BY <1>d, <2>1 DEF FilesThere
      <3>4. QED  BY <1>d, <2>2, <3>1, <3>2, <3>3 DEF PathsHold
    <2>4. row.pc = round[h].pc /\ row.map = round[h].map /\ row.works = Nobody
      BY <1>c DEF Rounds
    <2> HIDE DEF row, dir, r
    <2>5. \A g \in Processes : round'[g] = IF g = h THEN row ELSE round[g]
      BY <1>h, <2>1
    <2>6. Known' = Known /\ \A x : Place(x)' = Place(x)
      BY <2>1, PlaceSame
    <2>7. \A x \in Recordings : /\ asset'[x].path = asset[x].path
                                /\ asset'[x].status = IF x = r THEN "completed" ELSE asset[x].status
      BY <1>f, <2>1 DEF AssetRows
    <2>8. \A x \in Recordings : asset'[x].path # <<>> => Mapped(x)
      BY <2>7 DEF Mapped
    <2>9. NamesHold' /\ FoundLater' /\ RoundsApart'
      <3>1. row.pc \in {"run", "manifest"} => DOMAIN row.map = Known
        BY <1>d, <2>4 DEF NamesHold
      <3>2. \A x \in DOMAIN row.map : row.map[x] = Place(x)
        BY <1>d, <2>4 DEF NamesHold
      <3>3. row.pc # "scan" /\ DOMAIN row.map \subseteq DOMAIN round[h].map
        BY <2>2, <2>4
      <3>4. QED  BY <1>b, <2>1, <2>5, <2>8, <3>1, <3>2, <3>3, RoundNames
    <2>10. TableFollows' /\ PathsHold'
      BY <1>d, <2>1, <2>3, <2>6, <2>7 DEF TableFollows, PathsHold
    <2>11. FilesThere'
      <3>1. \A g \in Processes : round'[g].works # Nobody =>
              round'[g].works \in Recordings /\ asset'[round'[g].works].path # <<>>
        BY <1>c, <1>d, <2>4, <2>5, <2>7 DEF Rounds, FilesThere
      <3>2. ASSUME NEW x \in Recordings, asset'[x].status = "completed"
            PROVE  asset'[x].path # <<>> /\ disk'[asset'[x].path] = x
        <4>1. CASE x = r
          BY <4>1, <1>f, <1>g, <2>1, <2>3, <2>7
        <4>2. CASE x # r
          <5>1. asset[x].status = "completed" /\ asset'[x].path = asset[x].path
            BY <3>2, <4>2, <2>7
          <5>2. x \in Known /\ asset[x].path = Place(x) /\ disk[asset[x].path] = x /\
                  asset[x].path # <<>>
            BY <5>1, <1>d DEF FilesThere, PathsHold
          <5>3. Place(x) # dir
            BY <4>2, <5>2, <2>3, PlacesDiffer
          <5>4. QED  BY <5>1, <5>2, <5>3, <1>f, <2>1
        <4>3. QED  BY <4>1, <4>2
      <3>3. \A d \in Directory : sidecar'[d] # Nobody =>
              asset'[sidecar'[d]].status = "completed" /\ asset'[sidecar'[d]].path = d
        BY <1>d, <1>f, <2>1, <2>7 DEF FilesThere
      <3>4. QED  BY <3>1, <3>2, <3>3 DEF FilesThere
    <2>12. QED  BY <2>9, <2>10, <2>11 DEF Settled
  <1>6. ASSUME NEW h \in Processes, BeginManifests(h) PROVE Settled'
    <2> DEFINE row == [round[h] EXCEPT !.pc = "manifest", !.todo = DOMAIN round[h].map]
    <2>1. Step(h, row) /\ UNCHANGED <<platform, meetings, asset, disk, sidecar>>
      BY <1>6 DEF BeginManifests, outside
    <2>2. round[h].pc = "run" /\ round[h].works = Nobody
      BY <1>6 DEF BeginManifests
    <2>3. row.pc = "manifest" /\ row.map = round[h].map /\ row.works = Nobody
      BY <1>c, <2>2 DEF Rounds
    <2>4. DOMAIN round[h].map = Known
      BY <1>d, <2>2 DEF NamesHold
    <2> HIDE DEF row
    <2>5. QED  BY <1>i, <2>1, <2>3, <2>4
  <1>7. ASSUME NEW h \in Processes, WriteMeetingManifest(h) PROVE Settled'
    <2>1. PICK r \in round[h].todo :
            LET dir == <<meetings[r].start, round[h].map[r][2]>> IN
            /\ sidecar' = IF LiesIn(r, dir) THEN [sidecar EXCEPT ![dir] = r] ELSE sidecar
            /\ Step(h, [round[h] EXCEPT !.todo = @ \ {r}])
      BY <1>7 DEF WriteMeetingManifest
    <2> DEFINE dir == <<meetings[r].start, round[h].map[r][2]>>
               row == [round[h] EXCEPT !.todo = round[h].todo \ {r}]
    <2>2. UNCHANGED <<platform, meetings, asset, disk>> /\ round[h].pc = "manifest"
      BY <1>7 DEF WriteMeetingManifest, outside
    <2>3. row.pc = "manifest" /\ row.map = round[h].map /\ row.works = round[h].works /\
            Step(h, row)
      BY <1>c, <2>1, <2>2 DEF Rounds
    <2>4. DOMAIN round[h].map = Known
      BY <1>d, <2>2 DEF NamesHold
    <2>5. \A d \in Directory : sidecar'[d] # sidecar[d] =>
            asset[sidecar'[d]].status = "completed" /\ asset[sidecar'[d]].path = d
      <3> HIDE DEF dir
      <3>1. \A d \in Directory : sidecar'[d] # sidecar[d] => LiesIn(r, dir) /\ d = dir /\
              sidecar'[d] = r
        BY <1>f, <2>1 DEF dir
      <3>2. QED  BY <3>1 DEF LiesIn
    <2>6. QED  BY <1>c, <1>i, <2>2, <2>3, <2>4, <2>5 DEF Linked
  <1>8. ASSUME NEW h \in Processes, FinishRound(h) \/ Dies(h) PROVE Settled'
    <2>1. Step(h, AtRest) /\ UNCHANGED <<platform, meetings, asset, disk, sidecar>>
      BY <1>8 DEF FinishRound, Dies, outside
    <2>2. QED  BY <1>i, <2>1
  <1>9. CASE Appear
    <2>1. PICK r \in Recordings, m \in Minutes :
            platform[r] = Unknown /\ platform' = [platform EXCEPT ![r] = m]
      BY <1>9 DEF Appear
    <2>2. UNCHANGED <<meetings, asset, disk, sidecar, round>>
      BY <1>9 DEF Appear
    <2>3. Known' = Known /\ \A x : Place(x)' = Place(x)
      BY <2>2, PlaceSame
    <2>4. \A x \in Known : meetings[x].start # Unknown
      BY DEF Known, DirLinks
    <2>5. \A x \in Recordings : x \in Known => platform'[x] = platform[x]
      BY <1>d, <2>1, <2>4 DEF TableFollows, DirTypes
    <2>6. TableFollows'
      BY <1>d, <2>2, <2>3, <2>5 DEF TableFollows
    <2>7. NamesHold' /\ PathsHold'
      BY <1>d, <2>2, <2>3 DEF NamesHold, PathsHold
    <2>8. FoundLater' /\ RoundsApart'
      BY <1>d, <2>2, <2>3 DEF FoundLater, RoundsApart, Fresh, Older, Mapped
    <2>9. FilesThere'
      BY <1>d, <2>2 DEF FilesThere
    <2>10. QED  BY <2>6, <2>7, <2>8, <2>9 DEF Settled
  <1>10. CASE TimePasses \/ UNCHANGED directoryVars
    <2>1. UNCHANGED <<platform, meetings, asset, disk, sidecar, round>>
      BY <1>10 DEF TimePasses, directoryVars, outside
    <2>2. Known' = Known /\ \A x : Place(x)' = Place(x)
      BY <2>1, PlaceSame
    <2>3. TableFollows' /\ NamesHold' /\ PathsHold'
      BY <1>d, <2>1, <2>2 DEF TableFollows, NamesHold, PathsHold
    <2>4. FoundLater' /\ RoundsApart'
      BY <1>d, <2>1, <2>2 DEF FoundLater, RoundsApart, Fresh, Older, Mapped
    <2>5. FilesThere'
      BY <1>d, <2>1 DEF FilesThere
    <2>6. QED  BY <2>3, <2>4, <2>5 DEF Settled
  <1>11. ~EditStart
    BY DEF EditStart, DirTypes
  <1>12. QED
    BY <1>1, <1>2, <1>3, <1>4, <1>5, <1>6, <1>7, <1>8, <1>9, <1>10, <1>11
       DEF DirectoryNext, RoundStep

\* The directories start in the invariant.
LEMMA DirStarts == DirectoryInit => DirInv
  <1> SUFFICES ASSUME DirectoryInit PROVE DirInv
    OBVIOUS
  <1> USE DirectoriesAssumption, RestIsRound, NoMapIsMap
  <1>1. NoRow \in MeetingRows /\ NoAsset \in AssetRows /\ NoAsset.path = <<>> /\
          NoAsset.status = "none"
    BY DEF NoRow, NoAsset, MeetingRows, AssetRows
  <1>2. DirTypes
    BY <1>1 DEF DirectoryInit, DirTypes
  <1>3. DirLinks
    BY DEF DirectoryInit, DirLinks, Linked
  <1>4. Known = {}
    BY DEF DirectoryInit, Known
  <1>5. \A r \in Recordings : asset[r].path = <<>> /\ asset[r].status = "none"
    BY <1>1 DEF DirectoryInit
  <1>6. \A h \in Processes : /\ round[h].pc = "off" /\ DOMAIN round[h].map = {}
                             /\ round[h].works = Nobody
    BY DEF DirectoryInit
  <1>7. TableFollows /\ NamesHold /\ PathsHold /\ FoundLater /\ RoundsApart
    BY <1>4, <1>5, <1>6 DEF TableFollows, NamesHold, PathsHold, FoundLater, RoundsApart
  <1>8. FilesThere
    BY <1>5, <1>6 DEF FilesThere, DirectoryInit
  <1>9. QED  BY <1>2, <1>3, <1>7, <1>8 DEF DirInv, Settled

\* The invariant says that files keep their place.
LEMMA DirInvPlace == DirInv => DirectoryTypeOK /\ FilesKeepTheirPlace
  <1> SUFFICES ASSUME DirInv PROVE DirectoryTypeOK /\ FilesKeepTheirPlace
    OBVIOUS
  <1>1. DirectoryTypeOK
    BY DEF DirInv, DirTypes, DirectoryTypeOK, AssetRows, Rounds
  <1>2. ASSUME edited = 0, ~crossed
        PROVE  /\ \A r \in Recordings : /\ asset[r].status = "completed" => disk[asset[r].path] = r
                                        /\ asset[r].status # "skipped"
               /\ \A d \in Directory : sidecar[d] # Nobody => disk[d] = sidecar[d]
    <2>1. TableFollows /\ FilesThere
      BY <1>2 DEF DirInv, Settled
    <2>2. \A d \in Directory : sidecar[d] \in Recordings \cup {Nobody}
      BY DEF DirInv, DirTypes
    <2>3. QED  BY <2>1, <2>2 DEF TableFollows, FilesThere
  <1>3. QED  BY <1>1, <1>2 DEF FilesKeepTheirPlace

\* Finished files and their sidecars stay where the rows say, and no row is given up for
\* want of its meeting, for any number of recordings, processes and deaths, as long as no
\* start time is corrected and no recording is found during another's round
\* (domain/dir-ordinal.ts, executor/index.ts, manifest/index.ts).
THEOREM FilesStay == DirectorySpec => [](DirectoryTypeOK /\ FilesKeepTheirPlace)
  <1>1. DirInv /\ [DirectoryNext]_directoryVars => DirInv'
    BY DirTypeStep, SettledStep DEF DirInv
  <1>2. QED  BY <1>1, DirStarts, DirInvPlace, PTL DEF DirectorySpec

-----------------------------------------------------------------------------
(* The list of downloads that were given up *)

AppealRows == [pc : {"none", "act", "close"}, kind : {"retry", "ignore"},
               todo : SUBSET FailMeetings, at : SUBSET FailMeetings]

\* A request of the console goes on to its next meeting or statement.
LEMMA AppealMoves ==
  ASSUME NEW row \in AppealRows, NEW m \in FailMeetings
  PROVE  /\ [row EXCEPT !.pc = "close", !.todo = row.todo \ {m}, !.at = {m}] \in AppealRows
         /\ [row EXCEPT !.pc = "act", !.at = {}] \in AppealRows
  BY DEF AppealRows

\* Every step keeps every variable in its type.
LEMMA MirrorTypeStep == MirrorTypeOK /\ [MirrorNext]_mirrorVars => MirrorTypeOK'
  <1> SUFFICES ASSUME MirrorTypeOK, [MirrorNext]_mirrorVars PROVE MirrorTypeOK'
    OBVIOUS
  <1> USE MirrorAssumption DEF MirrorTypeOK, items, history
  <1>1. ASSUME NEW a \in FailAssets, NEW how \in {"dead", "over"}, Settle(a, how)
        PROVE  MirrorTypeOK'
    BY <1>1 DEF Settle
  <1>2. CASE SecondPasses
    BY <1>2 DEF SecondPasses
  <1>3. CASE StartRound
    BY <1>3 DEF StartRound, Asleep
  <1>4. CASE ListDead
    BY <1>4 DEF ListDead, Round, WithDead
  <1>5. ASSUME NEW m \in FailMeetings, RecordDead(m) PROVE MirrorTypeOK'
    BY <1>5 DEF RecordDead, Round, DeadOf
  <1>6. CASE CompleteRound
    BY <1>6 DEF CompleteRound, Round
  <1>7. CASE ResolveStale
    BY <1>7 DEF ResolveStale, Round
  <1>8. CASE RoundFails
    BY <1>8 DEF RoundFails, Asleep
  <1>9. ASSUME NEW c \in Consoles, NEW kind \in {"retry", "ignore"},
               NEW ids \in SUBSET FailMeetings, ReadItems(c, kind, ids)
        PROVE  MirrorTypeOK'
    <2> DEFINE step == IF ids \cap open = {} THEN "none" ELSE "act"
    <2>1. step \in {"none", "act", "close"} /\ ids \cap open \in SUBSET FailMeetings
      OBVIOUS
    <2>2. appeal' = [appeal EXCEPT ![c] = [NoAppeal EXCEPT !.pc = step, !.kind = kind,
                                                           !.todo = ids \cap open]]
      BY <1>9 DEF ReadItems, Appeal
    <2> HIDE DEF step
    <2>3. [NoAppeal EXCEPT !.pc = step, !.kind = kind, !.todo = ids \cap open] \in
            [pc : {"none", "act", "close"}, kind : {"retry", "ignore"},
             todo : SUBSET FailMeetings, at : SUBSET FailMeetings]
      BY <2>1 DEF NoAppeal
    <2>4. /\ appeals < Appeals /\ appeals' = appeals + 1
          /\ UNCHANGED <<fate, items, mirror, history, mishaps>>
      BY <1>9 DEF ReadItems
    <2>5. QED  BY <2>2, <2>3, <2>4
  <1>10. ASSUME NEW c \in Consoles, NEW m \in FailMeetings, ActOnAssets(c, m)
         PROVE  MirrorTypeOK'
    <2>0. appeal \in [Consoles -> AppealRows] /\ appeal[c] \in AppealRows
      BY DEF AppealRows
    <2>1. fate' \in [FailAssets -> {"queued", "dead", "over"}]
      BY <1>10 DEF ActOnAssets
    <2>2. shown' \subseteq FailAssets /\ steady' \subseteq FailMeetings
      BY <1>10 DEF ActOnAssets, DeadOf
    <2>3. appeal' = [appeal EXCEPT ![c] = [appeal[c] EXCEPT !.pc = "close",
                                             !.todo = appeal[c].todo \ {m}, !.at = {m}]]
      BY <1>10 DEF ActOnAssets, Appeal
    <2>4. UNCHANGED <<items, mirror, overtaken, appeals, mishaps>>
      BY <1>10 DEF ActOnAssets
    <2>5. appeal' \in [Consoles -> AppealRows]
      BY <2>0, <2>3, AppealMoves
    <2>6. QED  BY <2>1, <2>2, <2>4, <2>5 DEF AppealRows
  <1>11. ASSUME NEW c \in Consoles, CloseItem(c) PROVE MirrorTypeOK'
    <2>1. CASE appeal[c].todo = {}
      BY <1>11, <2>1 DEF CloseItem, Appeal, NoAppeal
    <2>2. CASE appeal[c].todo # {}
      <3>1. appeal' = [appeal EXCEPT ![c] = [appeal[c] EXCEPT !.pc = "act", !.at = {}]]
        BY <1>11, <2>2 DEF CloseItem, Appeal
      <3>2. appeal \in [Consoles -> AppealRows] /\ appeal[c] \in AppealRows
        BY DEF AppealRows
      <3>3. [appeal[c] EXCEPT !.pc = "act", !.at = {}] \in AppealRows
        <4>1. PICK m \in FailMeetings : m \in appeal[c].todo
          BY <2>2, <3>2 DEF AppealRows
        <4>2. QED  BY <3>2, AppealMoves
      <3>4. appeal' \in [Consoles -> AppealRows]
        BY <3>1, <3>2, <3>3
      <3>5. QED  BY <1>11, <3>4 DEF CloseItem, AppealRows
    <2>3. QED  BY <2>1, <2>2
  <1>12. ASSUME NEW c \in Consoles, AppealFails(c) PROVE MirrorTypeOK'
    BY <1>12 DEF AppealFails, Appeal, NoAppeal
  <1>13. CASE UNCHANGED mirrorVars
    BY <1>13 DEF mirrorVars
  <1>14. QED
    BY <1>1, <1>2, <1>3, <1>4, <1>5, <1>6, <1>7, <1>8, <1>9, <1>10, <1>11, <1>12, <1>13
    DEF MirrorNext, MirrorRound, AppealStep

\* Every variable always holds a value of its kind.
THEOREM MirrorTypes == MirrorSpec => []MirrorTypeOK
  <1>1. MirrorInit => MirrorTypeOK
    BY MirrorAssumption DEF MirrorInit, MirrorTypeOK, Asleep, NoAppeal
  <1>2. QED  BY <1>1, MirrorTypeStep, PTL DEF MirrorSpec

-----------------------------------------------------------------------------
\* What is shown is dead: everything that ends a dead row takes it off the history.
ShownAreDead == \A a \in shown : fate[a] = "dead"

\* The round has not forgotten anything that was shown before it began: it is still to be
\* written, or was written since the start, when the stale items are closed.
RoundRemembers ==
  \A a \in shown :
    /\ Round("record") => HomeOf[a] \in mirror.todo \cup sinceStart
    /\ Round("resolve") => HomeOf[a] \in sinceStart

\* A request between its two statements is about one meeting, and what is shown of that
\* meeting was written after the first of them.
ClosersAreAnswered ==
  \A c \in Consoles : appeal[c].pc = "close" =>
    \E m \in FailMeetings :
      appeal[c].at = {m} /\ \A a \in shown : HomeOf[a] = m => m \in overtaken

\* Of the meetings nobody touched, the round has written or will write those with dead
\* rows and no others; the ones it has written are open.
RoundSoFar ==
  \A m \in steady :
    /\ Round("record") => (m \in WithDead <=> m \in mirror.todo \cup sinceStart)
    /\ Round("resolve") => (m \in WithDead <=> m \in sinceStart)
    /\ Round("record") \/ Round("resolve") => (m \in sinceStart => m \in open)

\* The inductive invariant.
MirrorInv ==
  /\ MirrorTypeOK /\ ItemsFollowRows
  /\ ShownAreDead /\ RoundRemembers /\ ClosersAreAnswered /\ RoundSoFar

\* Of the steps of the queue, the round and the console, each keeps the invariant.
LEMMA MirrorStep == MirrorInv /\ [MirrorNext]_mirrorVars => MirrorInv'
  <1> SUFFICES ASSUME MirrorInv, [MirrorNext]_mirrorVars PROVE MirrorInv'
    OBVIOUS
  <1> USE MirrorAssumption
        DEF MirrorInv, MirrorTypeOK, ItemsFollowRows, DeadStaysShown, RoundLeavesTruth,
            ShownAreDead, RoundRemembers, ClosersAreAnswered, RoundSoFar,
            Round, WithDead, DeadOf, items, history
  <1>0. MirrorTypeOK'
    BY MirrorTypeStep
  <1>1. ASSUME NEW a \in FailAssets, NEW how \in {"dead", "over"}, Settle(a, how)
        PROVE  MirrorInv'
    <2>1. /\ shown' \subseteq shown /\ \A b \in shown' : fate'[b] = fate[b]
          /\ steady' \subseteq steady /\ HomeOf[a] \notin steady'
          /\ \A m \in steady' : m \in WithDead' <=> m \in WithDead
      BY <1>1 DEF Settle
    <2>2. QED  BY <1>0, <1>1, <2>1 DEF Settle
  <1>2. CASE SecondPasses
    BY <1>0, <1>2 DEF SecondPasses
  <1>3. CASE StartRound
    BY <1>0, <1>3 DEF StartRound, Asleep
  <1>4. CASE ListDead
    BY <1>0, <1>4 DEF ListDead
  <1>5. ASSUME NEW m \in FailMeetings, RecordDead(m) PROVE MirrorInv'
    BY <1>0, <1>5 DEF RecordDead
  <1>6. CASE CompleteRound
    BY <1>0, <1>6 DEF CompleteRound
  <1>7. CASE ResolveStale
    BY <1>0, <1>7 DEF ResolveStale
  <1>8. CASE RoundFails
    BY <1>0, <1>8 DEF RoundFails, Asleep
  <1>9. ASSUME NEW c \in Consoles, NEW kind \in {"retry", "ignore"},
               NEW ids \in SUBSET FailMeetings, ReadItems(c, kind, ids)
        PROVE  MirrorInv'
    <2>1. \A d \in Consoles : appeal'[d].pc = "close" => appeal'[d] = appeal[d]
      BY <1>9 DEF ReadItems, Appeal, NoAppeal
    <2>2. UNCHANGED <<fate, items, mirror, history>>
      BY <1>9 DEF ReadItems
    <2>3. QED  BY <1>0, <2>1, <2>2
  <1>10. ASSUME NEW c \in Consoles, NEW m \in FailMeetings, ActOnAssets(c, m)
         PROVE  MirrorInv'
    BY <1>0, <1>10 DEF ActOnAssets, Appeal
  <1>11. ASSUME NEW c \in Consoles, CloseItem(c) PROVE MirrorInv'
    BY <1>0, <1>11 DEF CloseItem, Appeal, NoAppeal
  <1>12. ASSUME NEW c \in Consoles, AppealFails(c) PROVE MirrorInv'
    BY <1>0, <1>12 DEF AppealFails, Appeal, NoAppeal
  <1>13. CASE UNCHANGED mirrorVars
    BY <1>0, <1>13 DEF mirrorVars
  <1> HIDE DEF MirrorInv
  <1>14. QED
    BY <1>1, <1>2, <1>3, <1>4, <1>5, <1>6, <1>7, <1>8, <1>9, <1>10, <1>11, <1>12, <1>13
    DEF MirrorNext, MirrorRound, AppealStep

\* A download that was given up and shown stays on the list until somebody acts on it, and
\* a round that succeeds leaves an open item for exactly the meetings with dead downloads
\* among those nobody touched meanwhile.
THEOREM MirrorFollowsRows == MirrorSpec => []ItemsFollowRows
  <1>1. MirrorInit => MirrorInv
    <2>1. MirrorInit => MirrorTypeOK
      BY MirrorAssumption DEF MirrorInit, MirrorTypeOK, Asleep, NoAppeal
    <2>2. QED
      BY <2>1 DEF MirrorInit, MirrorInv, ItemsFollowRows, DeadStaysShown, RoundLeavesTruth,
                  ShownAreDead, RoundRemembers, ClosersAreAnswered, RoundSoFar, Asleep,
                  NoAppeal, Round
  <1>2. MirrorInv => ItemsFollowRows
    BY DEF MirrorInv
  <1>3. QED  BY <1>1, <1>2, MirrorStep, PTL DEF MirrorSpec

-----------------------------------------------------------------------------
(* What MCEngine runs *)

\* Each of the four starts as it does by itself.
LEMMA EngineStarts == EngineInit => FileInit /\ DiscoveryInit /\ DirectoryInit /\ MirrorInit
  BY DEF EngineInit

\* A step of the engine is a step of one of the four, which the others do not see.
LEMMA EngineStep ==
  [EngineNext]_engineVars => /\ [FileNext]_fileVars /\ [DiscoveryNext]_discoveryVars
                            /\ [DirectoryNext]_directoryVars /\ [MirrorNext]_mirrorVars
  <1> SUFFICES ASSUME [EngineNext]_engineVars
               PROVE  /\ [FileNext]_fileVars /\ [DiscoveryNext]_discoveryVars
                      /\ [DirectoryNext]_directoryVars /\ [MirrorNext]_mirrorVars
    OBVIOUS
  <1>1. CASE FileMove /\ UNCHANGED <<focus, discoveryVars, directoryVars, mirrorVars>>
    BY <1>1 DEF FileMove
  <1>2. CASE ProbeMove /\ UNCHANGED <<focus, fileVars, directoryVars, mirrorVars>>
    BY <1>2 DEF ProbeMove
  <1>3. CASE DirectoryMove /\ UNCHANGED <<focus, fileVars, discoveryVars, mirrorVars>>
    BY <1>3 DEF DirectoryMove
  <1>4. CASE MirrorMove /\ UNCHANGED <<focus, fileVars, discoveryVars, directoryVars>>
    BY <1>4 DEF MirrorMove
  <1>5. CASE UNCHANGED engineVars
    BY <1>5 DEF engineVars
  <1>6. QED  BY <1>1, <1>2, <1>3, <1>4, <1>5 DEF EngineNext

\* The run looks at behaviours of the four components and at no others: what its foci and
\* bounds leave out, they only leave out.  So every variable keeps its type there too.
THEOREM EngineRunsItsParts ==
  EngineSpec => /\ FileSpec /\ DiscoverySpec /\ DirectorySpec /\ MirrorSpec
                /\ []EngineTypeOK
  <1>1. EngineSpec => FileSpec /\ DiscoverySpec /\ DirectorySpec /\ MirrorSpec
    BY EngineStarts, EngineStep, PTL
       DEF EngineSpec, FileSpec, DiscoverySpec, DirectorySpec, MirrorSpec
  <1>2. FileTypeOK /\ DiscoveryTypeOK /\ DirectoryTypeOK /\ MirrorTypeOK => EngineTypeOK
    BY DEF EngineTypeOK
  <1>3. QED  BY <1>1, <1>2, CompletedIsHonest, ProbesSpeakTruth, FilesStay, MirrorTypes, PTL
=============================================================================
