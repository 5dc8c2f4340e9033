------------------------------ MODULE Discovery ------------------------------
(***************************************************************************)
(* Discovery and the probes of one meeting: discover and runProbes         *)
(* (discovery/index.ts, executor/index.ts) as the rounds of the hosts run  *)
(* them - the scheduler's and a one-shot worker's, which know nothing of   *)
(* each other - with the verdicts of domain/readiness.ts and               *)
(* domain/sibling.ts, over the statements of the two stores.               *)
(*                                                                         *)
(* A verdict is reached on a listing that was asked for earlier and turns  *)
(* into statements, each a step: a host may die between two of them, and   *)
(* the other host's lie between them.                                      *)
(***************************************************************************)
EXTENDS Integers, Sequences, SequencesExt

CONSTANTS
  Hosts,
  Discoverers, \* those whose rounds begin with a discovery; the others only look at probes (mde execute)
  Kinds,       \* the kinds of asset, in the order of --assets: "video" and "audio" may be among them
  Files,       \* [kind -> sequence of its files (segments, formats), as the platform lists them]
  Pulls,       \* which sets of kinds the fetch rules may pull of the meeting
  Bans,        \* which sets of kinds may have allow_download = false
  EndTimes,    \* when the meeting may have ended: numbers, and NoTime for NULL
  NoTime,
  WaitCap,     \* ASSET_WAIT_CAP_SEC
  Backoff,     \* probeBackoff of 0, 1, ... attempts; the last one stays
  MaxClock,    \* bound
  Crashes      \* bound: hosts that die

KindSet == ToSet(Kinds)
AllFiles == UNION {ToSet(Files[k]) : k \in KindSet}

ASSUME DiscoveryAssumption ==
  /\ Discoverers \subseteq Hosts
  /\ \A k \in KindSet : Files[k] \in Seq(AllFiles) \ {<<>>}
  /\ EndTimes \subseteq Nat \cup {NoTime} /\ NoTime \notin Nat
  /\ WaitCap \in Nat /\ Backoff \in Seq(Nat \ {0}) /\ Backoff # <<>>
  /\ MaxClock \in Nat /\ Crashes \in Nat

VARIABLES
  clock,
  upstream,  \* the platform: "absent", "working" (states 1 and 2) or "ready", of a kind
  barred,    \* kinds whose allow_download is false
  ended,     \* the end time of the meeting
  pulled,    \* kinds that discovery looks for: the fetch rules say so, and the meeting is in the window
  rows,      \* the assets table: [file -> "none" or its status]
  probe,     \* asset_probes: [kind -> its row]
  host,      \* [Hosts -> state of its round]
  crashed    \* bound counter

world == <<upstream, barred, ended, pulled>>
tables == <<rows, probe>>
discoveryVars == <<clock, world, tables, host, crashed>>

NoProbe == [state |-> "none", deadline |-> 0, after |-> 0, attempts |-> 0, reason |-> "none"]
Resting == [pc |-> "off", now |-> 0, wanted |-> {}, seen |-> <<>>, due |-> {}, todo |-> <<>>]

Move(h, row) == host' = [host EXCEPT ![h] = row]
HostAt(h, pc) == host[h].pc = pc /\ host[h].todo = <<>>

-----------------------------------------------------------------------------
\* The verdicts

\* judgeReadiness
Judge(k, seen, now, deadline) ==
  IF seen[k] # "absent" /\ k \in barred THEN "skip_disallowed"
  ELSE IF seen[k] = "ready" THEN "ready"
  ELSE IF now >= deadline THEN "skip_timeout" ELSE "wait"

\* Mutant: a video that is still being transcoded is taken for a finished one.
SiblingAbsentEarly(k, seen) ==
  k = "audio" /\ seen[k] = "absent" /\ "video" \in KindSet /\ seen["video"] # "absent"

\* isSiblingAbsent: the video is there and the audio, published with it, is not.
SiblingAbsent(k, seen) ==
  k = "audio" /\ seen[k] = "absent" /\ "video" \in KindSet /\ seen["video"] = "ready"

\* The statements of the stores.
Upsert(f) == [op |-> "upsertAsset", file |-> f]
Skip(k) == [op |-> "markSkippedByKey", kind |-> k]
Probe(k, d, after) == [op |-> "upsertProbe", kind |-> k, deadline |-> d, after |-> after]
Abandon(k, why) == [op |-> "abandonProbe", kind |-> k, reason |-> why]
AbandonIfProbing(k) == [op |-> "abandonProbeIfProbing", kind |-> k]
Resolve(k) == [op |-> "resolveProbe", kind |-> k]
Bump(k, after) == [op |-> "bumpProbe", kind |-> k, after |-> after]
UpsertAll(k) == [i \in 1..Len(Files[k]) |-> Upsert(Files[k][i])]

\* Mutant: the wait is counted from the discovery, not from the end of the meeting.
DeadlineFromNow(now) == now + WaitCap

\* Until when discover lets a kind be waited for.
Deadline(now) == (IF ended = NoTime THEN now ELSE ended) + WaitCap

\* What discover does about one kind; all files of a kind share its verdict.
DiscoverKind(k, seen, now) ==
  LET verdict == Judge(k, seen, now, Deadline(now)) IN
  IF SiblingAbsent(k, seen) THEN <<AbandonIfProbing(k)>>
  ELSE CASE verdict = "ready" -> UpsertAll(k)
         [] verdict = "skip_disallowed" -> UpsertAll(k) \o <<Skip(k)>>
         [] verdict = "skip_timeout" ->
              <<Probe(k, Deadline(now), 0), Abandon(k, "upstream_timeout")>>
         [] verdict = "wait" -> <<Probe(k, Deadline(now), now)>>

\* probeBackoff
ProbeBackoff(attempts) == Backoff[IF attempts < Len(Backoff) THEN attempts + 1 ELSE Len(Backoff)]

\* What runProbes does about one probe that is due: of several files it takes the first.
ProbeDue(p, seen, now) ==
  LET k == p.kind
      verdict == Judge(k, seen, now, p.deadline) IN
  IF SiblingAbsent(k, seen) THEN <<Abandon(k, "not_generated")>>
  ELSE CASE verdict = "ready" -> <<Upsert(Files[k][1]), Resolve(k)>>
         [] verdict = "skip_disallowed" -> <<Abandon(k, "download_not_allowed")>>
         [] verdict = "skip_timeout" -> <<Abandon(k, "upstream_timeout")>>
         [] verdict = "wait" -> <<Bump(k, now + ProbeBackoff(p.attempts))>>

-----------------------------------------------------------------------------
\* The statements

RowsAfter(s) ==
  CASE s.op = "upsertAsset" ->
         [rows EXCEPT ![s.file] = IF @ = "none" THEN "pending" ELSE @]
    [] s.op = "markSkippedByKey" ->
         [f \in AllFiles |-> IF f \in ToSet(Files[s.kind]) /\ rows[f] = "pending"
                             THEN "skipped" ELSE rows[f]]
    [] OTHER -> rows

\* upsertProbe: of a row that is there only the deadline changes.
UpsertProbe(p, s) ==
  IF p = NoProbe THEN [NoProbe EXCEPT !.state = "probing", !.deadline = s.deadline,
                                      !.after = s.after]
  ELSE [p EXCEPT !.deadline = s.deadline]

Ended(p, s) == [p EXCEPT !.state = "abandoned", !.reason = s.reason]

\* An UPDATE of a row that is not there does nothing.
ProbeAfter(p, s) ==
  CASE s.op = "upsertProbe" -> UpsertProbe(p, s)
    [] s.op = "abandonProbe" /\ p # NoProbe -> Ended(p, s)
    [] s.op = "abandonProbeIfProbing" /\ p.state = "probing" ->
         [p EXCEPT !.state = "abandoned", !.reason = "not_generated"]
    [] s.op = "resolveProbe" /\ p # NoProbe -> [p EXCEPT !.state = "resolved"]
    [] s.op = "bumpProbe" /\ p # NoProbe ->
         [p EXCEPT !.attempts = IF @ < Len(Backoff) THEN @ + 1 ELSE @, !.after = s.after]
    [] OTHER -> p

\* The next statement of a host.
Execute(h) ==
  /\ host[h].todo # <<>>
  /\ LET s == Head(host[h].todo) IN
       /\ rows' = RowsAfter(s)
       /\ probe' = IF s.op = "upsertAsset" THEN probe
                   ELSE [probe EXCEPT ![s.kind] = ProbeAfter(@, s)]
  /\ Move(h, [host[h] EXCEPT !.todo = Tail(@)])
  /\ UNCHANGED <<clock, world, crashed>>

-----------------------------------------------------------------------------
\* A round

\* discoverWithFetchPolicy: the rules are read once, and the kinds to pull decided.
Wanted(h) == {k \in KindSet : h \in Discoverers /\ k \in pulled}
Decide(h) ==
  /\ HostAt(h, "off") /\ Wanted(h) # {}
  /\ Move(h, [Resting EXCEPT !.pc = "list", !.now = clock, !.wanted = Wanted(h)])
  /\ UNCHANGED <<clock, world, tables, crashed>>

\* discover lists the assets once and goes through the kinds in their order, with the time
\* of the round's start.
Discover(h) ==
  LET seen == IF host[h].seen = <<>> THEN upstream ELSE host[h].seen IN
  /\ HostAt(h, "list")
  /\ \E i \in 1..Len(Kinds) :
       LET rest == host[h].wanted \ {Kinds[i]}
           row == IF rest = {} THEN [Resting EXCEPT !.pc = "due"]
                  ELSE [host[h] EXCEPT !.wanted = rest, !.seen = seen] IN
       /\ Kinds[i] \in host[h].wanted /\ \A j \in 1..(i - 1) : Kinds[j] \notin host[h].wanted
       /\ Move(h, [row EXCEPT !.todo = DiscoverKind(Kinds[i], seen, host[h].now)])
  /\ UNCHANGED <<clock, world, tables, crashed>>

\* dueProbes: the rows as they are now are kept for the rest of the round.
DueProbes(h) ==
  /\ \/ HostAt(h, "due")
     \/ HostAt(h, "off") /\ Wanted(h) = {}
  /\ LET due == {k \in KindSet : probe[k].state = "probing" /\ probe[k].after <= clock} IN
     Move(h, IF due = {} THEN Resting
             ELSE [Resting EXCEPT !.pc = "probe", !.due =
               {[kind |-> k, deadline |-> probe[k].deadline, attempts |-> probe[k].attempts] :
                k \in due}])
  /\ UNCHANGED <<clock, world, tables, crashed>>

\* listAssets for the next of them, answered some time later ...
AskUpstream(h) ==
  /\ HostAt(h, "probe") /\ host[h].due # {}
  /\ Move(h, [host[h] EXCEPT !.pc = "judge", !.seen = upstream])
  /\ UNCHANGED <<clock, world, tables, crashed>>

\* ... and judged by the clock.
JudgeProbe(h) ==
  /\ HostAt(h, "judge")
  /\ \E p \in host[h].due :
       Move(h, [host[h] EXCEPT !.pc = "probe", !.seen = <<>>, !.due = @ \ {p},
                               !.todo = ProbeDue(p, host[h].seen, clock)])
  /\ UNCHANGED <<clock, world, tables, crashed>>

EndRound(h) ==
  /\ HostAt(h, "probe") /\ host[h].due = {}
  /\ Move(h, Resting)
  /\ UNCHANGED <<clock, world, tables, crashed>>

HostDies(h) ==
  /\ host[h] # Resting /\ crashed < Crashes
  /\ crashed' = crashed + 1 /\ Move(h, Resting)
  /\ UNCHANGED <<clock, world, tables>>

-----------------------------------------------------------------------------
\* The world

Tick == clock < MaxClock /\ clock' = clock + 1 /\ UNCHANGED <<world, tables, host, crashed>>

\* Transcoding starts; a video and its audio, if there is one, are published together.
Transcode(k) ==
  /\ upstream[k] = "absent" /\ k # "audio"
  /\ upstream' = [upstream EXCEPT ![k] = "working"]
  /\ UNCHANGED <<clock, barred, ended, pulled, tables, host, crashed>>
Publish(k, others) ==
  /\ upstream[k] = "working"
  /\ others \subseteq (IF k = "video" THEN {"audio"} ELSE {}) \cap KindSet
  /\ upstream' = [x \in KindSet |-> IF x = k \/ x \in others THEN "ready" ELSE upstream[x]]
  /\ UNCHANGED <<clock, barred, ended, pulled, tables, host, crashed>>

\* The rules stop pulling the meeting, or it leaves the window.
StopPulling ==
  /\ pulled # {} /\ pulled' = {}
  /\ UNCHANGED <<clock, upstream, barred, ended, tables, host, crashed>>

DiscoveryInit ==
  /\ clock = 0 /\ crashed = 0
  /\ upstream = [k \in KindSet |-> "absent"]
  /\ barred \in Bans /\ ended \in EndTimes
  /\ pulled \in Pulls
  /\ rows = [f \in AllFiles |-> "none"]
  /\ probe = [k \in KindSet |-> NoProbe]
  /\ host = [h \in Hosts |-> Resting]

HostStep(h) ==
  \/ Execute(h) \/ Decide(h) \/ Discover(h) \/ DueProbes(h)
  \/ AskUpstream(h) \/ JudgeProbe(h) \/ EndRound(h)

DiscoveryNext ==
  \/ \E h \in Hosts : HostStep(h) \/ HostDies(h)
  \/ Tick \/ StopPulling
  \/ \E k \in KindSet : Transcode(k) \/ \E o \in SUBSET {"audio"} : Publish(k, o)

DiscoverySpec == DiscoveryInit /\ [][DiscoveryNext]_discoveryVars

-----------------------------------------------------------------------------
States == {"absent", "working", "ready"}
DiscoveryTypeOK ==
  /\ clock \in 0..MaxClock /\ upstream \in [KindSet -> States]
  /\ rows \in [AllFiles -> {"none", "pending", "skipped"}]
  /\ \A k \in KindSet :
       /\ probe[k].state \in {"none", "probing", "resolved", "abandoned"}
       /\ probe[k].attempts \in 0..Len(Backoff) /\ probe[k].deadline \in Nat
  /\ \A h \in Hosts : host[h].pc \in {"off", "list", "due", "probe", "judge"}

HasRow(k) == \E f \in ToSet(Files[k]) : rows[f] # "none"

\* What a probe row says is so, though verdicts rest on old listings and the statements
\* of two hosts mix: a resolved probe has a row to download; "not generated" is said
\* only of an audio that will never come; "not allowed" of a kind that is barred; and
\* nobody gives up on a meeting with a known end before its time is over.
ProbesTellTruth ==
  \A k \in KindSet :
    /\ probe[k].state = "resolved" => HasRow(k)
    /\ probe[k].state = "abandoned" =>
         CASE probe[k].reason = "not_generated" ->
                k = "audio" /\ upstream["video"] = "ready" /\ upstream["audio"] = "absent"
           [] probe[k].reason = "download_not_allowed" -> k \in barred
           [] probe[k].reason = "upstream_timeout" -> ended # NoTime => clock >= ended + WaitCap

\* No probe waits for ever: of a meeting whose end is known every probe is resolved or
\* abandoned, although each round of discovery writes its deadline anew and each look at
\* the platform puts the next one off.
ProbesEnd ==
  \A k \in KindSet : probe[k].state = "probing" /\ ended # NoTime ~> probe[k].state # "probing"
=============================================================================
