--------------------------- MODULE FailureMirror ---------------------------
(***************************************************************************)
(* The failure items of the fetch job as a mirror of the rows the queue    *)
(* has given up: each round writes one item per meeting with dead assets   *)
(* and then closes the items it did not write (recordDeadAssets and launch *)
(* in worker/scheduler.ts, store/jobs.ts), while administrators retry or   *)
(* ignore what an item stands for (handlers/console/jobs.ts).              *)
(*                                                                         *)
(* An item is one row per meeting, so that an id names a meeting.  Times   *)
(* are seconds of which only two matter: the present one and the one the   *)
(* round started in.  JobScheduler has the rounds themselves.              *)
(***************************************************************************)
EXTENDS Integers, FiniteSets

CONSTANTS
  FailAssets,   \* rows of meeting_assets
  FailMeetings,
  HomeOf,       \* [FailAssets -> FailMeetings]
  Consoles,     \* requests of the console that may overlap
  Appeals,      \* bound: requests
  Mishaps       \* bound: rounds that fail, gateways that stop

ASSUME MirrorAssumption ==
  HomeOf \in [FailAssets -> FailMeetings] /\ Appeals \in Nat /\ Mishaps \in Nat

VARIABLES
  fate,       \* meeting_assets.status: "queued" is pending, running or failed; "over" the rest
  open,       \* meetings whose item has resolved_at NULL
  thisSecond, \* items whose last_failed_at is the present second
  sinceStart, \* items whose last_failed_at is not before the round's start
  mirror,     \* the fetch round
  appeal,     \* [Consoles -> state of a request]
  shown,      \* history: dead assets that were written into an item when they were dead
  overtaken,  \* history: meetings whose item was written between a request's two statements
  steady,     \* history: meetings nobody but the round has touched since it listed the dead
  appeals, mishaps  \* counters of the bounds

items == <<open, thisSecond, sinceStart>>
history == <<shown, overtaken, steady>>
mirrorVars == <<fate, items, mirror, appeal, history, appeals, mishaps>>

Asleep == [pc |-> "off", todo |-> {}]
NoAppeal == [pc |-> "none", kind |-> "retry", todo |-> {}, at |-> {}]
DeadOf(m) == {a \in FailAssets : HomeOf[a] = m /\ fate[a] = "dead"}
WithDead == {m \in FailMeetings : DeadOf(m) # {}}
Round(pc) == mirror.pc = pc
Appeal(c, row) == appeal' = [appeal EXCEPT ![c] = row]

-----------------------------------------------------------------------------
\* The queue, in any process: a download comes to its end, or is given up; and discovery
\* skips a row, dead or not, that may not be downloaded any more.
Settle(a, how) ==
  /\ \/ fate[a] = "queued"
     \/ fate[a] = "dead" /\ how = "over"
  /\ fate' = [fate EXCEPT ![a] = how]
  /\ shown' = shown \ {a} /\ steady' = steady \ {HomeOf[a]}
  /\ UNCHANGED <<items, mirror, appeal, overtaken, appeals, mishaps>>

SecondPasses ==
  /\ thisSecond # {} /\ thisSecond' = {}
  /\ UNCHANGED <<fate, open, sinceStart, mirror, appeal, history, appeals, mishaps>>

-----------------------------------------------------------------------------
\* The fetch round

\* launch: startedAt is the present second.
StartRound ==
  /\ mirror.pc \in {"off", "done"} /\ mirror' = [Asleep EXCEPT !.pc = "fetch"]
  /\ sinceStart' = thisSecond
  /\ UNCHANGED <<fate, open, thisSecond, appeal, history, appeals, mishaps>>

\* Mutant: only what no item shows yet is written.
ListNewlyDead ==
  /\ Round("fetch")
  /\ mirror' = [pc |-> "record", todo |-> WithDead \ open]
  /\ steady' = FailMeetings \ sinceStart
  /\ UNCHANGED <<fate, items, appeal, shown, overtaken, appeals, mishaps>>

\* deadAssets, once the round's downloads are through: every dead row, by meeting.  An
\* item that an earlier round wrote in the second this one started counts as written by it.
ListDead ==
  /\ Round("fetch")
  /\ mirror' = [pc |-> "record", todo |-> WithDead]
  /\ steady' = FailMeetings \ sinceStart
  /\ UNCHANGED <<fate, items, appeal, shown, overtaken, appeals, mishaps>>

\* recordFailure opens the item again whatever became of it since the list was read.
RecordDead(m) ==
  /\ Round("record") /\ m \in mirror.todo
  /\ mirror' = [mirror EXCEPT !.todo = @ \ {m}]
  /\ open' = open \cup {m}
  /\ thisSecond' = thisSecond \cup {m} /\ sinceStart' = sinceStart \cup {m}
  /\ shown' = shown \cup DeadOf(m)
  /\ overtaken' = IF \E c \in Consoles : appeal[c].pc = "close" /\ appeal[c].at = {m}
                  THEN overtaken \cup {m} ELSE overtaken \ {m}
  /\ UNCHANGED <<fate, appeal, steady, appeals, mishaps>>

\* finishRun
CompleteRound ==
  /\ Round("record") /\ mirror.todo = {}
  /\ mirror' = [mirror EXCEPT !.pc = "resolve"]
  /\ UNCHANGED <<fate, items, appeal, history, appeals, mishaps>>

\* Mutant: items are closed on the console alone.
ResolveNone ==
  /\ Round("resolve") /\ mirror' = [mirror EXCEPT !.pc = "done"]
  /\ UNCHANGED <<fate, items, appeal, history, appeals, mishaps>>

\* resolveStaleFailures: last_failed_at < startedAt.
ResolveStale ==
  /\ Round("resolve") /\ mirror' = [mirror EXCEPT !.pc = "done"]
  /\ open' = open \cap sinceStart
  /\ UNCHANGED <<fate, thisSecond, sinceStart, appeal, history, appeals, mishaps>>

\* A statement throws or the process dies: nothing is closed.
RoundFails ==
  /\ mirror.pc \in {"fetch", "record", "resolve"} /\ mishaps < Mishaps
  /\ mirror' = Asleep /\ mishaps' = mishaps + 1
  /\ UNCHANGED <<fate, items, appeal, history, appeals>>

-----------------------------------------------------------------------------
\* POST /jobs/failures/retry and /ignore

\* listFailuresById: the open ones among the ids of the request.
ReadItems(c, kind, ids) ==
  /\ appeal[c].pc = "none" /\ appeals < Appeals /\ ids # {}
  /\ Appeal(c, [NoAppeal EXCEPT !.pc = IF ids \cap open = {} THEN "none" ELSE "act",
                                !.kind = kind, !.todo = ids \cap open])
  /\ appeals' = appeals + 1
  /\ UNCHANGED <<fate, items, mirror, history, mishaps>>

\* retryMeetingAssets puts dead rows back into the queue, ignoreDeadAssets ends them.
ActOnAssets(c, m) ==
  /\ appeal[c].pc = "act" /\ m \in appeal[c].todo
  /\ fate' = [a \in FailAssets |->
       IF a \notin DeadOf(m) THEN fate[a]
       ELSE IF appeal[c].kind = "retry" THEN "queued" ELSE "over"]
  /\ shown' = shown \ DeadOf(m) /\ steady' = steady \ {m}
  /\ Appeal(c, [appeal[c] EXCEPT !.pc = "close", !.todo = @ \ {m}, !.at = {m}])
  /\ UNCHANGED <<items, mirror, overtaken, appeals, mishaps>>

\* resolveFailuresByIds
CloseItem(c) ==
  /\ appeal[c].pc = "close" /\ open' = open \ appeal[c].at
  /\ Appeal(c, IF appeal[c].todo = {} THEN NoAppeal
               ELSE [appeal[c] EXCEPT !.pc = "act", !.at = {}])
  /\ steady' = steady \ appeal[c].at
  /\ UNCHANGED <<fate, thisSecond, sinceStart, mirror, shown, overtaken, appeals, mishaps>>

\* A statement throws or the gateway stops between two of them.
AppealFails(c) ==
  /\ appeal[c].pc # "none" /\ mishaps < Mishaps
  /\ Appeal(c, NoAppeal) /\ mishaps' = mishaps + 1
  /\ UNCHANGED <<fate, items, mirror, history, appeals>>

-----------------------------------------------------------------------------
MirrorInit ==
  /\ fate = [a \in FailAssets |-> "queued"]
  /\ open = {} /\ thisSecond = {} /\ sinceStart = {}
  /\ mirror = Asleep /\ appeal = [c \in Consoles |-> NoAppeal]
  /\ shown = {} /\ overtaken = {} /\ steady = {} /\ appeals = 0 /\ mishaps = 0

MirrorRound ==
  \/ StartRound \/ ListDead \/ CompleteRound \/ ResolveStale
  \/ \E m \in FailMeetings : RecordDead(m)

AppealStep(c) ==
  \/ \E kind \in {"retry", "ignore"}, ids \in SUBSET FailMeetings : ReadItems(c, kind, ids)
  \/ \E m \in FailMeetings : ActOnAssets(c, m)
  \/ CloseItem(c) \/ AppealFails(c)

MirrorNext ==
  \/ MirrorRound \/ RoundFails \/ SecondPasses
  \/ \E a \in FailAssets : Settle(a, "dead") \/ Settle(a, "over")
  \/ \E c \in Consoles : AppealStep(c)

MirrorSpec == MirrorInit /\ [][MirrorNext]_mirrorVars

-----------------------------------------------------------------------------
MirrorTypeOK ==
  /\ fate \in [FailAssets -> {"queued", "dead", "over"}]
  /\ open \subseteq FailMeetings /\ thisSecond \subseteq FailMeetings
  /\ sinceStart \subseteq FailMeetings /\ overtaken \subseteq FailMeetings
  /\ mirror \in [pc : {"off", "fetch", "record", "resolve", "done"}, todo : SUBSET FailMeetings]
  /\ appeal \in [Consoles -> [pc : {"none", "act", "close"}, kind : {"retry", "ignore"},
                              todo : SUBSET FailMeetings, at : SUBSET FailMeetings]]
  /\ steady \subseteq FailMeetings /\ shown \subseteq FailAssets
  /\ appeals \in 0..Appeals /\ mishaps \in 0..Mishaps

\* A download that was given up and shown stays on the list of failures until somebody
\* acts on it: neither a round that fails half-way nor a request that is cut off hides it.
\* Only a round that writes the item between the two statements of a request does, and
\* the next round shows it again.
DeadStaysShown == \A a \in shown : HomeOf[a] \in open \cup overtaken

\* A round that succeeds leaves the truth behind: of every meeting that nobody touched
\* since the round listed the dead, there is an open item exactly if one of its downloads
\* was given up, so that items of what was put back are closed, and no others.
RoundLeavesTruth ==
  Round("done") => \A m \in steady : m \in open <=> m \in WithDead

\* The failure items follow the rows they stand for.
ItemsFollowRows == DeadStaysShown /\ RoundLeavesTruth
=============================================================================
