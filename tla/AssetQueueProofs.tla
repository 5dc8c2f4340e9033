-------------------------- MODULE AssetQueueProofs --------------------------
(***************************************************************************)
(* Proofs about AssetQueue for any number of assets, slots, writes in      *)
(* flight and crashes, and for any lease length and backoff curve.         *)
(***************************************************************************)
EXTENDS AssetQueue, TLAPS

-----------------------------------------------------------------------------
\* Changing fields of a record of the table, of a slot or of a progress write.
LEMMA RowFields ==
  ASSUME NEW r \in Rows
  PROVE  /\ r.status \in Statuses /\ r.attempts \in Nat /\ r.wait \in Nat \cup {Expired}
         /\ \A st \in Statuses, n \in Nat, w \in Nat \cup {Expired} :
              [status |-> st, attempts |-> n, wait |-> w] \in Rows
         /\ \A st \in Statuses : [r EXCEPT !.status = st] \in Rows
         /\ \A w \in Nat \cup {Expired} : [r EXCEPT !.wait = w] \in Rows
  BY DEF Rows

\* A working slot names a row and the token it was given.
LEMMA SlotFields ==
  ASSUME TypeOK, NEW s \in Slots, Working(s)
  PROVE  slot[s].asset \in Assets /\ slot[s].claimed \in Nat
  BY DEF TypeOK, SlotStates, Idle, Off, Working

\* Ages are numbers.
LEMMA OlderNat == ASSUME NEW n \in Nat PROVE Older(n) \in Nat
  BY DEF Older

\* A bulk statement keeps the table well typed.
LEMMA BulkUpdateType ==
  ASSUME TypeOK, NEW S, NEW From, NEW status \in Statuses, NEW keep \in BOOLEAN,
         BulkUpdate(S, From, status, keep)
  PROVE  row' \in [Assets -> Rows]
  <1>1. ASSUME NEW a \in Assets
        PROVE  (IF a \in S /\ row[a].status \in From
                  THEN [status |-> status,
                        attempts |-> IF keep THEN row[a].attempts ELSE 0,
                        wait |-> Expired]
                  ELSE row[a]) \in Rows
    <2>1. row[a] \in Rows
      BY DEF TypeOK
    <2>2. (IF keep THEN row[a].attempts ELSE 0) \in Nat
      BY <2>1, RowFields
    <2>3. QED  BY <2>1, <2>2, RowFields
  <1>2. QED  BY <1>1 DEF BulkUpdate

-----------------------------------------------------------------------------
\* Every step of the queue, on either host, keeps every variable in its type.
LEMMA TypeStep == TypeOK /\ [CliNext \/ GatewayNext]_vars => TypeOK'
  <1> SUFFICES ASSUME TypeOK, [CliNext \/ GatewayNext]_vars PROVE TypeOK'
    OBVIOUS
  <1> USE QueueAssumption
  <1>1. ASSUME NEW a \in Assets, UpsertAsset(a) PROVE TypeOK'
    <2>1. row[a] \in Rows /\ "pending" \in Statuses
      BY DEF TypeOK, Statuses
    <2>2. [row[a] EXCEPT !.status = "pending"] \in Rows
      BY <2>1, RowFields
    <2>3. row' \in [Assets -> Rows]
      BY <1>1, <2>2 DEF TypeOK, UpsertAsset
    <2>4. QED  BY <1>1, <2>3 DEF TypeOK, UpsertAsset
  <1>2. ASSUME NEW m \in Meetings, NEW ty \in Types, MarkSkippedByKey(m, ty) PROVE TypeOK'
    BY <1>2, BulkUpdateType DEF TypeOK, MarkSkippedByKey, Statuses
  <1>3. CASE ResetFailed
    BY <1>3, BulkUpdateType DEF TypeOK, ResetFailed, Statuses
  <1>4. ASSUME NEW m \in Meetings, RetryMeetingAssets(m) PROVE TypeOK'
    BY <1>4, BulkUpdateType DEF TypeOK, RetryMeetingAssets, Statuses
  <1>5. ASSUME NEW m \in Meetings, IgnoreDeadAssets(m) PROVE TypeOK'
    BY <1>5, BulkUpdateType DEF TypeOK, IgnoreDeadAssets, Statuses
  <1>6. ASSUME NEW s \in Slots, StartSlot(s) \/ ClaimNone(s) \/ ClaimNoneUnlocked(s) \/ Crash(s)
        PROVE  TypeOK'
    <2>1. Idle \in SlotStates /\ Off \in SlotStates
      BY DEF SlotStates
    <2>2. CASE StartSlot(s)
      BY <2>1, <2>2 DEF TypeOK, StartSlot
    <2>3. CASE ClaimNone(s) \/ ClaimNoneUnlocked(s)
      BY <2>1, <2>3 DEF TypeOK, ClaimNone, ClaimNoneUnlocked
    <2>4. CASE Crash(s)
      BY <2>1, <2>4 DEF TypeOK, Crash
    <2>5. QED  BY <1>6, <2>2, <2>3, <2>4
  <1>7. ASSUME NEW s \in Slots, ClaimNext(s) \/ ClaimNextUnlocked(s) PROVE TypeOK'
    <2>1. PICK a \in Assets :
            /\ row' = [row EXCEPT ![a] = [status |-> "running",
                                          attempts |-> row[a].attempts + 1,
                                          wait |-> LeaseSec]]
            /\ slot' = [slot EXCEPT ![s] = [pc |-> "working", asset |-> a,
                                            claimed |-> row[a].attempts + 1]]
            /\ holder' = [holder EXCEPT ![a] = s]
            /\ since' = [since EXCEPT ![a] = 0]
            /\ UNCHANGED <<touches, crashes>>
      BY <1>7 DEF ClaimNext, ClaimNextUnlocked, Take, Claimable
    <2>2. row[a].attempts + 1 \in Nat
      <3>1. row[a] \in Rows
        BY DEF TypeOK
      <3>2. QED  BY <3>1, RowFields
    <2>3. [status |-> "running", attempts |-> row[a].attempts + 1, wait |-> LeaseSec] \in Rows
      BY <2>2 DEF Rows, Statuses
    <2>4. [pc |-> "working", asset |-> a, claimed |-> row[a].attempts + 1] \in SlotStates
      BY <2>2 DEF SlotStates
    <2>5. QED  BY <2>1, <2>3, <2>4 DEF TypeOK
  <1>8. ASSUME NEW s \in Slots, NEW status \in Statuses, NEW wait \in Nat \cup {Expired},
               WriteBack(s, status, wait)
        PROVE  TypeOK'
    <2>1. slot[s].asset \in Assets
      BY <1>8, SlotFields DEF WriteBack
    <2>2. row[slot[s].asset] \in Rows
      BY <2>1 DEF TypeOK
    <2>3. [status |-> status, attempts |-> row[slot[s].asset].attempts, wait |-> wait] \in Rows
      BY <1>8, <2>2, RowFields
    <2>4. slot' \in [Slots -> SlotStates]
      BY <1>8 DEF TypeOK, WriteBack, SlotStates
    <2>5. row' \in [Assets -> Rows] /\ since' \in [Assets -> Nat]
      <3>1. CASE Fence(slot[s].asset, slot[s].claimed)
        <4>1. /\ row' = [row EXCEPT ![slot[s].asset] =
                           [status |-> status, attempts |-> row[slot[s].asset].attempts,
                            wait |-> wait]]
              /\ since' = [since EXCEPT ![slot[s].asset] = 0]
          BY <1>8, <3>1 DEF WriteBack
        <4>2. row' \in [Assets -> Rows]
          BY <2>1, <2>3, <4>1 DEF TypeOK
        <4>3. QED  BY <4>1, <4>2 DEF TypeOK
      <3>2. CASE ~Fence(slot[s].asset, slot[s].claimed)
        BY <1>8, <3>2 DEF TypeOK, WriteBack
      <3>3. QED  BY <3>1, <3>2
    <2>6. QED  BY <1>8, <2>4, <2>5 DEF TypeOK, WriteBack
  <1>9. ASSUME NEW s \in Slots, MarkCompleted(s) \/ MarkSkipped(s) \/ MarkDead(s) PROVE TypeOK'
    BY <1>8, <1>9 DEF MarkCompleted, MarkSkipped, MarkDead, Statuses
  <1>10. ASSUME NEW s \in Slots, MarkFailed(s) PROVE TypeOK'
    BY <1>8, <1>10 DEF MarkFailed, Statuses
  <1>11. ASSUME NEW s \in Slots, SendTouch(s) PROVE TypeOK'
    BY SMTT(20), <1>11, SlotFields DEF TypeOK, SendTouch, TouchWrites
  <1>12. ASSUME NEW t \in touches, TouchProgress(t) PROVE TypeOK'
    <2>1. t \in TouchWrites
      BY DEF TypeOK
    <2>2. row[t.asset] \in Rows /\ t.asset \in Assets
      BY <2>1 DEF TypeOK, TouchWrites
    <2> DEFINE wait == IF t.age <= LeaseSec THEN LeaseSec - t.age ELSE Expired
    <2>3. wait \in Nat \cup {Expired}
      BY <2>1 DEF TouchWrites
    <2>4. [row[t.asset] EXCEPT !.wait = wait] \in Rows
      BY <2>2, <2>3, RowFields
    <2>5. row' \in [Assets -> Rows]
      BY <1>12, <2>2, <2>4 DEF TypeOK, TouchProgress
    <2>6. QED  BY <1>12, <2>5 DEF TypeOK, TouchProgress
  <1>13. ASSUME NEW t \in touches, TouchFails(t) PROVE TypeOK'
    BY <1>13 DEF TypeOK, TouchFails
  <1>14. CASE Tick
    <2>1. ASSUME NEW a \in Assets
          PROVE  [row[a] EXCEPT !.wait = IF @ = Expired THEN Expired ELSE @ - 1] \in Rows
      <3>1. row[a] \in Rows
        BY DEF TypeOK
      <3>2. (IF row[a].wait = Expired THEN Expired ELSE row[a].wait - 1) \in Nat \cup {Expired}
        BY <3>1, RowFields DEF Expired
      <3>3. QED  BY <3>1, <3>2, RowFields
    <2>2. row' \in [Assets -> Rows]
      BY <1>14, <2>1 DEF Tick
    <2>3. ASSUME NEW t \in touches PROVE [t EXCEPT !.age = Older(@)] \in TouchWrites
      BY OlderNat DEF TypeOK, TouchWrites
    <2>4. touches' \subseteq TouchWrites
      BY <1>14, <2>3 DEF Tick
    <2>5. since' \in [Assets -> Nat]
      BY <1>14, OlderNat DEF TypeOK, Tick
    <2>6. QED  BY <1>14, <2>2, <2>4, <2>5 DEF TypeOK, Tick
  <1>15. CASE UNCHANGED vars
    BY <1>15 DEF TypeOK, vars
  <1>16. QED
    BY <1>1, <1>2, <1>3, <1>4, <1>5, <1>6, <1>7, <1>9, <1>10, <1>11, <1>12, <1>13, <1>14, <1>15
       DEF CliNext, GatewayNext, Common, Discovery, Executor

\* The initial state is well typed.
LEMMA TypeInit == Init => TypeOK
  BY QueueAssumption DEF Init, TypeOK, Statuses, Off, Rows, SlotStates

\* The CLI's queue is well typed in every reachable state.
THEOREM CliTypeCorrect == CliSpec => []TypeOK
  <1>1. TypeOK /\ [CliNext]_vars => TypeOK'
    BY TypeStep
  <1>2. QED  BY <1>1, TypeInit, PTL DEF CliSpec

\* The server's queue is well typed in every reachable state.
THEOREM GatewayTypeCorrect == GatewaySpec => []TypeOK
  <1>1. TypeOK /\ [GatewayNext]_vars => TypeOK'
    BY TypeStep
  <1>2. QED  BY <1>1, TypeInit, PTL DEF GatewaySpec

-----------------------------------------------------------------------------
(***************************************************************************)
(* The fence on the CLI's host.  QueueInv is inductive because no step of  *)
(* CliNext lowers attempts: a claim makes every other token of the row     *)
(* smaller than the row's.                                                 *)
(***************************************************************************)
TokenPart ==
  \A s \in Slots : Working(s) =>
    /\ slot[s].claimed <= row[slot[s].asset].attempts
    /\ slot[s].claimed = row[slot[s].asset].attempts => holder[slot[s].asset] = s

TouchPart ==
  \A t \in touches :
    /\ t.claimed <= row[t.asset].attempts
    /\ Fence(t.asset, t.claimed) => t.age <= since[t.asset]

\* QueueInv is its four parts.
LEMMA QueueInvParts == QueueInv <=> TypeOK /\ TokenPart /\ TouchPart /\ LeaseFloor
  BY DEF QueueInv, TokenPart, TouchPart

\* A step that leaves slots, writes and histories alone and takes rows out of
\* "running", if anything, without changing attempts preserves the invariant.
LEMMA RowsOnlyStep ==
  ASSUME QueueInv, TypeOK', UNCHANGED <<slot, touches, holder, since>>,
         \A a \in Assets : \/ row'[a] = row[a]
                           \/ /\ row'[a].attempts = row[a].attempts
                              /\ row'[a].status # "running"
  PROVE  QueueInv'
  <1>1. TokenPart'
    <2> SUFFICES ASSUME NEW s \in Slots, Working(s)'
                 PROVE  /\ slot'[s].claimed <= row'[slot'[s].asset].attempts
                        /\ slot'[s].claimed = row'[slot'[s].asset].attempts
                             => holder'[slot'[s].asset] = s
      BY DEF TokenPart
    <2>1. Working(s) /\ slot[s].asset \in Assets
      BY SlotFields DEF Working, QueueInv
    <2>2. row'[slot[s].asset].attempts = row[slot[s].asset].attempts
      BY <2>1
    <2>3. QED  BY <2>1, <2>2 DEF QueueInv
  <1>2. TouchPart'
    <2> SUFFICES ASSUME NEW t \in touches
                 PROVE  /\ t.claimed <= row'[t.asset].attempts
                        /\ Fence(t.asset, t.claimed)' => t.age <= since'[t.asset]
      BY DEF TouchPart
    <2>1. t.asset \in Assets
      BY DEF QueueInv, TypeOK, TouchWrites
    <2>2. QED  BY <2>1 DEF QueueInv, Fence
  <1>3. LeaseFloor'
    BY DEF QueueInv, LeaseFloor
  <1>4. QED  BY <1>1, <1>2, <1>3 DEF QueueInv, TokenPart, TouchPart

\* Each bulk statement of the CLI's host leaves running rows and all tokens alone,
\* so it preserves the invariant.
LEMMA BulkStep ==
  ASSUME QueueInv, TypeOK', UNCHANGED <<slot, touches, holder, since>>,
         NEW S, NEW From, NEW status \in Statuses \ {"running"},
         BulkUpdate(S, From, status, TRUE)
  PROVE  QueueInv'
  <1>1. ASSUME NEW a \in Assets
        PROVE  \/ row'[a] = row[a]
               \/ row'[a].attempts = row[a].attempts /\ row'[a].status # "running"
    <2>1. CASE a \in S /\ row[a].status \in From
      <3>1. row'[a] = [status |-> status, attempts |-> row[a].attempts, wait |-> Expired]
        BY <2>1 DEF BulkUpdate
      <3>2. QED  BY <3>1
    <2>2. CASE ~(a \in S /\ row[a].status \in From)
      BY <2>2 DEF BulkUpdate
    <2>3. QED  BY <2>1, <2>2
  <1>2. QED  BY <1>1, RowsOnlyStep

\* Ageing two numbers keeps their order, up to the cap.
LEMMA OlderMonotone ==
  ASSUME NEW m \in Nat, NEW n \in Nat, m <= n PROVE Older(m) <= Older(n)
  <1>1. AgeCap \in Nat
    BY QueueAssumption
  <1>2. QED  BY <1>1 DEF Older

\* A claim preserves the invariant: its token is new, its slot becomes the holder,
\* and every older token is behind the row.
LEMMA ClaimStep ==
  ASSUME QueueInv, TypeOK', NEW s \in Slots, ClaimNext(s)
  PROVE  QueueInv'
  <1> USE QueueAssumption
  <1>1. PICK a \in Assets :
          /\ row' = [row EXCEPT ![a] = [status |-> "running",
                                        attempts |-> row[a].attempts + 1,
                                        wait |-> LeaseSec]]
          /\ slot' = [slot EXCEPT ![s] = [pc |-> "working", asset |-> a,
                                          claimed |-> row[a].attempts + 1]]
          /\ holder' = [holder EXCEPT ![a] = s]
          /\ since' = [since EXCEPT ![a] = 0]
    BY DEF ClaimNext, Take, Claimable
  <1>2. TypeOK /\ touches' = touches
    BY DEF QueueInv, ClaimNext, Take
  <1>3. row[a] \in Rows
    BY <1>2 DEF TypeOK
  <1>4. row[a].attempts \in Nat
    BY <1>3, RowFields
  <1>5. /\ row'[a].attempts = row[a].attempts + 1 /\ row'[a].wait = LeaseSec
        /\ since'[a] = 0 /\ holder'[a] = s
        /\ \A b \in Assets \ {a} : row'[b] = row[b] /\ holder'[b] = holder[b]
                                   /\ since'[b] = since[b]
    BY <1>1, <1>2 DEF TypeOK
  <1>6. TokenPart'
    <2> SUFFICES ASSUME NEW u \in Slots, Working(u)'
                 PROVE  /\ slot'[u].claimed <= row'[slot'[u].asset].attempts
                        /\ slot'[u].claimed = row'[slot'[u].asset].attempts
                             => holder'[slot'[u].asset] = u
      BY DEF TokenPart
    <2>1. CASE u = s
      <3>1. slot'[u].asset = a /\ slot'[u].claimed = row[a].attempts + 1
        BY <1>1, <1>2, <2>1 DEF TypeOK
      <3>2. QED  BY <1>4, <1>5, <2>1, <3>1
    <2>2. CASE u # s
      <3>1. slot'[u] = slot[u] /\ Working(u)
        BY <1>1, <1>2, <2>2 DEF TypeOK, Working
      <3>2. slot[u].asset \in Assets /\ slot[u].claimed \in Nat
        BY <1>2, <3>1, SlotFields
      <3>3. /\ slot[u].claimed <= row[slot[u].asset].attempts
            /\ slot[u].claimed = row[slot[u].asset].attempts => holder[slot[u].asset] = u
        BY <3>1 DEF QueueInv
      <3>4. CASE slot[u].asset = a
        <4>1. slot[u].claimed < row'[a].attempts
          BY <1>4, <1>5, <3>2, <3>3, <3>4
        <4>2. QED  BY <1>4, <1>5, <3>1, <3>2, <3>4, <4>1
      <3>5. CASE slot[u].asset # a
        BY <1>5, <3>1, <3>2, <3>3, <3>5
      <3>6. QED  BY <3>4, <3>5
    <2>3. QED  BY <2>1, <2>2
  <1>7. TouchPart'
    <2> SUFFICES ASSUME NEW t \in touches
                 PROVE  /\ t.claimed <= row'[t.asset].attempts
                        /\ Fence(t.asset, t.claimed)' => t.age <= since'[t.asset]
      BY <1>2 DEF TouchPart
    <2>1. t.asset \in Assets /\ t.claimed \in Nat /\ t.claimed <= row[t.asset].attempts
      BY DEF QueueInv, TypeOK, TouchWrites
    <2>2. CASE t.asset = a
      BY <1>4, <1>5, <2>1, <2>2 DEF Fence
    <2>3. CASE t.asset # a
      BY <1>5, <2>1, <2>3 DEF QueueInv, Fence
    <2>4. QED  BY <2>2, <2>3
  <1>8. LeaseFloor'
    BY <1>5 DEF QueueInv, LeaseFloor
  <1>9. QED  BY <1>6, <1>7, <1>8, QueueInvParts DEF QueueInv, TokenPart, TouchPart

\* A write-back preserves the invariant, whether the fence holds or not.
LEMMA WriteBackStep ==
  ASSUME QueueInv, TypeOK', NEW s \in Slots, NEW status \in Statuses \ {"running"}, NEW wait,
         WriteBack(s, status, wait)
  PROVE  QueueInv'
  <1> DEFINE a == slot[s].asset
  <1>1. TypeOK /\ touches' = touches /\ holder' = holder /\ a \in Assets
    BY SlotFields DEF QueueInv, WriteBack
  <1>2. ASSUME NEW b \in Assets
        PROVE  /\ row'[b].attempts = row[b].attempts
               /\ \/ row'[b] = row[b] /\ since'[b] = since[b]
                  \/ row'[b].status # "running"
    <2>1. CASE Fence(a, slot[s].claimed)
      <3>1. /\ row' = [row EXCEPT ![a] = [status |-> status, attempts |-> row[a].attempts,
                                         wait |-> wait]]
            /\ since' = [since EXCEPT ![a] = 0]
        BY <2>1 DEF WriteBack
      <3>2. QED  BY <1>1, <3>1 DEF TypeOK
    <2>2. CASE ~Fence(a, slot[s].claimed)
      BY <2>2 DEF WriteBack
    <2>3. QED  BY <2>1, <2>2
  <1>3. TokenPart'
    <2> SUFFICES ASSUME NEW u \in Slots, Working(u)'
                 PROVE  /\ slot'[u].claimed <= row'[slot'[u].asset].attempts
                        /\ slot'[u].claimed = row'[slot'[u].asset].attempts
                             => holder'[slot'[u].asset] = u
      BY DEF TokenPart
    <2>1. u # s
      BY <1>1 DEF TypeOK, WriteBack, Working, Idle
    <2>2. slot'[u] = slot[u] /\ Working(u)
      BY <1>1, <2>1 DEF TypeOK, WriteBack, Working
    <2>3. slot[u].asset \in Assets
      BY <1>1, <2>2, SlotFields
    <2>4. QED  BY <1>1, <1>2, <2>2, <2>3 DEF QueueInv
  <1>4. TouchPart'
    <2> SUFFICES ASSUME NEW t \in touches
                 PROVE  /\ t.claimed <= row'[t.asset].attempts
                        /\ Fence(t.asset, t.claimed)' => t.age <= since'[t.asset]
      BY <1>1 DEF TouchPart
    <2>1. t.asset \in Assets
      BY <1>1 DEF TypeOK, TouchWrites
    <2>2. QED  BY <1>2, <2>1 DEF QueueInv, Fence
  <1>5. LeaseFloor'
    BY <1>2 DEF QueueInv, LeaseFloor
  <1>6. QED  BY <1>3, <1>4, <1>5 DEF QueueInv, TokenPart, TouchPart

\* What a progress write and the passing of time do to one row.
LEMMA TouchRow ==
  ASSUME TypeOK, NEW t \in touches, TouchProgress(t), NEW b \in Assets
  PROVE  /\ row'[b].attempts = row[b].attempts /\ row'[b].status = row[b].status
         /\ \/ row'[b] = row[b]
            \/ /\ b = t.asset /\ Fence(t.asset, t.claimed)
               /\ row'[b].wait = IF t.age <= LeaseSec THEN LeaseSec - t.age ELSE Expired
  <1>1. CASE Fence(t.asset, t.claimed) /\ b = t.asset
    <2> DEFINE wait == IF t.age <= LeaseSec THEN LeaseSec - t.age ELSE Expired
    <2>1. row' = [row EXCEPT ![b].wait = wait]
      BY <1>1 DEF TouchProgress
    <2>2. row[b] \in Rows
      BY DEF TypeOK
    <2>3. row'[b] = [row[b] EXCEPT !.wait = wait]
      BY <2>1 DEF TypeOK
    <2>4. row'[b].attempts = row[b].attempts /\ row'[b].status = row[b].status
          /\ row'[b].wait = wait
      BY <2>2, <2>3 DEF Rows
    <2>5. QED  BY <1>1, <2>4
  <1>2. CASE ~(Fence(t.asset, t.claimed) /\ b = t.asset)
    BY <1>2 DEF TouchProgress, TypeOK
  <1>3. QED  BY <1>1, <1>2

\* What a unit of time does to one row.
LEMMA TickRow ==
  ASSUME TypeOK, Tick, NEW b \in Assets
  PROVE  /\ row'[b].attempts = row[b].attempts /\ row'[b].status = row[b].status
         /\ row'[b].wait = IF row[b].wait = Expired THEN Expired ELSE row[b].wait - 1
         /\ since'[b] = Older(since[b])
  <1>1. row[b] \in Rows
    BY DEF TypeOK
  <1>2. row'[b] = [row[b] EXCEPT !.wait = IF @ = Expired THEN Expired ELSE @ - 1]
    BY DEF Tick
  <1>3. QED  BY <1>1, <1>2 DEF Rows, Tick

\* A progress write, however late, preserves the invariant.
LEMMA TouchProgressStep ==
  ASSUME QueueInv, TypeOK', NEW t \in touches, TouchProgress(t)
  PROVE  QueueInv'
  <1>1. /\ TypeOK /\ t.asset \in Assets /\ t.claimed \in Nat /\ t.age \in Nat
        /\ touches' \subseteq touches
        /\ UNCHANGED <<slot, holder, since>>
    BY DEF QueueInv, TypeOK, TouchWrites, TouchProgress
  <1>2. LeaseSec \in Nat
    BY QueueAssumption
  <1>3. ASSUME NEW b \in Assets
        PROVE  /\ row'[b].attempts = row[b].attempts /\ row'[b].status = row[b].status
               /\ \/ row'[b] = row[b]
                  \/ /\ row'[b].wait = IF t.age <= LeaseSec THEN LeaseSec - t.age ELSE Expired
                     /\ t.age <= since[b]
    BY <1>1, TouchRow DEF QueueInv
  <1>4. TokenPart'
    <2> SUFFICES ASSUME NEW u \in Slots, Working(u)'
                 PROVE  /\ slot'[u].claimed <= row'[slot'[u].asset].attempts
                        /\ slot'[u].claimed = row'[slot'[u].asset].attempts
                             => holder'[slot'[u].asset] = u
      BY DEF TokenPart
    <2>1. Working(u) /\ slot[u].asset \in Assets
      BY <1>1, SlotFields DEF Working
    <2>2. QED  BY <1>1, <1>3, <2>1 DEF QueueInv
  <1>5. TouchPart'
    <2> SUFFICES ASSUME NEW v \in touches
                 PROVE  /\ v.claimed <= row'[v.asset].attempts
                        /\ Fence(v.asset, v.claimed)' => v.age <= since'[v.asset]
      BY <1>1 DEF TouchPart
    <2>1. v.asset \in Assets
      BY <1>1 DEF TypeOK, TouchWrites
    <2>2. QED  BY <1>1, <1>3, <2>1 DEF QueueInv, Fence
  <1>6. LeaseFloor'
    <2> SUFFICES ASSUME NEW b \in Assets, row'[b].status = "running"
                 PROVE  row'[b].wait + since[b] >= LeaseSec \/ since[b] > LeaseSec
      BY <1>1 DEF LeaseFloor
    <2>1. since[b] \in Nat
      BY <1>1 DEF TypeOK
    <2>2. CASE row'[b] = row[b]
      BY <2>2 DEF QueueInv, LeaseFloor
    <2>3. CASE /\ row'[b].wait = IF t.age <= LeaseSec THEN LeaseSec - t.age ELSE Expired
               /\ t.age <= since[b]
      BY <1>1, <1>2, <2>1, <2>3
    <2>4. QED  BY <1>3, <2>2, <2>3
  <1>7. QED  BY <1>4, <1>5, <1>6 DEF QueueInv, TokenPart, TouchPart

\* The passing of time preserves the invariant.
LEMMA TickStep ==
  ASSUME QueueInv, TypeOK', Tick
  PROVE  QueueInv'
  <1>1. TypeOK /\ UNCHANGED <<slot, holder>>
    BY DEF QueueInv, Tick
  <1>2. LeaseSec \in Nat /\ AgeCap \in Nat /\ AgeCap > LeaseSec
    BY QueueAssumption
  <1>3. ASSUME NEW b \in Assets
        PROVE  /\ row'[b].attempts = row[b].attempts /\ row'[b].status = row[b].status
               /\ row'[b].wait = IF row[b].wait = Expired THEN Expired ELSE row[b].wait - 1
               /\ since'[b] = Older(since[b])
    BY <1>1, TickRow
  <1>4. TokenPart'
    <2> SUFFICES ASSUME NEW u \in Slots, Working(u)'
                 PROVE  /\ slot'[u].claimed <= row'[slot'[u].asset].attempts
                        /\ slot'[u].claimed = row'[slot'[u].asset].attempts
                             => holder'[slot'[u].asset] = u
      BY DEF TokenPart
    <2>1. Working(u) /\ slot[u].asset \in Assets
      BY <1>1, SlotFields DEF Working
    <2>2. QED  BY <1>1, <1>3, <2>1 DEF QueueInv
  <1>5. TouchPart'
    <2> SUFFICES ASSUME NEW v \in touches'
                 PROVE  /\ v.claimed <= row'[v.asset].attempts
                        /\ Fence(v.asset, v.claimed)' => v.age <= since'[v.asset]
      BY DEF TouchPart
    <2>1. PICK t \in touches : v = [t EXCEPT !.age = Older(@)]
      BY DEF Tick
    <2>2. /\ t.asset \in Assets /\ t.age \in Nat
          /\ v.asset = t.asset /\ v.claimed = t.claimed /\ v.age = Older(t.age)
      BY <1>1, <2>1 DEF TypeOK, TouchWrites
    <2>3. since[t.asset] \in Nat
      BY <1>1, <2>2 DEF TypeOK
    <2>4. ASSUME Fence(v.asset, v.claimed)' PROVE v.age <= since'[v.asset]
      <3>1. t.age <= since[t.asset]
        BY <1>3, <2>2, <2>4 DEF QueueInv, Fence
      <3>2. QED  BY <1>3, <2>2, <2>3, <3>1, OlderMonotone
    <2>5. QED  BY <1>3, <2>2, <2>4 DEF QueueInv
  <1>6. LeaseFloor'
    <2> SUFFICES ASSUME NEW b \in Assets, row'[b].status = "running"
                 PROVE  row'[b].wait + since'[b] >= LeaseSec \/ since'[b] > LeaseSec
      BY DEF LeaseFloor
    <2>1. since[b] \in Nat /\ row[b].wait \in Nat \cup {Expired}
      BY <1>1 DEF TypeOK, Rows
    <2>2. row[b].wait + since[b] >= LeaseSec \/ since[b] > LeaseSec
      BY <1>3 DEF QueueInv, LeaseFloor
    <2>3. QED  BY <1>2, <1>3, <2>1, <2>2 DEF Older, Expired
  <1>7. QED  BY <1>4, <1>5, <1>6 DEF QueueInv, TokenPart, TouchPart

\* Steps that change slots only (a loop starts, ends or dies) preserve it.
LEMMA SlotStep ==
  ASSUME QueueInv, TypeOK', NEW s \in Slots,
         StartSlot(s) \/ ClaimNone(s) \/ Crash(s) \/ SendTouch(s)
  PROVE  QueueInv'
  <1>1. TypeOK /\ UNCHANGED <<row, holder, since>>
    BY DEF QueueInv, StartSlot, ClaimNone, Crash, SendTouch
  <1>2. ASSUME NEW u \in Slots, Working(u)' PROVE Working(u) /\ slot'[u] = slot[u]
    <2>1. CASE SendTouch(s)
      BY <1>2, <2>1 DEF SendTouch, Working
    <2>2. CASE StartSlot(s) \/ ClaimNone(s) \/ Crash(s)
      BY <1>1, <1>2, <2>2 DEF TypeOK, StartSlot, ClaimNone, Crash, Working, Idle, Off
    <2>3. QED  BY <2>1, <2>2
  <1>3. TokenPart'
    BY <1>1, <1>2 DEF QueueInv, TokenPart
  <1>4. TouchPart'
    <2>1. CASE SendTouch(s)
      <3> DEFINE t == [asset |-> slot[s].asset, claimed |-> slot[s].claimed, age |-> 0]
      <3>1. /\ touches' = touches \cup {t} /\ Working(s)
            /\ slot[s].asset \in Assets
        BY <1>1, <2>1, SlotFields DEF SendTouch
      <3>2. since[slot[s].asset] \in Nat
        BY <1>1, <3>1 DEF TypeOK
      <3>3. t.claimed <= row[t.asset].attempts /\ t.age <= since[t.asset]
        BY <3>1, <3>2 DEF QueueInv
      <3>4. QED  BY <1>1, <3>1, <3>3 DEF QueueInv, TouchPart, Fence
    <2>2. CASE StartSlot(s) \/ ClaimNone(s) \/ Crash(s)
      BY <1>1, <2>2 DEF QueueInv, TouchPart, Fence, StartSlot, ClaimNone, Crash
    <2>3. QED  BY <2>1, <2>2
  <1>5. LeaseFloor'
    BY <1>1 DEF QueueInv, LeaseFloor
  <1>6. QED  BY <1>3, <1>4, <1>5 DEF QueueInv, TokenPart, TouchPart


\* The invariant holds initially.
LEMMA QueueInvInit == Init => QueueInv
  <1> SUFFICES ASSUME Init PROVE QueueInv
    OBVIOUS
  <1>1. TypeOK
    BY TypeInit
  <1>2. \A s \in Slots : ~Working(s)
    BY DEF Init, Working, Off
  <1>3. \A a \in Assets : row[a].status # "running"
    BY DEF Init
  <1>4. QED  BY <1>1, <1>2, <1>3 DEF Init, QueueInv, LeaseFloor

\* Every step on the CLI's host preserves the invariant.
LEMMA QueueInvStep == QueueInv /\ [CliNext]_vars => QueueInv'
  <1> SUFFICES ASSUME QueueInv, [CliNext]_vars PROVE QueueInv'
    OBVIOUS
  <1>1. TypeOK /\ TypeOK'
    BY TypeStep DEF QueueInv
  <1>2. ASSUME NEW a \in Assets, UpsertAsset(a) PROVE QueueInv'
    <2>1. row[a] \in Rows
      BY <1>1 DEF TypeOK
    <2>2. \A b \in Assets : \/ row'[b] = row[b]
                            \/ row'[b].attempts = row[b].attempts /\ row'[b].status # "running"
      BY <1>1, <1>2, <2>1 DEF TypeOK, Rows, UpsertAsset
    <2>3. QED  BY <1>1, <1>2, <2>2, RowsOnlyStep DEF UpsertAsset
  <1>3. ASSUME NEW m \in Meetings, NEW ty \in Types, MarkSkippedByKey(m, ty) PROVE QueueInv'
    BY <1>1, <1>3, BulkStep DEF MarkSkippedByKey, Statuses
  <1>4. CASE ResetFailed
    BY <1>1, <1>4, BulkStep DEF ResetFailed, Statuses
  <1>5. ASSUME NEW s \in Slots, StartSlot(s) \/ ClaimNone(s) \/ Crash(s) \/ SendTouch(s)
        PROVE  QueueInv'
    BY <1>1, <1>5, SlotStep
  <1>6. ASSUME NEW s \in Slots, ClaimNext(s) PROVE QueueInv'
    BY <1>1, <1>6, ClaimStep
  <1>7. ASSUME NEW s \in Slots, MarkCompleted(s) \/ MarkSkipped(s) \/ MarkDead(s) \/ MarkFailed(s)
        PROVE  QueueInv'
    BY <1>1, <1>7, WriteBackStep DEF MarkCompleted, MarkSkipped, MarkDead, MarkFailed, Statuses
  <1>8. ASSUME NEW t \in touches, TouchProgress(t) PROVE QueueInv'
    BY <1>1, <1>8, TouchProgressStep
  <1>9. ASSUME NEW t \in touches, TouchFails(t) PROVE QueueInv'
    BY <1>1, <1>9 DEF QueueInv, TouchFails, Working, Fence, LeaseFloor
  <1>10. CASE Tick
    BY <1>1, <1>10, TickStep
  <1>11. CASE UNCHANGED vars
    BY <1>1, <1>11 DEF QueueInv, vars, Working, Fence, LeaseFloor
  <1>12. QED
    BY <1>2, <1>3, <1>4, <1>5, <1>6, <1>7, <1>8, <1>9, <1>10, <1>11
       DEF CliNext, Common, Discovery, Executor

\* The inductive invariant of the CLI's queue.
THEOREM CliQueueInv == CliSpec => []QueueInv
  BY QueueInvInit, QueueInvStep, PTL DEF CliSpec

\* On the CLI's host a slot that passes the fence of a row is the one that
\* claimed it last.
THEOREM CliTokenNamesHolder == CliSpec => []TokenNamesHolder
  <1>1. QueueInv => TokenNamesHolder
    BY DEF QueueInv, TokenNamesHolder, Fence
  <1>2. QED  BY <1>1, CliQueueInv, PTL

\* On the CLI's host no late progress write shortens the lease of a later claim.
THEOREM CliLeaseFloor == CliSpec => []LeaseFloor
  <1>1. QueueInv => LeaseFloor
    BY DEF QueueInv
  <1>2. QED  BY <1>1, CliQueueInv, PTL

-----------------------------------------------------------------------------
\* Only the slot of a row's latest claim takes the row out of "running".
LEMMA ConcludeStep ==
  ASSUME QueueInv, [CliNext]_vars, NEW a \in Assets,
         row[a].status = "running", row'[a].status # "running"
  PROVE  \E s \in Slots : /\ s = holder[a]
                          /\ Working(s) /\ slot[s].asset = a
                          /\ slot'[s] = Idle
  <1> DEFINE Goal == \E s \in Slots : /\ s = holder[a]
                                      /\ Working(s) /\ slot[s].asset = a
                                      /\ slot'[s] = Idle
  <1>1. TypeOK /\ row[a] \in Rows
    BY DEF QueueInv, TypeOK
  <1>2. ASSUME NEW s \in Slots, NEW status, NEW wait, WriteBack(s, status, wait) PROVE Goal
    <2>1. slot[s].asset \in Assets /\ Working(s)
      BY <1>1, <1>2, SlotFields DEF WriteBack
    <2>2. Fence(slot[s].asset, slot[s].claimed)
      BY <1>2 DEF WriteBack
    <2>3. slot[s].asset = a
      BY <1>1, <1>2, <2>1, <2>2 DEF WriteBack, TypeOK
    <2>4. holder[a] = s
      BY <2>1, <2>2, <2>3 DEF QueueInv, Fence
    <2>5. slot'[s] = Idle
      BY <1>1, <1>2 DEF WriteBack, TypeOK
    <2>6. QED  BY <2>1, <2>3, <2>4, <2>5
  <1>3. ASSUME NEW b \in Assets, UpsertAsset(b) PROVE FALSE
    BY <1>1, <1>3 DEF UpsertAsset, TypeOK
  <1>4. ASSUME NEW m \in Meetings, NEW ty \in Types, MarkSkippedByKey(m, ty) PROVE FALSE
    BY <1>4 DEF MarkSkippedByKey, BulkUpdate
  <1>5. ~ResetFailed
    BY DEF ResetFailed, BulkUpdate
  <1>6. ASSUME NEW s \in Slots,
               StartSlot(s) \/ ClaimNone(s) \/ Crash(s) \/ SendTouch(s)
        PROVE  FALSE
    BY <1>6 DEF StartSlot, ClaimNone, Crash, SendTouch
  <1>7. ASSUME NEW s \in Slots, ClaimNext(s) PROVE FALSE
    BY <1>1, <1>7 DEF ClaimNext, Take, TypeOK
  <1>8. ASSUME NEW s \in Slots, MarkCompleted(s) \/ MarkSkipped(s) \/ MarkDead(s) \/ MarkFailed(s)
        PROVE  Goal
    BY <1>2, <1>8 DEF MarkCompleted, MarkSkipped, MarkDead, MarkFailed
  <1>9. ASSUME NEW t \in touches, TouchProgress(t) PROVE FALSE
    BY <1>1, <1>9, TouchRow
  <1>10. ASSUME NEW t \in touches, TouchFails(t) PROVE FALSE
    BY <1>10 DEF TouchFails
  <1>11. ~Tick
    BY <1>1, TickRow
  <1>12. ~UNCHANGED vars
    BY DEF vars
  <1>13. QED
    BY <1>3, <1>4, <1>5, <1>6, <1>7, <1>8, <1>9, <1>10, <1>11, <1>12
       DEF CliNext, Common, Discovery, Executor

\* On the CLI's host only the latest claim of a running row ends its download.
THEOREM CliOnlyHolderConcludes == CliSpec => OnlyHolderConcludes
  <1>1. QueueInv /\ [CliNext]_vars
          => [\A a \in Assets :
                row[a].status = "running" /\ row'[a].status # "running"
                  => \E s \in Slots : /\ s = holder[a]
                                      /\ Working(s) /\ slot[s].asset = a
                                      /\ slot'[s] = Idle]_vars
    BY ConcludeStep
  <1>2. QED  BY <1>1, CliQueueInv, PTL DEF CliSpec, OnlyHolderConcludes

-----------------------------------------------------------------------------
(***************************************************************************)
(* The server's host.  Its console resets attempts, so tokens may repeat   *)
(* and QueueInv does not hold; what the rows alone promise still does.     *)
(***************************************************************************)
\* A finished row holds no lease: without it the passing of time would count
\* as a change of the row.
DoneRests == \A a \in Assets : row[a].status = "completed" => row[a].wait = Expired

GatewayInv == TypeOK /\ VerdictMatchesBudget /\ DoneRests

\* What one step of the server may do to one row.
RowStep(a) ==
  \/ row'[a] = row[a]
  \/ row[a].status # "completed" /\ row'[a].status \in {"pending", "running", "skipped"}
  \/ /\ row[a].status = "running" /\ row'[a].status = "completed" /\ row'[a].wait = Expired
  \/ /\ row[a].status = "running" /\ row'[a].status = "dead"
     /\ row'[a].attempts >= MaxAttempts
  \/ /\ row[a].status = "running" /\ row'[a].status = "failed"
     /\ row'[a].attempts < MaxAttempts
  \/ /\ row[a].status \notin {"completed", "running"} /\ row'[a].status = row[a].status
     /\ row'[a].attempts = row[a].attempts

\* What any step on the server's host may do to one row.
LEMMA GatewayRowStep ==
  ASSUME GatewayInv, [GatewayNext]_vars, NEW a \in Assets
  PROVE  RowStep(a)
  <1>1. TypeOK /\ row[a] \in Rows
    BY DEF GatewayInv, TypeOK
  <1>2. ASSUME NEW s \in Slots, NEW status, NEW wait, WriteBack(s, status, wait)
        PROVE  \/ row'[a] = row[a]
               \/ /\ row[a].status = "running" /\ row[a].attempts = slot[s].claimed
                  /\ row'[a] = [status |-> status, attempts |-> row[a].attempts, wait |-> wait]
    <2>1. slot[s].asset \in Assets
      BY <1>1, <1>2, SlotFields DEF WriteBack
    <2>2. CASE Fence(slot[s].asset, slot[s].claimed)
      <3>1. row' = [row EXCEPT ![slot[s].asset] =
                      [status |-> status, attempts |-> row[slot[s].asset].attempts,
                       wait |-> wait]]
        BY <1>2, <2>2 DEF WriteBack
      <3>2. QED  BY <1>1, <2>1, <2>2, <3>1 DEF TypeOK, Fence
    <2>3. CASE ~Fence(slot[s].asset, slot[s].claimed)
      BY <1>2, <2>3 DEF WriteBack
    <2>4. QED  BY <2>2, <2>3
  <1>3. ASSUME NEW s \in Slots, MarkCompleted(s) PROVE RowStep(a)
    <2>1. WriteBack(s, "completed", Expired)
      BY <1>3 DEF MarkCompleted
    <2>2. \/ row'[a] = row[a]
          \/ /\ row[a].status = "running" /\ row[a].attempts = slot[s].claimed
             /\ row'[a] = [status |-> "completed", attempts |-> row[a].attempts, wait |-> Expired]
      BY <1>2, <2>1
    <2>3. QED  BY <2>1, <2>2 DEF RowStep
  <1>3b. ASSUME NEW s \in Slots, MarkSkipped(s) PROVE RowStep(a)
    <2>1. WriteBack(s, "skipped", Expired)
      BY <1>3b DEF MarkSkipped
    <2>2. \/ row'[a] = row[a]
          \/ /\ row[a].status = "running" /\ row[a].attempts = slot[s].claimed
             /\ row'[a] = [status |-> "skipped", attempts |-> row[a].attempts, wait |-> Expired]
      BY <1>2, <2>1
    <2>3. QED  BY <2>1, <2>2 DEF RowStep
  <1>4. ASSUME NEW s \in Slots, MarkDead(s) PROVE RowStep(a)
    <2>1. WriteBack(s, "dead", Expired) /\ slot[s].claimed >= MaxAttempts
      BY <1>4 DEF MarkDead
    <2>2. \/ row'[a] = row[a]
          \/ /\ row[a].status = "running" /\ row[a].attempts = slot[s].claimed
             /\ row'[a] = [status |-> "dead", attempts |-> row[a].attempts, wait |-> Expired]
      BY <1>2, <2>1
    <2>3. QED  BY <2>1, <2>2 DEF RowStep
  <1>5. ASSUME NEW s \in Slots, MarkFailed(s) PROVE RowStep(a)
    <2>1. slot[s].claimed < MaxAttempts
      BY <1>5, QueueAssumption DEF MarkFailed
    <2>2. WriteBack(s, "failed", Backoff[slot[s].claimed])
      BY <1>5 DEF MarkFailed
    <2>3. \/ row'[a] = row[a]
          \/ /\ row[a].status = "running" /\ row[a].attempts = slot[s].claimed
             /\ row'[a] = [status |-> "failed", attempts |-> row[a].attempts,
                           wait |-> Backoff[slot[s].claimed]]
      BY <1>2, <2>2
    <2>4. QED  BY <2>1, <2>3 DEF RowStep
  <1>6. ASSUME NEW b \in Assets, UpsertAsset(b) PROVE RowStep(a)
    BY <1>1, <1>6 DEF UpsertAsset, TypeOK, Rows, RowStep
  <1>7. ASSUME NEW m \in Meetings, NEW ty \in Types, MarkSkippedByKey(m, ty) PROVE RowStep(a)
    BY <1>7 DEF MarkSkippedByKey, BulkUpdate, RowStep
  <1>8. ASSUME NEW m \in Meetings, RetryMeetingAssets(m) \/ IgnoreDeadAssets(m) PROVE RowStep(a)
    BY <1>8 DEF RetryMeetingAssets, IgnoreDeadAssets, BulkUpdate, RowStep
  <1>9. ASSUME NEW s \in Slots,
               StartSlot(s) \/ ClaimNone(s) \/ ClaimNoneUnlocked(s) \/ Crash(s) \/ SendTouch(s)
        PROVE  RowStep(a)
    BY <1>9 DEF StartSlot, ClaimNone, ClaimNoneUnlocked, Crash, SendTouch, RowStep
  <1>10. ASSUME NEW s \in Slots, ClaimNext(s) \/ ClaimNextUnlocked(s) PROVE RowStep(a)
    <2>1. PICK b \in Claimable : Take(s, b)
      BY <1>10 DEF ClaimNext, ClaimNextUnlocked
    <2>2. QED  BY <1>1, <2>1 DEF Take, Claimable, TypeOK, RowStep
  <1>11. ASSUME NEW t \in touches, TouchProgress(t) PROVE RowStep(a)
    BY <1>1, <1>11, TouchRow DEF Fence, RowStep
  <1>12. ASSUME NEW t \in touches, TouchFails(t) PROVE RowStep(a)
    BY <1>12 DEF TouchFails, RowStep
  <1>13. CASE Tick
    <2>1. CASE row[a].status = "completed"
      <3>1. row[a].wait = Expired
        BY <2>1 DEF GatewayInv, DoneRests
      <3>2. row'[a] = [row[a] EXCEPT !.wait = Expired]
        BY <1>13, <3>1 DEF Tick
      <3>3. QED  BY <1>1, <3>1, <3>2 DEF Rows, RowStep
    <2>2. CASE row[a].status # "completed"
      BY <1>1, <1>13, <2>2, TickRow DEF RowStep
    <2>3. QED  BY <2>1, <2>2
  <1>14. CASE UNCHANGED vars
    BY <1>14 DEF vars, RowStep
  <1>15. QED
    BY <1>3, <1>3b, <1>4, <1>5, <1>6, <1>7, <1>8, <1>9, <1>10, <1>11, <1>12, <1>13,
       <1>14
       DEF GatewayNext, Common, Discovery, Executor

\* The budget invariant of the server's host is inductive.
LEMMA GatewayInvStep == GatewayInv /\ [GatewayNext]_vars => GatewayInv'
  <1> SUFFICES ASSUME GatewayInv, [GatewayNext]_vars PROVE GatewayInv'
    OBVIOUS
  <1>1. TypeOK /\ TypeOK'
    BY TypeStep DEF GatewayInv
  <1>2. VerdictMatchesBudget' /\ DoneRests'
    BY GatewayRowStep DEF GatewayInv, VerdictMatchesBudget, DoneRests, RowStep
  <1>3. QED  BY <1>1, <1>2 DEF GatewayInv

\* The budget invariant holds in every reachable state of the server's queue.
LEMMA GatewayInvHolds == GatewaySpec => []GatewayInv
  <1>1. Init => GatewayInv
    BY TypeInit DEF Init, GatewayInv, VerdictMatchesBudget, DoneRests
  <1>2. QED  BY <1>1, GatewayInvStep, PTL DEF GatewaySpec

\* On the server a row is given up only after its last attempt, and never left
\* waiting for a retry once it has had them all.
THEOREM GatewayVerdictMatchesBudget == GatewaySpec => []VerdictMatchesBudget
  <1>1. GatewayInv => VerdictMatchesBudget
    BY DEF GatewayInv
  <1>2. QED  BY <1>1, GatewayInvHolds, PTL

\* On the server a finished download is never reopened or overwritten.
THEOREM GatewayCompletedIsFinal == GatewaySpec => CompletedIsFinal
  <1>1. GatewayInv /\ [GatewayNext]_vars
          => [\A a \in Assets : row[a].status = "completed" => row'[a] = row[a]]_vars
    BY GatewayRowStep DEF RowStep
  <1>2. QED  BY <1>1, GatewayInvHolds, PTL DEF GatewaySpec, CompletedIsFinal

-----------------------------------------------------------------------------
(***************************************************************************)
(* The queue of the CLI's host implements AssetLifecycle.  The refinement  *)
(* mapping forgets leases, progress writes and tokens; QueueInv supplies   *)
(* what it forgets: a write-back that passes the fence is the owner's.     *)
(***************************************************************************)
\* The phases of the six statuses.
LEMMA Phases ==
  /\ PhaseOf("absent") = "absent" /\ PhaseOf("pending") = "open" /\ PhaseOf("failed") = "open"
  /\ PhaseOf("running") = "held" /\ PhaseOf("completed") = "done"
  /\ PhaseOf("skipped") = "dropped" /\ PhaseOf("dead") = "given_up"
  BY DEF PhaseOf

\* Every row is in a phase of the life cycle.
LEMMA PhaseType ==
  ASSUME NEW st \in Statuses
  PROVE  PhaseOf(st) \in {"absent", "open", "held", "done", "dropped", "given_up"}
  BY Phases DEF Statuses

OwnerOf(a) == IF row[a].status = "running" THEN holder[a] ELSE Nobody

\* What the life cycle sees of a row stays.
RowLooksSame(a) ==
  /\ PhaseOf(row'[a].status) = PhaseOf(row[a].status)
  /\ OwnerOf(a)' = OwnerOf(a)
  /\ row'[a].attempts = row[a].attempts

\* A step the life cycle does not see.
LEMMA LifeStutters ==
  ASSUME \A a \in Assets : RowLooksSame(a), \A s \in Slots : slot'[s].asset = slot[s].asset
  PROVE  UNCHANGED Life!lifeVars
  <1>1. /\ \A a \in Assets : PhaseOf(row'[a].status) = PhaseOf(row[a].status)
        /\ \A a \in Assets : row'[a].attempts = row[a].attempts
        /\ \A a \in Assets : OwnerOf(a)' = OwnerOf(a)
    BY DEF RowLooksSame
  <1>2. [a \in Assets |-> PhaseOf(row'[a].status)] = [a \in Assets |-> PhaseOf(row[a].status)]
    BY <1>1
  <1>3. [a \in Assets |-> row'[a].attempts] = [a \in Assets |-> row[a].attempts]
    BY <1>1
  <1>4. [a \in Assets |-> OwnerOf(a)'] = [a \in Assets |-> OwnerOf(a)]
    BY <1>1
  <1>5. [s \in Slots |-> slot'[s].asset] = [s \in Slots |-> slot[s].asset]
    OBVIOUS
  <1>6. QED  BY <1>2, <1>3, <1>4, <1>5 DEF Life!lifeVars, OwnerOf

\* A slot that starts, ends, dies or finds its row taken over walks away.
LEMMA LifeWalksAway ==
  ASSUME TypeOK, NEW s \in Slots, \A a \in Assets : RowLooksSame(a),
         NEW x, x.asset = NoAsset, slot' = [slot EXCEPT ![s] = x]
  PROVE  Life!WalkAway(s)
  <1>1. /\ \A a \in Assets : PhaseOf(row'[a].status) = PhaseOf(row[a].status)
        /\ \A a \in Assets : row'[a].attempts = row[a].attempts
        /\ \A a \in Assets : OwnerOf(a)' = OwnerOf(a)
    BY DEF RowLooksSame
  <1>2. [a \in Assets |-> PhaseOf(row'[a].status)] = [a \in Assets |-> PhaseOf(row[a].status)]
    BY <1>1
  <1>3. [a \in Assets |-> row'[a].attempts] = [a \in Assets |-> row[a].attempts]
    BY <1>1
  <1>4. [a \in Assets |-> OwnerOf(a)'] = [a \in Assets |-> OwnerOf(a)]
    BY <1>1
  <1>5. slot'[s].asset = NoAsset /\ \A u \in Slots : u # s => slot'[u] = slot[u]
    BY DEF TypeOK
  <1>6. [u \in Slots |-> slot'[u].asset]
          = [[u \in Slots |-> slot[u].asset] EXCEPT ![s] = NoAsset]
    <2>1. \A u \in Slots : u # s => slot'[u].asset = slot[u].asset
      BY <1>5
    <2>2. slot'[s].asset = NoAsset
      BY <1>5
    <2>3. QED  BY Zenon, <2>1, <2>2
  <1>7. QED  BY <1>2, <1>3, <1>4, <1>6 DEF Life!WalkAway, OwnerOf

\* Rows that are neither held nor done, before or after, may be regrouped.
LEMMA LifeRegroups ==
  ASSUME TypeOK, TypeOK', UNCHANGED <<slot, holder>>,
         \A a \in Assets :
           \/ RowLooksSame(a)
           \/ /\ row'[a].attempts = row[a].attempts
              /\ \/ row[a].status = "absent" /\ row'[a].status = "pending"
                 \/ /\ row[a].status \in {"pending", "failed", "dead"}
                    /\ row'[a].status \in {"pending", "skipped"}
  PROVE  Life!Regroup
  <1>1. \A a \in Assets : row'[a].attempts = row[a].attempts /\ OwnerOf(a)' = OwnerOf(a)
    BY DEF RowLooksSame, OwnerOf
  <1>2. ASSUME NEW a \in Assets
        PROVE  LET p == PhaseOf(row[a].status)
                   q == PhaseOf(row'[a].status)
               IN \/ q = p
                  \/ p = "absent" /\ q = "open"
                  \/ p \in {"open", "given_up"} /\ q \in {"open", "dropped"}
    BY Phases DEF RowLooksSame
  <1>3. [a \in Assets |-> row'[a].attempts] = [a \in Assets |-> row[a].attempts]
    BY <1>1
  <1>4. [a \in Assets |-> OwnerOf(a)'] = [a \in Assets |-> OwnerOf(a)]
    BY <1>1
  <1>5. [a \in Assets |-> PhaseOf(row'[a].status)] \in [Assets -> Life!Phases]
    <2>1. \A a \in Assets : row'[a].status \in Statuses
      BY DEF TypeOK, Rows
    <2>2. QED  BY <2>1, PhaseType DEF Life!Phases
  <1>6. QED  BY <1>2, <1>3, <1>4, <1>5 DEF Life!Regroup, OwnerOf

\* A bulk statement that keeps attempts regroups rows.
LEMMA BulkRegroups ==
  ASSUME TypeOK, TypeOK', UNCHANGED <<slot, holder>>, NEW S, NEW From, NEW status,
         \/ status = "skipped" /\ From = {"pending", "failed", "skipped", "dead"}
         \/ status = "pending" /\ From = {"failed", "dead"},
         BulkUpdate(S, From, status, TRUE)
  PROVE  Life!Regroup
  <1>1. ASSUME NEW a \in Assets
        PROVE  \/ RowLooksSame(a)
               \/ /\ row'[a].attempts = row[a].attempts
                  /\ \/ row[a].status = "absent" /\ row'[a].status = "pending"
                     \/ /\ row[a].status \in {"pending", "failed", "dead"}
                        /\ row'[a].status \in {"pending", "skipped"}
    <2>1. CASE a \in S /\ row[a].status \in From
      <3>1. row'[a] = [status |-> status, attempts |-> row[a].attempts, wait |-> Expired]
        BY <2>1 DEF BulkUpdate
      <3>2. row'[a].status = status /\ row'[a].attempts = row[a].attempts
        BY <3>1
      <3>3. QED  BY <2>1, <3>2 DEF RowLooksSame, OwnerOf
    <2>2. CASE ~(a \in S /\ row[a].status \in From)
      BY <2>2 DEF BulkUpdate, RowLooksSame, OwnerOf
    <2>3. QED  BY <2>1, <2>2
  <1>2. QED  BY <1>1, LifeRegroups

\* A claim is the taking of the row.
LEMMA LifeTakes ==
  ASSUME TypeOK, NEW s \in Slots, NEW a \in Claimable, slot[s].pc = "idle", Take(s, a)
  PROVE  Life!Take(s, a)
  <1>1. a \in Assets /\ PhaseOf(row[a].status) \in {"open", "held"}
    BY Phases DEF Claimable
  <1>2. slot[s].asset = NoAsset
    BY DEF TypeOK, SlotStates, Idle, Off
  <1>3. /\ row'[a].status = "running" /\ row'[a].attempts = row[a].attempts + 1
        /\ slot'[s].asset = a /\ holder'[a] = s
    BY <1>1 DEF Take, TypeOK
  <1>4. /\ \A b \in Assets : b # a => row'[b] = row[b] /\ holder'[b] = holder[b]
        /\ \A u \in Slots : u # s => slot'[u] = slot[u]
    BY <1>1 DEF Take, TypeOK
  <1>5. [b \in Assets |-> PhaseOf(row'[b].status)]
          = [[b \in Assets |-> PhaseOf(row[b].status)] EXCEPT ![a] = "held"]
    <2>1. PhaseOf(row'[a].status) = "held"
      BY <1>3, Phases
    <2>2. \A b \in Assets : b # a => PhaseOf(row'[b].status) = PhaseOf(row[b].status)
      BY <1>4
    <2>3. QED  BY Zenon, <1>1, <2>1, <2>2
  <1>6. [b \in Assets |-> row'[b].attempts]
          = [[b \in Assets |-> row[b].attempts] EXCEPT ![a] = row[a].attempts + 1]
    BY <1>1, <1>3, <1>4
  <1>7. [b \in Assets |-> OwnerOf(b)'] = [[b \in Assets |-> OwnerOf(b)] EXCEPT ![a] = s]
    <2>1. OwnerOf(a)' = s /\ \A b \in Assets : b # a => OwnerOf(b)' = OwnerOf(b)
      BY <1>1, <1>3, <1>4 DEF OwnerOf
    <2>2. QED  BY <1>1, <2>1
  <1>8. [u \in Slots |-> slot'[u].asset] = [[u \in Slots |-> slot[u].asset] EXCEPT ![s] = a]
    BY <1>3, <1>4
  <1>9. QED  BY <1>1, <1>2, <1>5, <1>6, <1>7, <1>8 DEF Life!Take, OwnerOf

\* A write-back is the owner's verdict, or finds the row taken over.
LEMMA LifeConcludes ==
  ASSUME QueueInv, NEW s \in Slots, NEW status \in {"completed", "skipped", "dead", "failed"}, NEW wait,
         WriteBack(s, status, wait),
         status = "dead" => slot[s].claimed >= MaxAttempts,
         status = "failed" => slot[s].claimed < MaxAttempts
  PROVE  Life!WalkAway(s) \/ \E a \in Assets : Life!Conclude(s, a)
  <1>1. PICK a \in Assets : a = slot[s].asset
    BY SlotFields DEF QueueInv, WriteBack
  <1>0. TypeOK /\ Working(s) /\ slot' = [slot EXCEPT ![s] = Idle] /\ Idle.asset = NoAsset
    BY DEF QueueInv, WriteBack, Idle
  <1>2. CASE ~Fence(slot[s].asset, slot[s].claimed)
    <2>1. UNCHANGED <<row, holder>>
      BY <1>2 DEF WriteBack
    <2>2. \A b \in Assets : RowLooksSame(b)
      BY <2>1 DEF RowLooksSame, OwnerOf
    <2>3. QED  BY <1>0, <2>2, LifeWalksAway
  <1>3. CASE Fence(slot[s].asset, slot[s].claimed)
    <2>1. /\ row[a].status = "running" /\ row[a].attempts = slot[s].claimed
          /\ holder[a] = s
      BY <1>0, <1>1, <1>3 DEF Fence, QueueInv
    <2>2. row' = [row EXCEPT ![a] = [status |-> status, attempts |-> row[a].attempts, wait |-> wait]]
            /\ holder' = holder
      BY <1>1, <1>3 DEF WriteBack
    <2>3. /\ row'[a].status = status /\ row'[a].attempts = row[a].attempts
          /\ \A b \in Assets : b # a => row'[b] = row[b]
      BY <2>2 DEF QueueInv, TypeOK
    <2>4. /\ slot'[s].asset = NoAsset /\ \A u \in Slots : u # s => slot'[u] = slot[u]
      BY <1>0 DEF TypeOK
    <2>5. /\ PhaseOf(status) \in {"open", "done", "dropped", "given_up"}
          /\ PhaseOf(status) = "open" => row[a].attempts < MaxAttempts
          /\ PhaseOf(status) = "given_up" => row[a].attempts >= MaxAttempts
      BY <2>1, Phases
    <2>6. [b \in Assets |-> PhaseOf(row'[b].status)]
            = [[b \in Assets |-> PhaseOf(row[b].status)] EXCEPT ![a] = PhaseOf(status)]
      BY <2>3
    <2>7. [b \in Assets |-> row'[b].attempts] = [b \in Assets |-> row[b].attempts]
      BY <2>3
    <2>8. [b \in Assets |-> OwnerOf(b)'] = [[b \in Assets |-> OwnerOf(b)] EXCEPT ![a] = Nobody]
      <3>1. OwnerOf(a)' = Nobody /\ \A b \in Assets : b # a => OwnerOf(b)' = OwnerOf(b)
        BY <2>2, <2>3 DEF OwnerOf
      <3>2. QED  BY <3>1
    <2>9. [u \in Slots |-> slot'[u].asset]
            = [[u \in Slots |-> slot[u].asset] EXCEPT ![s] = NoAsset]
      BY <2>4
    <2>10. OwnerOf(a) = s
      BY <2>1 DEF OwnerOf
    <2>11. Life!Conclude(s, a)
      BY <1>1, <2>5, <2>6, <2>7, <2>8, <2>9, <2>10 DEF Life!Conclude, OwnerOf
    <2>12. QED  BY <2>11
  <1>4. QED  BY <1>2, <1>3

\* Every step of the CLI's queue is a step of the life cycle or one it does not see.
LEMMA LifeStep ==
  ASSUME QueueInv, [CliNext]_vars
  PROVE  [Life!LifeNext]_(Life!lifeVars)
  <1>0. TypeOK /\ TypeOK'
    BY TypeStep DEF QueueInv
  <1>1. ASSUME NEW a \in Assets, UpsertAsset(a) PROVE Life!Regroup
    <2>1. row[a] \in Rows
      BY <1>0 DEF TypeOK
    <2>2. \A b \in Assets :
            \/ RowLooksSame(b)
            \/ /\ row'[b].attempts = row[b].attempts
               /\ row[b].status = "absent" /\ row'[b].status = "pending"
      BY <1>0, <1>1, <2>1 DEF UpsertAsset, TypeOK, Rows, RowLooksSame, OwnerOf
    <2>3. QED  BY <1>0, <1>1, <2>2, LifeRegroups DEF UpsertAsset
  <1>2. ASSUME NEW m \in Meetings, NEW ty \in Types, MarkSkippedByKey(m, ty) PROVE Life!Regroup
    BY <1>0, <1>2, BulkRegroups DEF MarkSkippedByKey
  <1>3. CASE ResetFailed
    <2>1. BulkUpdate(Assets, {"failed", "dead"}, "pending", TRUE) /\ UNCHANGED <<slot, holder>>
      BY <1>3 DEF ResetFailed
    <2>2. Life!Regroup
      BY <1>0, <2>1, BulkRegroups
    <2>3. QED  BY <2>2 DEF Life!LifeNext
  <1>4. ASSUME UNCHANGED <<row, holder>> PROVE \A a \in Assets : RowLooksSame(a)
    BY <1>4 DEF RowLooksSame, OwnerOf
  <1>5. ASSUME NEW s \in Slots, StartSlot(s) \/ ClaimNone(s) \/ Crash(s) PROVE Life!WalkAway(s)
    <2>1. UNCHANGED <<row, holder>> /\ \E x \in {Idle, Off} : slot' = [slot EXCEPT ![s] = x]
      BY <1>5 DEF StartSlot, ClaimNone, Crash
    <2>2. Idle.asset = NoAsset /\ Off.asset = NoAsset
      BY DEF Idle, Off
    <2>3. QED  BY <1>0, <1>4, <2>1, <2>2, LifeWalksAway
  <1>6. ASSUME NEW s \in Slots, SendTouch(s) PROVE UNCHANGED Life!lifeVars
    BY <1>4, <1>6, LifeStutters DEF SendTouch
  <1>7. ASSUME NEW s \in Slots, ClaimNext(s) PROVE \E a \in Assets : Life!Take(s, a)
    <2>1. PICK a \in Claimable : slot[s].pc = "idle" /\ Take(s, a)
      BY <1>7 DEF ClaimNext
    <2>2. a \in Assets
      BY DEF Claimable
    <2>3. QED  BY <1>0, <2>1, <2>2, LifeTakes
  <1>8. ASSUME NEW s \in Slots, MarkCompleted(s) \/ MarkSkipped(s) \/ MarkDead(s) \/ MarkFailed(s)
        PROVE  Life!WalkAway(s) \/ \E a \in Assets : Life!Conclude(s, a)
    <2>1. \E status \in {"completed", "skipped", "dead", "failed"} : \E wait :
            /\ WriteBack(s, status, wait)
            /\ status = "dead" => slot[s].claimed >= MaxAttempts
            /\ status = "failed" => slot[s].claimed \in 1..(MaxAttempts - 1)
      BY <1>8 DEF MarkCompleted, MarkSkipped, MarkDead, MarkFailed
    <2>2. \A n \in 1..(MaxAttempts - 1) : n < MaxAttempts
      BY QueueAssumption
    <2>3. QED  BY <2>1, <2>2, LifeConcludes
  <1>9. ASSUME NEW t \in touches, TouchProgress(t) PROVE UNCHANGED Life!lifeVars
    <2>1. \A a \in Assets : row'[a].status = row[a].status /\ row'[a].attempts = row[a].attempts
      BY <1>0, <1>9, TouchRow
    <2>2. UNCHANGED <<slot, holder>>
      BY <1>9 DEF TouchProgress
    <2>3. \A a \in Assets : RowLooksSame(a)
      BY <2>1, <2>2 DEF RowLooksSame, OwnerOf
    <2>4. QED  BY <2>2, <2>3, LifeStutters
  <1>10. ASSUME NEW t \in touches, TouchFails(t) PROVE UNCHANGED Life!lifeVars
    BY <1>4, <1>10, LifeStutters DEF TouchFails
  <1>11. CASE Tick
    <2>1. \A a \in Assets : row'[a].status = row[a].status /\ row'[a].attempts = row[a].attempts
      BY <1>0, <1>11, TickRow
    <2>2. UNCHANGED <<slot, holder>>
      BY <1>11 DEF Tick
    <2>3. \A a \in Assets : RowLooksSame(a)
      BY <2>1, <2>2 DEF RowLooksSame, OwnerOf
    <2>4. QED  BY <2>2, <2>3, LifeStutters
  <1>12. CASE UNCHANGED vars
    BY <1>4, <1>12, LifeStutters DEF vars
  <1>13. QED
    BY <1>1, <1>2, <1>3, <1>5, <1>6, <1>7, <1>8, <1>9, <1>10, <1>11, <1>12
       DEF CliNext, Common, Discovery, Executor, Life!LifeNext

\* An empty table is an empty life cycle.
LEMMA LifeStarts == Init => Life!LifeInit
  <1> SUFFICES ASSUME Init PROVE Life!LifeInit
    OBVIOUS
  <1>1. [a \in Assets |-> PhaseOf(row[a].status)] = [a \in Assets |-> "absent"]
    BY Phases DEF Init
  <1>2. QED  BY <1>1 DEF Init, Off, Life!LifeInit

\* The queue of the CLI's host implements the life cycle: a held row has one owner, ownership
\* moves only by a takeover, a verdict comes only from the owner and within its budget.
THEOREM CliImplementsLifecycle == CliSpec => ImplementsLifecycle
  <1>1. QueueInv /\ [CliNext]_vars => [Life!LifeNext]_(Life!lifeVars)
    BY LifeStep
  <1>2. QED  BY <1>1, LifeStarts, CliQueueInv, PTL DEF CliSpec, ImplementsLifecycle, Life!LifeSpec

-----------------------------------------------------------------------------
(***************************************************************************)
(* The backoff, on either host: what is left of a failed row's wait and    *)
(* the time since its failure make up the backoff of its attempts.         *)
(***************************************************************************)
BackoffRuns(a) ==
  row[a].status = "failed" =>
    /\ row[a].attempts \in 1..(MaxAttempts - 1)
    /\ \/ row[a].wait + since[a] >= Backoff[row[a].attempts]
       \/ since[a] > Backoff[row[a].attempts]

BackoffInv == TypeOK /\ \A a \in Assets : BackoffRuns(a)

\* What one step may do to a row, as far as failing and waiting go.
FailStep(a) ==
  \/ row'[a].status \notin {"failed", "running"}
  \/ row'[a].status = "running" /\ (row[a].status = "failed" => row[a].wait = Expired)
  \/ row'[a] = row[a] /\ since'[a] = since[a]
  \/ /\ row'[a].status = "failed" /\ row'[a].attempts \in 1..(MaxAttempts - 1)
     /\ row'[a].wait = Backoff[row'[a].attempts] /\ since'[a] = 0
  \/ /\ row'[a].status = row[a].status /\ row'[a].attempts = row[a].attempts
     /\ row'[a].wait = IF row[a].wait = Expired THEN Expired ELSE row[a].wait - 1
     /\ since'[a] = Older(since[a])

\* What any step on either host may do to one row.
LEMMA EveryFailStep ==
  ASSUME TypeOK, [CliNext \/ GatewayNext]_vars, NEW a \in Assets
  PROVE  FailStep(a)
  <1>1. row[a] \in Rows
    BY DEF TypeOK
  <1>2. ASSUME NEW s \in Slots, NEW status, NEW wait, WriteBack(s, status, wait),
               \/ status \notin {"failed", "running"}
               \/ /\ status = "failed" /\ slot[s].claimed \in 1..(MaxAttempts - 1)
                  /\ wait = Backoff[slot[s].claimed]
        PROVE  FailStep(a)
    <2>1. PICK b \in Assets : b = slot[s].asset
      BY <1>2, SlotFields DEF WriteBack
    <2>2. CASE Fence(b, slot[s].claimed) /\ a = b
      <3>1. /\ row' = [row EXCEPT ![b] = [status |-> status, attempts |-> row[b].attempts,
                                          wait |-> wait]]
            /\ since' = [since EXCEPT ![b] = 0]
        BY <1>2, <2>1, <2>2 DEF WriteBack
      <3>2. /\ row'[a].status = status /\ row'[a].attempts = row[a].attempts
            /\ row'[a].wait = wait /\ since'[a] = 0
        BY <2>2, <3>1 DEF TypeOK
      <3>3. row[a].attempts = slot[s].claimed
        BY <2>2 DEF Fence
      <3>4. QED  BY <1>2, <3>2, <3>3 DEF FailStep
    <2>3. CASE Fence(b, slot[s].claimed) /\ a # b
      <3>1. /\ row' = [row EXCEPT ![b] = [status |-> status, attempts |-> row[b].attempts,
                                          wait |-> wait]]
            /\ since' = [since EXCEPT ![b] = 0]
        BY <1>2, <2>1, <2>3 DEF WriteBack
      <3>2. row'[a] = row[a] /\ since'[a] = since[a]
        BY <2>3, <3>1 DEF TypeOK
      <3>3. QED  BY <3>2 DEF FailStep
    <2>4. CASE ~Fence(b, slot[s].claimed)
      BY <1>2, <2>1, <2>4 DEF WriteBack, FailStep
    <2>5. QED  BY <2>2, <2>3, <2>4
  <1>3. ASSUME NEW s \in Slots, MarkCompleted(s) \/ MarkSkipped(s) \/ MarkDead(s) \/ MarkFailed(s)
        PROVE  FailStep(a)
    <2>1. CASE MarkCompleted(s) \/ MarkSkipped(s) \/ MarkDead(s)
      <3>1. \E status \in {"completed", "skipped", "dead"} : WriteBack(s, status, Expired)
        BY <2>1 DEF MarkCompleted, MarkSkipped, MarkDead
      <3>2. QED  BY <1>2, <3>1
    <2>2. CASE MarkFailed(s)
      BY <1>2, <2>2 DEF MarkFailed
    <2>3. QED  BY <1>3, <2>1, <2>2
  <1>4. ASSUME NEW b \in Assets, UpsertAsset(b) PROVE FailStep(a)
    BY <1>1, <1>4 DEF UpsertAsset, TypeOK, Rows, FailStep
  <1>5. ASSUME NEW S, NEW From, NEW status, status \notin {"failed", "running"}, NEW keep,
               BulkUpdate(S, From, status, keep), UNCHANGED since
        PROVE  FailStep(a)
    <2>1. \/ row'[a] = row[a]
          \/ row'[a] = [status |-> status,
                        attempts |-> IF keep THEN row[a].attempts ELSE 0, wait |-> Expired]
      BY <1>5 DEF BulkUpdate
    <2>2. row'[a] = row[a] \/ row'[a].status = status
      BY <2>1
    <2>3. QED  BY <1>5, <2>2 DEF FailStep
  <1>6. ASSUME NEW m \in Meetings, NEW ty \in Types, MarkSkippedByKey(m, ty) PROVE FailStep(a)
    BY <1>5, <1>6 DEF MarkSkippedByKey
  <1>7. CASE ResetFailed
    BY <1>5, <1>7 DEF ResetFailed
  <1>8. ASSUME NEW m \in Meetings, RetryMeetingAssets(m) \/ IgnoreDeadAssets(m) PROVE FailStep(a)
    BY <1>5, <1>8 DEF RetryMeetingAssets, IgnoreDeadAssets
  <1>9. ASSUME UNCHANGED <<row, since>> PROVE FailStep(a)
    BY <1>9 DEF FailStep
  <1>10. ASSUME NEW s \in Slots,
                StartSlot(s) \/ ClaimNone(s) \/ ClaimNoneUnlocked(s) \/ Crash(s) \/ SendTouch(s)
         PROVE  FailStep(a)
    BY <1>9, <1>10 DEF StartSlot, ClaimNone, ClaimNoneUnlocked, Crash, SendTouch
  <1>11. ASSUME NEW s \in Slots, ClaimNext(s) \/ ClaimNextUnlocked(s) PROVE FailStep(a)
    <2>1. PICK b \in Claimable : Take(s, b)
      BY <1>11 DEF ClaimNext, ClaimNextUnlocked
    <2>2. CASE a = b
      <3>1. row'[a].status = "running"
        BY <2>1, <2>2 DEF Take, TypeOK
      <3>2. row[a].status = "failed" => row[a].wait = Expired
        BY <2>1, <2>2 DEF Claimable
      <3>3. QED  BY <3>1, <3>2 DEF FailStep
    <2>3. CASE a # b
      <3>1. row'[a] = row[a] /\ since'[a] = since[a]
        BY <2>1, <2>3 DEF Take, TypeOK
      <3>2. QED  BY <3>1 DEF FailStep
    <2>4. QED  BY <2>2, <2>3
  <1>12. ASSUME NEW t \in touches, TouchProgress(t) PROVE FailStep(a)
    <2>1. since' = since
      BY <1>12 DEF TouchProgress
    <2>2. row'[a].status = row[a].status
            /\ (row'[a] = row[a] \/ (a = t.asset /\ Fence(t.asset, t.claimed)))
      BY <1>12, TouchRow
    <2>3. QED  BY <2>1, <2>2 DEF Fence, FailStep
  <1>13. ASSUME NEW t \in touches, TouchFails(t) PROVE FailStep(a)
    BY <1>9, <1>13 DEF TouchFails
  <1>14. CASE Tick
    BY <1>14, TickRow DEF FailStep
  <1>15. CASE UNCHANGED vars
    BY <1>9, <1>15 DEF vars
  <1>16. QED
    BY <1>3, <1>4, <1>6, <1>7, <1>8, <1>10, <1>11, <1>12, <1>13, <1>14, <1>15
       DEF CliNext, GatewayNext, Common, Discovery, Executor

\* The wait and the time since the failure keep making up the backoff.
LEMMA BackoffInvStep == BackoffInv /\ [CliNext \/ GatewayNext]_vars => BackoffInv'
  <1> SUFFICES ASSUME BackoffInv, [CliNext \/ GatewayNext]_vars PROVE BackoffInv'
    OBVIOUS
  <1>1. TypeOK /\ TypeOK'
    BY TypeStep DEF BackoffInv
  <1>2. ASSUME NEW a \in Assets PROVE BackoffRuns(a)'
    <2> SUFFICES ASSUME row'[a].status = "failed" PROVE BackoffRuns(a)'
      BY DEF BackoffRuns
    <2>1. FailStep(a) /\ BackoffRuns(a)
      BY <1>1, EveryFailStep DEF BackoffInv
    <2>2. CASE row'[a] = row[a] /\ since'[a] = since[a]
      BY <2>1, <2>2 DEF BackoffRuns
    <2>3. CASE /\ row'[a].attempts \in 1..(MaxAttempts - 1)
               /\ row'[a].wait = Backoff[row'[a].attempts] /\ since'[a] = 0
      <3>1. Backoff[row'[a].attempts] \in Nat
        BY <2>3, QueueAssumption
      <3>2. QED  BY <2>3, <3>1 DEF BackoffRuns
    <2>4. CASE /\ row'[a].status = row[a].status /\ row'[a].attempts = row[a].attempts
               /\ row'[a].wait = IF row[a].wait = Expired THEN Expired ELSE row[a].wait - 1
               /\ since'[a] = Older(since[a])
      <3>1. PICK n \in 1..(MaxAttempts - 1) : n = row[a].attempts
        BY <2>1, <2>4 DEF BackoffRuns
      <3>2. Backoff[n] \in Nat /\ AgeCap \in Nat /\ AgeCap > Backoff[n]
        BY <3>1, QueueAssumption
      <3>3. since[a] \in Nat /\ row[a].wait \in Nat \cup {Expired}
        BY <1>1 DEF TypeOK, Rows
      <3>4. row[a].wait + since[a] >= Backoff[n] \/ since[a] > Backoff[n]
        BY <2>1, <2>4, <3>1 DEF BackoffRuns
      <3>5. row'[a].wait + since'[a] >= Backoff[n] \/ since'[a] > Backoff[n]
        BY <2>4, <3>2, <3>3, <3>4 DEF Older, Expired
      <3>6. QED  BY <2>4, <3>1, <3>5 DEF BackoffRuns
    <2>5. QED  BY <2>1, <2>2, <2>3, <2>4 DEF FailStep
  <1>3. QED  BY <1>1, <1>2 DEF BackoffInv

\* A step that claims a failed row finds its backoff over.
LEMMA ClaimAfterBackoff ==
  ASSUME BackoffInv, [CliNext \/ GatewayNext]_vars, NEW a \in Assets,
         row[a].status = "failed", row'[a].status = "running"
  PROVE  since[a] > Backoff[row[a].attempts]
  <1>1. TypeOK /\ FailStep(a) /\ BackoffRuns(a)
    BY EveryFailStep DEF BackoffInv
  <1>2. row[a].wait = Expired
    BY <1>1 DEF FailStep
  <1>3. Backoff[row[a].attempts] \in Nat
    BY <1>1, QueueAssumption DEF BackoffRuns
  <1>4. since[a] \in Nat
    BY <1>1 DEF TypeOK
  <1>5. QED  BY <1>1, <1>2, <1>3, <1>4 DEF BackoffRuns, Expired

\* No row has failed at the start.
LEMMA BackoffInit == Init => BackoffInv
  BY TypeInit DEF Init, BackoffInv, BackoffRuns

\* On the CLI's host a failed row is never downloaded again before its backoff is over,
\* however claims, late write-backs and bulk statements follow each other.
THEOREM CliBackoffHonoured == CliSpec => BackoffHonoured
  <1>1. BackoffInv /\ [CliNext]_vars => BackoffInv'
    BY BackoffInvStep
  <1>2. BackoffInv /\ [CliNext]_vars =>
          [\A a \in Assets :
             row[a].status = "failed" /\ row'[a].status = "running"
               => since[a] > Backoff[row[a].attempts]]_vars
    BY ClaimAfterBackoff
  <1>3. QED  BY <1>1, <1>2, BackoffInit, PTL DEF CliSpec, BackoffHonoured

\* The same on the server, where the console resets rows and claims skip locked ones.
THEOREM GatewayBackoffHonoured == GatewaySpec => BackoffHonoured
  <1>1. BackoffInv /\ [GatewayNext]_vars => BackoffInv'
    BY BackoffInvStep
  <1>2. BackoffInv /\ [GatewayNext]_vars =>
          [\A a \in Assets :
             row[a].status = "failed" /\ row'[a].status = "running"
               => since[a] > Backoff[row[a].attempts]]_vars
    BY ClaimAfterBackoff
  <1>3. QED  BY <1>1, <1>2, BackoffInit, PTL DEF GatewaySpec, BackoffHonoured
=============================================================================
