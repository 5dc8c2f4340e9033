---------------------------- MODULE OfficeProofs ----------------------------
(***************************************************************************)
(* Proofs about two components of the gateway process that keep no state   *)
(* in common: RateLimits, for any number of callers, endpoints and login   *)
(* keys and any quota, rate and window; and RuleDesk, for any fields,      *)
(* meetings, programs, tables of rules and editors.  The last part is      *)
(* about MCConsole: what it runs is each of these and ConsoleAccounts, and *)
(* nothing else.                                                           *)
(***************************************************************************)
EXTENDS MCConsole, ConsoleAccountsProofs, FiniteSetTheorems, WellFoundedInduction, TLAPS

-----------------------------------------------------------------------------
\* A set of natural numbers has a least element.
LEMMA LeastNatural ==
  ASSUME NEW S \in SUBSET Nat, S # {}
  PROVE  \E n \in S : \A m \in S : n <= m
  <1>1. PICK n \in S : \A m \in S : ~ (<<m, n>> \in OpToRel(<, Nat))
    BY WFMin, NatLessThanWellFounded
  <1>2. \A m \in S : ~ (m < n)
    BY <1>1 DEF OpToRel
  <1>3. QED  BY <1>2

\* What is left of a sequence is its end, and what was shifted off is old.
LEMMA ShiftedIsEnd ==
  ASSUME NEW s \in Seq(Nat), NEW now \in Nat, NEW age \in Nat
  PROVE  \E n \in 0..Len(s) :
           /\ Shifted(s, now, age) \in Seq(Nat)
           /\ Len(Shifted(s, now, age)) = Len(s) - n
           /\ \A i \in 1..(Len(s) - n) : Shifted(s, now, age)[i] = s[n + i]
           /\ \A i \in 1..n : now - s[i] >= age
  <1> DEFINE First(i) == /\ \A j \in 1..(i - 1) : now - s[j] >= age
                         /\ i <= Len(s) => now - s[i] < age
  <1> DEFINE Left == {i \in 1..(Len(s) + 1) : i <= Len(s) => now - s[i] < age}
  <1>1. Len(s) \in Nat /\ \A i \in 1..Len(s) : s[i] \in Nat
    OBVIOUS
  <1>2. PICK f \in Left : \A i \in Left : f <= i
    <2>1. Len(s) + 1 \in Left /\ Left \in SUBSET Nat
      BY <1>1
    <2>2. QED  BY <2>1, LeastNatural
  <1>3. f \in 1..(Len(s) + 1) /\ First(f)
    <2>1. ASSUME NEW j \in 1..(f - 1) PROVE now - s[j] >= age
      <3>1. j \notin Left /\ j \in 1..Len(s)
        BY <1>1, <1>2
      <3>2. QED  BY <1>1, <3>1
    <2>2. QED  BY <1>2, <2>1
  <1> DEFINE first == CHOOSE i \in 1..(Len(s) + 1) : First(i)
  <1>4. first \in 1..(Len(s) + 1) /\ First(first)
    BY <1>3
  <1>5. Shifted(s, now, age) = SubSeq(s, first, Len(s))
    BY DEF Shifted
  <1> HIDE DEF first
  <1>6. /\ SubSeq(s, first, Len(s)) \in Seq(Nat)
        /\ Len(SubSeq(s, first, Len(s))) = Len(s) - first + 1
        /\ \A i \in 1..(Len(s) - first + 1) : SubSeq(s, first, Len(s))[i] = s[first + i - 1]
    BY <1>1, <1>4
  <1> DEFINE n == first - 1
             rest == SubSeq(s, first, Len(s))
  <1>7. n \in 0..Len(s) /\ first = n + 1 /\ Len(s) - first + 1 = Len(s) - n
    BY <1>1, <1>4
  <1>8. \A i \in 1..n : now - s[i] >= age
    BY <1>4
  <1>9. \A i \in 1..(Len(s) - n) : rest[i] = s[n + i]
    <2> TAKE i \in 1..(Len(s) - n)
    <2>1. i \in 1..(Len(s) - first + 1) /\ first + i - 1 = n + i
      BY <1>1, <1>7
    <2>2. QED  BY <1>6, <2>1
  <1>10. rest \in Seq(Nat) /\ Len(rest) = Len(s) - n
    BY <1>6, <1>7
  <1> HIDE DEF n, rest
  <1>11. Shifted(s, now, age) = rest
    BY <1>5 DEF rest
  <1>12. QED  BY <1>7, <1>8, <1>9, <1>10, <1>11

-----------------------------------------------------------------------------
\* A caller is idle, waiting for its quota or its token, or has sent its call.
CallersTyped ==
  caller \in [Callers -> [pc: {"idle", "quota", "bucket", "sent"}, key: Endpoints \cup {Quotaed},
                          attempt: 0..MaxAttempts, wake: Int]]

\* The queue of the quota is the end of the log, and what is no longer in it is old.
QueueIsRecent ==
  /\ granted \in Seq(Nat) /\ grantLog \in Seq(Nat)
  /\ Len(granted) <= PerWindow /\ Len(grantLog) <= PerWindow + 1
  /\ Len(granted) <= Len(grantLog)
  /\ \A i \in 1..Len(granted) : granted[i] = grantLog[Len(grantLog) - Len(granted) + i]
  /\ \A i \in 1..(Len(grantLog) - Len(granted)) : limitTime - grantLog[i] >= Window

\* A bucket's tokens and the time they were counted at.
Buckets(now) == [tokens: 0..Capacity, last: -1..now]

\* A bucket that was swept away would be full.
SweptAreFull ==
  /\ bucket \in [LoginKeys -> Buckets(limitTime)] /\ unswept \in [LoginKeys -> Buckets(limitTime)]
  /\ \A k \in LoginKeys : \/ bucket[k] = unswept[k]
                          \/ bucket[k] = NoBucket /\ Holds(unswept[k], limitTime) = Capacity

\* The inductive invariant of the limits.
RateInv == /\ limitTime \in Nat /\ qps \in 1..Qps /\ credit \in 0..(qps * Second)
           /\ refilledAt \in 0..limitTime
           /\ CallersTyped /\ QueueIsRecent /\ GrantsWithinQuota /\ SweptAreFull

\* One more grant: the log moves on, and its first entry is out of the window if it is full.
LEMMA GrantLogged ==
  ASSUME QueueIsRecent, limitTime \in Nat,
         NEW recent, recent = Recent(granted, limitTime), Len(recent) < PerWindow,
         granted' = Append(recent, limitTime), grantLog' = Logged(grantLog, limitTime),
         limitTime' = limitTime
  PROVE  QueueIsRecent' /\ GrantsWithinQuota'
  <1> DEFINE g == Len(granted)
             l == Len(grantLog)
             log == Append(grantLog, limitTime)
  <1>1. /\ PerWindow \in Nat /\ PerWindow > 0 /\ Window \in Nat
        /\ granted \in Seq(Nat) /\ grantLog \in Seq(Nat)
        /\ g \in Nat /\ l \in Nat /\ g <= l /\ l <= PerWindow + 1
    BY RateAssumption DEF QueueIsRecent
  <1>2. PICK n \in 0..g : /\ recent \in Seq(Nat) /\ Len(recent) = g - n
                          /\ \A i \in 1..(g - n) : recent[i] = granted[n + i]
                          /\ \A i \in 1..n : limitTime - granted[i] >= Window
    BY <1>1, ShiftedIsEnd DEF Recent
  <1>3. \A i \in 1..(l - g) : limitTime - grantLog[i] >= Window
    BY DEF QueueIsRecent
  <1>4. \A i \in 1..g : granted[i] = grantLog[l - g + i]
    BY DEF QueueIsRecent
  <1> HIDE DEF g, l
  <1>5. \A i \in 1..(l - g + n) : limitTime - grantLog[i] >= Window
    <2> TAKE i \in 1..(l - g + n)
    <2>1. CASE i <= l - g
      BY <1>1, <1>3, <2>1
    <2>2. CASE i > l - g
      <3> DEFINE j == i - (l - g)
      <3>1. j \in 1..n /\ j \in 1..g /\ l - g + j = i
        BY <1>1, <1>2, <2>2
      <3> HIDE DEF j
      <3>2. QED  BY <1>2, <1>4, <3>1
    <2>3. QED  BY <1>1, <1>2, <2>1, <2>2
  <1>6. \A i \in 1..(g - n) : recent[i] = grantLog[l - (g - n) + i]
    <2> TAKE i \in 1..(g - n)
    <2>1. n + i \in 1..g /\ l - g + (n + i) = l - (g - n) + i
      BY <1>1, <1>2
    <2>2. QED  BY <1>2, <1>4, <2>1
  <1>7. /\ log \in Seq(Nat) /\ Len(log) = l + 1 /\ log[l + 1] = limitTime
        /\ \A i \in 1..l : log[i] = grantLog[i]
    BY <1>1 DEF l
  <1>8. /\ granted' \in Seq(Nat) /\ Len(granted') = g - n + 1
        /\ granted'[g - n + 1] = limitTime
        /\ \A i \in 1..(g - n) : granted'[i] = recent[i]
    <2>1. granted' = Append(recent, limitTime) /\ recent \in Seq(Nat) /\ limitTime \in Nat
      BY <1>2
    <2>2. /\ granted' \in Seq(Nat) /\ Len(granted') = Len(recent) + 1
          /\ granted'[Len(recent) + 1] = limitTime
          /\ \A i \in 1..Len(recent) : granted'[i] = recent[i]
      BY <2>1
    <2>3. QED  BY <1>2, <2>2
  <1> HIDE DEF log
  <1>9. /\ PerWindow \in Nat /\ g \in Nat /\ l \in Nat /\ g <= l /\ n \in 0..g
         /\ g - n < PerWindow /\ Len(granted') = g - n + 1
    BY <1>1, <1>2, <1>8
  <1>10. CASE l + 1 > PerWindow + 1
    <2>1. grantLog' = Tail(log)
      BY <1>7, <1>10 DEF Logged, log
    <2>2. /\ grantLog' \in Seq(Nat) /\ Len(grantLog') = l
          /\ \A i \in 1..l : grantLog'[i] = log[i + 1]
      BY <1>1, <1>7, <2>1
    <2>3. l = PerWindow + 1 /\ g - n < PerWindow /\ l - (g - n + 1) \in Nat
      BY <1>1, <1>2, <1>10
    <2>4. \A i \in 1..(g - n + 1) : granted'[i] = grantLog'[l - (g - n + 1) + i]
      <3> TAKE i \in 1..(g - n + 1)
      <3>1. l - (g - n + 1) + i \in 1..l
        BY <1>1, <1>2, <2>3
      <3>2. grantLog'[l - (g - n + 1) + i] = log[l - (g - n) + i]
        BY <1>1, <1>2, <2>2, <3>1
      <3>3. CASE i = g - n + 1
        BY <1>1, <1>2, <1>7, <1>8, <3>2, <3>3
      <3>4. CASE i # g - n + 1
        <4>1. i \in 1..(g - n) /\ l - (g - n) + i \in 1..l
          BY <1>1, <1>2, <2>3, <3>4
        <4>2. QED  BY <1>6, <1>7, <1>8, <3>2, <4>1
      <3>5. QED  BY <3>3, <3>4
    <2>5. \A i \in 1..(l - (g - n + 1)) : limitTime - grantLog'[i] >= Window
      <3> TAKE i \in 1..(l - (g - n + 1))
      <3>1. i \in 1..l /\ i + 1 \in 1..l /\ i + 1 \in 1..(l - g + n)
        BY <1>1, <1>2, <2>3
      <3>2. QED  BY <1>5, <1>7, <2>2, <3>1
    <2>6. QueueIsRecent'
      <3>1. Len(granted') <= PerWindow /\ Len(granted') <= Len(grantLog')
        <4>1. Len(grantLog') = l
          BY <2>2
        <4>2. QED  BY <1>9, <2>3, <4>1
      <3>2. Len(grantLog') - Len(granted') = l - (g - n + 1)
        BY <1>9, <2>2
      <3>3. \A i \in 1..Len(granted') : granted'[i] = grantLog'[Len(grantLog') - Len(granted') + i]
        BY <1>9, <2>4, <3>2
      <3>4. \A i \in 1..(Len(grantLog') - Len(granted')) : limitTime' - grantLog'[i] >= Window
        BY <2>5, <3>2
      <3>5. granted' \in Seq(Nat) /\ grantLog' \in Seq(Nat) /\ Len(grantLog') <= PerWindow + 1
        BY <1>1, <1>8, <2>2
      <3>6. QED  BY <3>1, <3>3, <3>4, <3>5 DEF QueueIsRecent
    <2>7. GrantsWithinQuota'
      <3>1. grantLog'[PerWindow + 1] = limitTime
        BY <1>1, <1>7, <2>2, <2>3
      <3>2. 1 \in 1..(l - (g - n + 1))
        BY <1>1, <1>2, <2>3
      <3>3. QED  BY <2>5, <3>1, <3>2 DEF GrantsWithinQuota, WithinQuota
    <2>8. QED  BY <2>6, <2>7
  <1>11. CASE ~(l + 1 > PerWindow + 1)
    <2>1. grantLog' = log
      BY <1>7, <1>11 DEF Logged, log
    <2>2. \A i \in 1..(g - n + 1) : granted'[i] = grantLog'[l + 1 - (g - n + 1) + i]
      <3> TAKE i \in 1..(g - n + 1)
      <3>1. l + 1 - (g - n + 1) + i = l - (g - n) + i
        BY <1>1, <1>2
      <3>2. CASE i = g - n + 1
        <4>1. l - (g - n) + i = l + 1
          BY <1>1, <1>2, <3>2
        <4>2. QED  BY <1>7, <1>8, <2>1, <3>1, <3>2, <4>1
      <3>3. CASE i # g - n + 1
        <4>1. i \in 1..(g - n) /\ l - (g - n) + i \in 1..l
          BY <1>1, <1>2, <3>3
        <4>2. granted'[i] = recent[i] /\ recent[i] = grantLog[l - (g - n) + i]
          BY <1>6, <1>8, <4>1
        <4>3. grantLog'[l - (g - n) + i] = grantLog[l - (g - n) + i]
          BY <1>7, <2>1, <4>1
        <4>4. QED  BY <3>1, <4>2, <4>3
      <3>4. QED  BY <3>2, <3>3
    <2>3. \A i \in 1..(l + 1 - (g - n + 1)) : limitTime - grantLog'[i] >= Window
      <3> TAKE i \in 1..(l + 1 - (g - n + 1))
      <3>1. i \in 1..l /\ i \in 1..(l - g + n)
        BY <1>1, <1>2
      <3>2. QED  BY <1>5, <1>7, <2>1, <3>1
    <2>4. QueueIsRecent'
      <3>1. Len(granted') <= PerWindow /\ Len(granted') <= Len(grantLog')
              /\ Len(grantLog') <= PerWindow + 1
        <4>1. Len(grantLog') = l + 1
          BY <1>7, <2>1
        <4>2. QED  BY <1>11, <1>9, <4>1
      <3>2. Len(grantLog') - Len(granted') = l + 1 - (g - n + 1)
        <4>1. Len(grantLog') = l + 1
          BY <1>7, <2>1
        <4>2. QED  BY <1>9, <4>1
      <3>3. \A i \in 1..Len(granted') : granted'[i] = grantLog'[Len(grantLog') - Len(granted') + i]
        BY <1>9, <2>2, <3>2
      <3>4. \A i \in 1..(Len(grantLog') - Len(granted')) : limitTime' - grantLog'[i] >= Window
        BY <2>3, <3>2
      <3>5. granted' \in Seq(Nat) /\ grantLog' \in Seq(Nat)
        BY <1>7, <1>8, <2>1
      <3>6. QED  BY <3>1, <3>3, <3>4, <3>5 DEF QueueIsRecent
    <2>5. GrantsWithinQuota'
      <3> SUFFICES ASSUME l = PerWindow PROVE limitTime - grantLog'[1] >= Window
        BY <1>1, <1>7, <2>1 DEF GrantsWithinQuota, WithinQuota
      <3>1. 1 \in 1..(l + 1 - (g - n + 1))
        BY <1>1, <1>2
      <3>2. QED  BY <2>3, <3>1
    <2>6. QED  BY <2>4, <2>5
  <1>12. QED  BY <1>10, <1>11

\* A quota that is used up: the log stays, old grants leave the queue.
LEMMA GrantRefused ==
  ASSUME QueueIsRecent, limitTime \in Nat, granted' = Recent(granted, limitTime),
         UNCHANGED <<grantLog, limitTime>>
  PROVE  QueueIsRecent'
  <1> DEFINE g == Len(granted)
             l == Len(grantLog)
  <1>1. /\ PerWindow \in Nat /\ Window \in Nat /\ granted \in Seq(Nat) /\ grantLog \in Seq(Nat)
        /\ g \in Nat /\ l \in Nat /\ g <= l /\ g <= PerWindow
    BY RateAssumption DEF QueueIsRecent
  <1>2. PICK n \in 0..g : /\ granted' \in Seq(Nat) /\ Len(granted') = g - n
                          /\ \A i \in 1..(g - n) : granted'[i] = granted[n + i]
                          /\ \A i \in 1..n : limitTime - granted[i] >= Window
    BY <1>1, ShiftedIsEnd DEF Recent
  <1>3. \A i \in 1..(l - g) : limitTime - grantLog[i] >= Window
    BY DEF QueueIsRecent
  <1>4. \A i \in 1..g : granted[i] = grantLog[l - g + i]
    BY DEF QueueIsRecent
  <1> HIDE DEF g, l
  <1>5. \A i \in 1..(l - (g - n)) : limitTime - grantLog[i] >= Window
    <2> TAKE i \in 1..(l - (g - n))
    <2>1. CASE i <= l - g
      BY <1>1, <1>2, <1>3, <2>1
    <2>2. CASE i > l - g
      <3> DEFINE j == i - (l - g)
      <3>1. j \in 1..n /\ j \in 1..g /\ l - g + j = i
        BY <1>1, <1>2, <2>2
      <3> HIDE DEF j
      <3>2. QED  BY <1>2, <1>4, <3>1
    <2>3. QED  BY <1>1, <1>2, <2>1, <2>2
  <1>6. \A i \in 1..(g - n) : granted'[i] = grantLog[l - (g - n) + i]
    <2> TAKE i \in 1..(g - n)
    <2>1. n + i \in 1..g /\ l - g + (n + i) = l - (g - n) + i
      BY <1>1, <1>2
    <2>2. QED  BY <1>2, <1>4, <2>1
  <1>7. QED  BY <1>1, <1>2, <1>5, <1>6 DEF QueueIsRecent, l

\* A caller's next state is one of its kind.
LEMMA CallerMoves ==
  ASSUME CallersTyped, NEW c \in Callers
  PROVE  /\ \A pc \in {"idle", "quota", "bucket", "sent"} :
              caller' = [caller EXCEPT ![c].pc = pc] => CallersTyped'
         /\ \A wake \in Int : caller' = [caller EXCEPT ![c].wake = wake] => CallersTyped'
         /\ caller' = [caller EXCEPT ![c] = Hang] => CallersTyped'
  <1> DEFINE Rows == [pc: {"idle", "quota", "bucket", "sent"}, key: Endpoints \cup {Quotaed},
                      attempt: 0..MaxAttempts, wake: Int]
  <1>1. caller[c] \in Rows /\ MaxAttempts \in Nat
    BY RateAssumption DEF CallersTyped
  <1>2. /\ \A pc \in {"idle", "quota", "bucket", "sent"} : [caller[c] EXCEPT !.pc = pc] \in Rows
        /\ \A wake \in Int : [caller[c] EXCEPT !.wake = wake] \in Rows
    BY <1>1
  <1>3. Hang \in Rows
    BY <1>1 DEF Hang
  <1> HIDE DEF Rows
  <1>4. caller \in [Callers -> Rows]
    BY DEF CallersTyped, Rows
  <1>5. \A x \in Rows : caller' = [caller EXCEPT ![c] = x] => caller' \in [Callers -> Rows]
    BY <1>4
  <1>6. QED  BY <1>2, <1>3, <1>5 DEF CallersTyped, Rows

\* What a token bucket holds is within a second's worth.
LEMMA RefilledRange ==
  ASSUME RateInv
  PROVE  Refilled \in 0..(qps * Second) /\ qps * Second \in Nat
  <1>1. qps \in Nat /\ Second \in Nat /\ credit \in Nat /\ limitTime - refilledAt \in Nat
    BY RateAssumption DEF RateInv
  <1>2. \A a, b \in Nat : a * b \in Nat
    OBVIOUS
  <1>3. (limitTime - refilledAt) * qps \in Nat /\ qps * Second \in Nat
    BY <1>1, <1>2
  <1>4. QED  BY <1>1, <1>3 DEF Refilled, Least, RateInv

\* Every step of the client preserves the invariant.
LEMMA ClientStep ==
  ASSUME RateInv, NEW c \in Callers, UNCHANGED <<limitTime, loginVars>>,
         \/ \E k \in Endpoints : Call(c, k)
         \/ TakeQuota(c) \/ TakeToken(c) \/ Answered(c)
         \/ \E converge \in BOOLEAN : Retry(c, converge)
  PROVE  RateInv'
  <1> DEFINE Rows == [pc: {"idle", "quota", "bucket", "sent"}, key: Endpoints \cup {Quotaed},
                      attempt: 0..MaxAttempts, wake: Int]
  <1>1. /\ limitTime \in Nat /\ qps \in 1..Qps /\ credit \in 0..(qps * Second)
        /\ refilledAt \in 0..limitTime
        /\ CallersTyped /\ QueueIsRecent /\ GrantsWithinQuota /\ SweptAreFull
    BY DEF RateInv
  <1>2. /\ PerWindow \in Nat \ {0} /\ Window \in Nat /\ Second \in Nat \ {0} /\ Qps \in Nat \ {0}
        /\ MaxAttempts \in Nat \ {0} /\ Pause \in Nat
    BY RateAssumption
  <1>3. SweptAreFull'
    BY <1>1 DEF SweptAreFull, loginVars
  <1>4. caller[c] \in Rows /\ caller \in [Callers -> Rows]
    BY <1>1 DEF CallersTyped
  <1>5. ASSUME UNCHANGED <<granted, grantLog>> PROVE QueueIsRecent' /\ GrantsWithinQuota'
    BY <1>1, <1>5 DEF QueueIsRecent, GrantsWithinQuota
  <1>6. ASSUME NEW k \in Endpoints, Call(c, k) PROVE RateInv'
    <2> DEFINE x == [pc |-> FirstStop(k), key |-> k, attempt |-> 1, wake |-> limitTime]
    <2>1. x \in Rows
      BY <1>1, <1>2 DEF FirstStop
    <2>2. caller' = [caller EXCEPT ![c] = x]
      BY <1>6 DEF Call
    <2> HIDE DEF x, Rows
    <2>3. CallersTyped'
      BY <1>4, <2>1, <2>2 DEF CallersTyped, Rows
    <2>4. QED  BY <1>1, <1>3, <1>5, <1>6, <2>3 DEF Call, RateInv
  <1>7. CASE TakeQuota(c)
    <2> DEFINE recent == Recent(granted, limitTime)
    <2>1. CASE Len(recent) < PerWindow
      <3>1. /\ granted' = Append(recent, limitTime) /\ grantLog' = Logged(grantLog, limitTime)
            /\ caller' = [caller EXCEPT ![c].pc = "bucket"]
        BY <1>7, <2>1 DEF TakeQuota
      <3>2. CallersTyped'
        BY <1>1, <3>1, CallerMoves
      <3>3. QueueIsRecent' /\ GrantsWithinQuota'
        BY <1>1, <2>1, <3>1, GrantLogged
      <3>4. QED  BY <1>1, <1>3, <1>7, <3>2, <3>3 DEF TakeQuota, RateInv
    <2>2. CASE ~(Len(recent) < PerWindow)
      <3>1. /\ granted' = recent /\ grantLog' = grantLog
            /\ caller' = [caller EXCEPT ![c].wake = recent[1] + Window]
        BY <1>7, <2>2 DEF TakeQuota
      <3>2. recent \in Seq(Nat)
        BY <1>1, <1>2, ShiftedIsEnd DEF Recent, QueueIsRecent
      <3> HIDE DEF recent
      <3>3. recent[1] + Window \in Int
        BY <1>2, <2>2, <3>2
      <3>4. CallersTyped'
        BY <1>1, <3>1, <3>3, CallerMoves
      <3>5. QueueIsRecent'
        BY <1>1, <3>1, GrantRefused DEF recent
      <3>6. GrantsWithinQuota'
        BY <1>1, <3>1 DEF GrantsWithinQuota
      <3>7. QED  BY <1>1, <1>3, <1>7, <3>4, <3>5, <3>6 DEF TakeQuota, RateInv
    <2>3. QED  BY <2>1, <2>2
  <1>8. CASE TakeToken(c)
    <2>1. Refilled \in 0..(qps * Second) /\ qps * Second \in Nat
      BY RefilledRange
    <2> HIDE DEF Rows
    <2>2. /\ refilledAt' = limitTime /\ UNCHANGED <<granted, qps, grantLog>>
          /\ \/ credit' = Refilled - Second /\ Refilled >= Second
             \/ credit' = Refilled
      BY <1>8 DEF TakeToken
    <2>3. credit' \in 0..(qps * Second) /\ refilledAt' \in 0..limitTime
      BY <1>1, <1>2, <2>1, <2>2
    <2>4. limitTime + Second \div qps \in Int
      BY <1>1, <1>2
    <2>5. CallersTyped'
      <3>1. CASE Refilled >= Second
        BY <1>1, <1>8, <3>1, CallerMoves DEF TakeToken
      <3>2. CASE ~(Refilled >= Second)
        BY <1>1, <1>8, <2>4, <3>2, CallerMoves DEF TakeToken
      <3>3. QED  BY <3>1, <3>2
    <2>6. QED  BY <1>1, <1>3, <1>5, <2>2, <2>3, <2>5 DEF RateInv
  <1>9. CASE Answered(c)
    <2>1. CallersTyped'
      BY <1>1, <1>9, CallerMoves DEF Answered
    <2>2. QED  BY <1>1, <1>3, <1>5, <1>9, <2>1 DEF Answered, RateInv
  <1>10. ASSUME NEW converge \in BOOLEAN, Retry(c, converge) PROVE RateInv'
    <2> DEFINE slower == IF qps \div 2 < 1 THEN 1 ELSE qps \div 2
    <2>1. slower \in 1..qps
      BY <1>1
    <2> HIDE DEF slower
    <2>2. slower * Second \in Nat /\ qps * Second \in Nat
      <3>1. \A a, b \in Nat : a * b \in Nat
        OBVIOUS
      <3>2. slower \in Nat /\ qps \in Nat /\ Second \in Nat
        BY <1>1, <1>2, <2>1
      <3>3. QED  BY <3>1, <3>2
    <2>3. /\ qps' = IF converge THEN slower ELSE qps
          /\ credit' = IF converge THEN Least(credit, slower * Second) ELSE credit
      BY <1>10 DEF Retry, slower
    <2>4. qps' \in 1..Qps
      BY <1>1, <1>2, <2>1, <2>3
    <2>5. credit' \in 0..(qps' * Second)
      <3>1. CASE converge
        <4>1. Least(credit, slower * Second) \in 0..(slower * Second)
          BY <1>1, <2>2 DEF Least
        <4>2. QED  BY <2>3, <3>1, <4>1
      <3>2. CASE ~converge
        BY <1>1, <2>3, <3>2
      <3>3. QED  BY <3>1, <3>2
    <2>6. CallersTyped'
      <3>1. CASE caller[c].attempt < MaxAttempts
        <4> DEFINE x == [pc |-> FirstStop(caller[c].key), key |-> caller[c].key,
                         attempt |-> caller[c].attempt + 1, wake |-> limitTime + Pause]
        <4>1. x \in Rows
          BY <1>1, <1>2, <1>4, <3>1 DEF FirstStop
        <4>2. caller' = [caller EXCEPT ![c] = x]
          BY <1>4, <1>10, <3>1 DEF Retry
        <4> HIDE DEF x, Rows
        <4>3. QED  BY <1>4, <4>1, <4>2 DEF CallersTyped, Rows
      <3>2. CASE ~(caller[c].attempt < MaxAttempts)
        BY <1>1, <1>10, <3>2, CallerMoves DEF Retry
      <3>3. QED  BY <3>1, <3>2
    <2>7. QED  BY <1>1, <1>3, <1>5, <1>10, <2>4, <2>5, <2>6 DEF Retry, RateInv
  <1>11. QED  BY <1>6, <1>7, <1>8, <1>9, <1>10

-----------------------------------------------------------------------------
\* A bucket never holds more than its capacity, and no less as time goes by.
LEMMA BucketHolds ==
  ASSUME NEW now \in Nat, NEW b \in Buckets(now), NEW later \in Nat, now <= later
  PROVE  /\ Holds(b, now) \in 0..Capacity /\ Holds(b, later) \in 0..Capacity
         /\ Holds(b, now) <= Holds(b, later)
         /\ b \in Buckets(later) /\ Taken(b, now) \in Buckets(now) /\ Taken(b, now).last # -1
  <1>1. Capacity \in Nat \ {0} /\ b.tokens \in 0..Capacity /\ b.last \in -1..now
    BY RateAssumption DEF Buckets
  <1>2. Holds(b, now) \in 0..Capacity /\ Holds(b, later) \in 0..Capacity
          /\ Holds(b, now) <= Holds(b, later)
    BY <1>1 DEF Holds, Least
  <1>3. b \in Buckets(later)
    BY DEF Buckets
  <1>4. Taken(b, now) \in Buckets(now) /\ Taken(b, now).last # -1
    <2> DEFINE n == Holds(b, now)
    <2>1. (IF n < 1 THEN n ELSE n - 1) \in 0..Capacity
      BY <1>1, <1>2
    <2>2. Taken(b, now) = [tokens |-> IF n < 1 THEN n ELSE n - 1, last |-> now]
      BY DEF Taken
    <2> HIDE DEF n
    <2>3. now \in -1..now /\ now # -1
      OBVIOUS
    <2>4. QED  BY <2>1, <2>2, <2>3 DEF Buckets
  <1>5. QED  BY <1>2, <1>3, <1>4

\* A new bucket is full.
LEMMA NewBucket ==
  ASSUME NEW now \in Nat
  PROVE  NoBucket \in Buckets(now) /\ Holds(NoBucket, now) = Capacity
  BY RateAssumption DEF NoBucket, Buckets, Holds

\* A sweep and a charge leave the two kinds of buckets as far apart as they were.
LEMMA LoginStep ==
  ASSUME SweptAreFull, limitTime \in Nat, UNCHANGED limitTime, NEW k \in LoginKeys, Allow(k)
  PROVE  SweptAreFull'
  <1> DEFINE due == limitTime - lastSweep >= SweepInterval
             left == IF due THEN Swept(bucket, limitTime) ELSE bucket
  <1>1. /\ bucket \in [LoginKeys -> Buckets(limitTime)]
        /\ unswept \in [LoginKeys -> Buckets(limitTime)]
    BY DEF SweptAreFull
  <1>2. /\ bucket' = [left EXCEPT ![k] = Taken(left[k], limitTime)]
        /\ unswept' = [unswept EXCEPT ![k] = Taken(unswept[k], limitTime)]
    BY DEF Allow
  <1>3. /\ left \in [LoginKeys -> Buckets(limitTime)]
        /\ \A j \in LoginKeys : \/ left[j] = unswept[j]
                                \/ left[j] = NoBucket /\ Holds(unswept[j], limitTime) = Capacity
    <2>1. CASE due
      <3>1. left = [j \in LoginKeys |-> IF Holds(bucket[j], limitTime) >= Capacity
                                        THEN NoBucket ELSE bucket[j]]
        BY <2>1 DEF Swept
      <3>2. left \in [LoginKeys -> Buckets(limitTime)]
        BY <1>1, <3>1, NewBucket
      <3>3. ASSUME NEW j \in LoginKeys
            PROVE  \/ left[j] = unswept[j]
                   \/ left[j] = NoBucket /\ Holds(unswept[j], limitTime) = Capacity
        <4>1. CASE Holds(bucket[j], limitTime) >= Capacity
          <5>1. left[j] = NoBucket
            BY <3>1, <4>1
          <5>2. Holds(unswept[j], limitTime) \in 0..Capacity /\ Capacity \in Nat
            BY <1>1, BucketHolds, RateAssumption
          <5>3. Holds(unswept[j], limitTime) = Capacity
            BY <4>1, <5>2 DEF SweptAreFull
          <5>4. QED  BY <5>1, <5>3
        <4>2. CASE ~(Holds(bucket[j], limitTime) >= Capacity)
          BY <3>1, <4>2 DEF SweptAreFull
        <4>3. QED  BY <4>1, <4>2
      <3>4. QED  BY <3>2, <3>3
    <2>2. CASE ~due
      BY <1>1, <2>2 DEF SweptAreFull
    <2>3. QED  BY <2>1, <2>2
  <1> HIDE DEF left, due
  <1>4. Taken(left[k], limitTime) = Taken(unswept[k], limitTime)
    <2>1. Holds(left[k], limitTime) = Holds(unswept[k], limitTime)
      BY <1>3, NewBucket
    <2>2. QED  BY <2>1 DEF Taken
  <1>5. /\ Taken(left[k], limitTime) \in Buckets(limitTime)
        /\ Taken(unswept[k], limitTime) \in Buckets(limitTime)
    BY <1>1, <1>3, BucketHolds
  <1>6. /\ bucket' \in [LoginKeys -> Buckets(limitTime)]
        /\ unswept' \in [LoginKeys -> Buckets(limitTime)]
    BY <1>1, <1>2, <1>3, <1>5
  <1>7. ASSUME NEW j \in LoginKeys
        PROVE  \/ bucket'[j] = unswept'[j]
               \/ bucket'[j] = NoBucket /\ Holds(unswept'[j], limitTime) = Capacity
    <2>1. CASE j = k
      BY <1>1, <1>2, <1>3, <1>4, <2>1
    <2>2. CASE j # k
      BY <1>1, <1>2, <1>3, <2>2
    <2>3. QED  BY <2>1, <2>2
  <1>8. QED  BY <1>6, <1>7 DEF SweptAreFull

\* Time makes old grants older and full buckets no less full.
LEMMA RateTickStep == RateInv /\ RateTick /\ UNCHANGED <<clientVars, loginVars>> => RateInv'
  <1> SUFFICES ASSUME RateInv, RateTick, UNCHANGED <<clientVars, loginVars>> PROVE RateInv'
    OBVIOUS
  <1>1. /\ limitTime \in Nat /\ limitTime' = limitTime + 1
        /\ UNCHANGED <<granted, qps, credit, refilledAt, caller, grantLog, bucket, unswept>>
    BY DEF RateInv, RateTick, clientVars, loginVars
  <1>2. QueueIsRecent'
    <2>1. QueueIsRecent
      BY DEF RateInv
    <2>2. Window \in Nat /\ grantLog \in Seq(Nat) /\ Len(granted) \in Nat
      BY <2>1, RateAssumption DEF QueueIsRecent
    <2>3. ASSUME NEW i \in 1..(Len(grantLog) - Len(granted))
          PROVE  limitTime' - grantLog[i] >= Window
      <3>1. i \in 1..Len(grantLog)
        BY <2>2
      <3>2. grantLog[i] \in Nat
        BY <2>2, <3>1
      <3>3. limitTime - grantLog[i] >= Window
        BY <2>1 DEF QueueIsRecent
      <3>4. QED  BY <1>1, <2>2, <3>2, <3>3
    <2>4. QED  BY <1>1, <2>1, <2>3 DEF QueueIsRecent
  <1>3. SweptAreFull'
    <2>1. SweptAreFull
      BY DEF RateInv
    <2>2. ASSUME NEW k \in LoginKeys
          PROVE  /\ bucket[k] \in Buckets(limitTime') /\ unswept[k] \in Buckets(limitTime')
                 /\ \/ bucket[k] = unswept[k]
                    \/ bucket[k] = NoBucket /\ Holds(unswept[k], limitTime') = Capacity
      <3>1. bucket[k] \in Buckets(limitTime) /\ unswept[k] \in Buckets(limitTime)
        BY <2>1 DEF SweptAreFull
      <3>2. limitTime' \in Nat /\ limitTime <= limitTime' /\ Capacity \in Nat
        BY <1>1, RateAssumption
      <3>3. /\ bucket[k] \in Buckets(limitTime') /\ unswept[k] \in Buckets(limitTime')
            /\ Holds(unswept[k], limitTime) <= Holds(unswept[k], limitTime')
            /\ Holds(unswept[k], limitTime') \in 0..Capacity
        BY <1>1, <3>1, <3>2, BucketHolds
      <3>4. CASE bucket[k] = unswept[k]
        BY <3>3, <3>4
      <3>5. CASE bucket[k] = NoBucket /\ Holds(unswept[k], limitTime) = Capacity
        BY <3>2, <3>3, <3>5
      <3>6. QED  BY <2>1, <3>4, <3>5 DEF SweptAreFull
    <2>3. /\ bucket \in [LoginKeys -> Buckets(limitTime')]
          /\ unswept \in [LoginKeys -> Buckets(limitTime')]
      BY <2>1, <2>2 DEF SweptAreFull
    <2>4. QED  BY <1>1, <2>2, <2>3 DEF SweptAreFull
  <1>4. CallersTyped' /\ GrantsWithinQuota'
    BY <1>1 DEF RateInv, CallersTyped, GrantsWithinQuota
  <1>5. QED  BY <1>1, <1>2, <1>3, <1>4 DEF RateInv

\* Every step of either limiter preserves the invariant.
LEMMA RateStep == RateInv /\ [ClientNext \/ LoginNext]_rateVars => RateInv'
  <1> SUFFICES ASSUME RateInv, [ClientNext \/ LoginNext]_rateVars PROVE RateInv'
    OBVIOUS
  <1>1. CASE ClientNext
    <2>1. CASE RateTick /\ UNCHANGED clientVars
      BY <1>1, <2>1, RateTickStep DEF ClientNext
    <2>2. CASE ~(RateTick /\ UNCHANGED clientVars)
      BY <1>1, <2>2, ClientStep DEF ClientNext
    <2>3. QED  BY <2>1, <2>2
  <1>2. CASE LoginNext
    <2>1. CASE RateTick /\ UNCHANGED loginVars
      BY <1>2, <2>1, RateTickStep DEF LoginNext
    <2>2. ASSUME NEW k \in LoginKeys, Allow(k), UNCHANGED <<limitTime, clientVars>> PROVE RateInv'
      <3>1. SweptAreFull'
        BY <2>2, LoginStep DEF RateInv
      <3>2. QED
        BY <2>2, <3>1 DEF RateInv, clientVars, CallersTyped, QueueIsRecent, GrantsWithinQuota
    <2>3. QED  BY <1>2, <2>1, <2>2 DEF LoginNext
  <1>3. CASE UNCHANGED rateVars
    BY <1>3 DEF rateVars, clientVars, loginVars, RateInv, CallersTyped, QueueIsRecent,
      GrantsWithinQuota, SweptAreFull
  <1>4. QED  BY <1>1, <1>2, <1>3

\* The invariant holds initially.
LEMMA RateStart == RateInit => RateInv
  <1> SUFFICES ASSUME RateInit PROVE RateInv
    OBVIOUS
  <1>1. /\ PerWindow \in Nat \ {0} /\ Qps \in Nat \ {0} /\ MaxAttempts \in Nat
        /\ Second \in Nat \ {0}
    BY RateAssumption
  <1>2. limitTime \in Nat /\ qps \in 1..Qps /\ refilledAt \in 0..limitTime
    BY <1>1 DEF RateInit
  <1>3. credit \in 0..(qps * Second)
    <2>1. Qps * Second \in Nat
      BY <1>1
    <2>2. QED  BY <2>1 DEF RateInit
  <1>4. CallersTyped
    <2>1. Hang \in [pc: {"idle", "quota", "bucket", "sent"}, key: Endpoints \cup {Quotaed},
                    attempt: 0..MaxAttempts, wake: Int]
      BY <1>1 DEF Hang
    <2>2. QED  BY <2>1 DEF RateInit, CallersTyped
  <1>5. QueueIsRecent /\ GrantsWithinQuota
    BY <1>1 DEF RateInit, QueueIsRecent, GrantsWithinQuota, WithinQuota
  <1>6. SweptAreFull
    <2>1. NoBucket \in Buckets(limitTime)
      BY <1>2, NewBucket
    <2>2. QED  BY <2>1 DEF RateInit, SweptAreFull
  <1>7. QED  BY <1>2, <1>3, <1>4, <1>5, <1>6 DEF RateInv

\* Calls of the meeting API keep to their quota in every window and the sweep of the login
\* limiter changes no answer, for any number of callers and keys, retries and slowdowns.
THEOREM LimitsAreKept == RateSpec => [](RateTypeOK /\ LimitsHold)
  <1>1. RateInv => RateTypeOK /\ LimitsHold
    <2> SUFFICES ASSUME RateInv PROVE RateTypeOK /\ LimitsHold
      OBVIOUS
    <2>1. RateTypeOK
      BY DEF RateInv, RateTypeOK, CallersTyped, SweptAreFull, Buckets
    <2>2. SweepInvisible
      BY NewBucket DEF RateInv, SweptAreFull, SweepInvisible
    <2>3. QED  BY <2>1, <2>2 DEF RateInv, LimitsHold
  <1>2. QED  BY <1>1, RateStart, RateStep, PTL DEF RateSpec

-----------------------------------------------------------------------------
\* A table of rules as the evaluation meets it: ids of rows, of the rule of a table
\* without fetch rules (0) or of a draft (DraftId), with rows of their kind.
TableOK(T) == /\ DOMAIN T \in SUBSET ((DraftId)..MaxRuleId)
              /\ \A i \in DOMAIN T : T[i] \in RuleRows

FactSets == [RuleFields -> FactValues]
Complete(x) == \A f \in RuleFields : x[f] # "gap"

\* The order of rules has a first one in every stack.
LEMMA FirstExists ==
  ASSUME NEW T, TableOK(T), NEW S \in SUBSET DOMAIN T, S # {}
  PROVE  \E i \in S : \A j \in S \ {i} : Earlier(T, i, j)
  <1>1. TopPriority \in Nat /\ MaxRuleId \in Nat
    BY RuleAssumption
  <1>2. \A i \in S : T[i].priority \in 1..TopPriority /\ i \in -1..MaxRuleId
    BY DEF TableOK, RuleRows, DraftId
  <1> DEFINE Ranks == {TopPriority - T[i].priority : i \in S}
  <1>3. Ranks \in SUBSET Nat /\ Ranks # {}
    BY <1>1, <1>2
  <1>4. PICK n \in Ranks : \A m \in Ranks : n <= m
    BY <1>3, LeastNatural
  <1>5. PICK h \in S : n = TopPriority - T[h].priority
    BY <1>4
  <1>6. \A j \in S : T[h].priority >= T[j].priority
    <2> TAKE j \in S
    <2>1. n <= TopPriority - T[j].priority
      BY <1>4
    <2>2. QED  BY <1>1, <1>2, <1>5, <2>1
  <1> DEFINE Ids == {i + 1 : i \in {j \in S : T[j].priority = T[h].priority}}
  <1>7. Ids \in SUBSET Nat /\ Ids # {}
    BY <1>2
  <1>8. PICK q \in Ids : \A m \in Ids : q <= m
    BY <1>7, LeastNatural
  <1>9. PICK i \in S : T[i].priority = T[h].priority /\ q = i + 1
    BY <1>8
  <1>10. ASSUME NEW j \in S \ {i} PROVE Earlier(T, i, j)
    <2>1. CASE T[j].priority = T[h].priority
      <3>1. i + 1 <= j + 1
        BY <1>8, <1>9, <2>1
      <3>2. i < j
        BY <1>2, <3>1
      <3>3. QED  BY <1>9, <2>1, <3>2 DEF Earlier
    <2>2. CASE T[j].priority # T[h].priority
      BY <1>2, <1>6, <1>9, <2>2 DEF Earlier
    <2>3. QED  BY <2>1, <2>2
  <1>11. QED  BY <1>10

\* The rule that comes before all others is the one the walk finds.
LEMMA FirstFound ==
  ASSUME NEW T, TableOK(T), NEW S \in SUBSET DOMAIN T,
         NEW i \in S, \A j \in S \ {i} : Earlier(T, i, j)
  PROVE  FirstOf(T, S) = i
  <1>1. \A j \in S : T[j].priority \in Int /\ j \in Int
    BY RuleAssumption DEF TableOK, RuleRows, DraftId
  <1>2. ASSUME NEW h \in S, \A j \in S \ {h} : Earlier(T, h, j) PROVE h = i
    <2> SUFFICES ASSUME h # i PROVE FALSE
      OBVIOUS
    <2>1. Earlier(T, h, i) /\ Earlier(T, i, h)
      BY <1>2
    <2>2. QED  BY <1>1, <2>1 DEF Earlier
  <1>3. QED  BY <1>2 DEF FirstOf

-----------------------------------------------------------------------------
\* What a test says of a fact.
LEMMA TestCases ==
  ASSUME NEW t \in Tests, NEW v \in FactValues
  PROVE  /\ TestResult(t, v) \in {"matched", "failed", "missing"}
         /\ TestResult(t, v) = "missing" <=> t # "broken" /\ v = "gap"
         /\ TestResult(t, v) = "matched" <=> \/ t = "has" /\ v = "yes"
                                             \/ t = "not" /\ v = "no"
  BY DEF TestResult, Tests, FactValues

\* The tests of a rule, and what they say of a meeting.
LEMMA TestsOfRule ==
  ASSUME NEW r \in RuleRows, NEW x \in FactSets
  PROVE  \A f \in Tested(r) : /\ f \in RuleFields /\ x[f] \in FactValues
                              /\ r.conds[f] \in Tests \ {"any"}
                              /\ TestResult(r.conds[f], x[f]) \in Results(r, x)
  BY DEF RuleRows, FactSets, Tested, Results

\* What is neither missing nor to come stays what it is.
LEMMA TestStays ==
  ASSUME NEW r \in RuleRows, NEW x \in FactSets, NEW y \in Completions(x), NEW f \in Tested(r),
         TestResult(r.conds[f], x[f]) # "missing"
  PROVE  TestResult(r.conds[f], y[f]) = TestResult(r.conds[f], x[f])
  <1>1. f \in RuleFields /\ x[f] \in FactValues /\ r.conds[f] \in Tests
    BY TestsOfRule
  <1>2. y[f] \in FactValues /\ (x[f] # "gap" => y[f] = x[f])
    BY <1>1 DEF Completions
  <1>3. r.conds[f] = "broken" \/ x[f] # "gap"
    BY <1>1, TestCases
  <1>4. CASE r.conds[f] = "broken"
    BY <1>4 DEF TestResult
  <1>5. CASE x[f] # "gap"
    BY <1>2, <1>5
  <1>6. QED  BY <1>3, <1>4, <1>5

\* A completion is a set of facts, and a complete one.
LEMMA CompletionType ==
  ASSUME NEW x \in FactSets, NEW y \in Completions(x)
  PROVE  y \in FactSets /\ Complete(y)
  BY DEF Completions, FactSets, Complete

\* Nothing is undecidable of complete facts.
LEMMA CompleteDecides ==
  ASSUME NEW r \in RuleRows, NEW x \in FactSets, Complete(x)
  PROVE  ~Undecidable(r, x)
  <1>1. ASSUME NEW f \in Tested(r) PROVE TestResult(r.conds[f], x[f]) # "missing"
    <2>1. f \in RuleFields /\ x[f] \in FactValues /\ r.conds[f] \in Tests
      BY TestsOfRule
    <2>2. QED  BY <2>1, TestCases DEF Complete
  <1>2. QED  BY <1>1 DEF Undecidable, Results

\* A rule that hits goes on hitting when facts come in.
LEMMA HitsStay ==
  ASSUME NEW r \in RuleRows, NEW x \in FactSets, NEW y \in Completions(x), Hits(r, x)
  PROVE  Hits(r, y)
  <1>1. CASE Tested(r) = {}
    BY <1>1 DEF Hits
  <1>2. CASE r.join = "or" /\ "matched" \in Results(r, x)
    <2>1. PICK f \in Tested(r) : TestResult(r.conds[f], x[f]) = "matched"
      BY <1>2 DEF Results
    <2>2. TestResult(r.conds[f], y[f]) = "matched"
      BY <2>1, TestStays
    <2>3. "matched" \in Results(r, y)
      BY <2>2 DEF Results
    <2>4. QED  BY <1>2, <2>3 DEF Hits
  <1>3. CASE r.join = "and" /\ Results(r, x) = {"matched"}
    <2>1. \A f \in Tested(r) : TestResult(r.conds[f], x[f]) = "matched"
      BY <1>3 DEF Results
    <2>2. \A f \in Tested(r) : TestResult(r.conds[f], y[f]) = "matched"
      BY <2>1, TestStays
    <2>3. Tested(r) # {}
      BY <1>3 DEF Results
    <2>4. Results(r, y) = {"matched"}
      BY <2>2, <2>3 DEF Results
    <2>5. QED  BY <1>3, <2>4 DEF Hits
  <1>4. QED  BY <1>1, <1>2, <1>3 DEF Hits

\* A rule that does not hit, and could not, never will.
LEMMA MissesStay ==
  ASSUME NEW r \in RuleRows, NEW x \in FactSets, NEW y \in Completions(x),
         ~Hits(r, x), ~Undecidable(r, x)
  PROVE  ~Hits(r, y)
  <1> SUFFICES ASSUME Hits(r, y) PROVE FALSE
    OBVIOUS
  <1>1. r.readable /\ Tested(r) # {} /\ r.join \in {"and", "or"}
    BY DEF Hits, RuleRows
  <1>2. \A f \in Tested(r) : TestResult(r.conds[f], x[f]) \in {"matched", "failed", "missing"}
    BY TestsOfRule, TestCases
  <1>3. CASE r.join = "or"
    <2>1. \A f \in Tested(r) : TestResult(r.conds[f], x[f]) = "failed"
      BY <1>1, <1>2, <1>3 DEF Hits, Undecidable, Results
    <2>2. \A f \in Tested(r) : TestResult(r.conds[f], y[f]) = "failed"
      BY <2>1, TestStays
    <2>3. QED  BY <1>1, <1>3, <2>2 DEF Hits, Results
  <1>4. CASE r.join = "and"
    <2>1. \E f \in Tested(r) : TestResult(r.conds[f], x[f]) = "failed"
      <3> SUFFICES ASSUME \A f \in Tested(r) : TestResult(r.conds[f], x[f]) # "failed"
                   PROVE  FALSE
        OBVIOUS
      <3>1. \A f \in Tested(r) : TestResult(r.conds[f], x[f]) \in {"matched", "missing"}
        BY <1>2
      <3>2. Results(r, x) \subseteq {"matched", "missing"} /\ Results(r, x) # {}
        BY <1>1, <3>1 DEF Results
      <3>3. Results(r, x) # {"matched"}
        BY <1>1, <1>4 DEF Hits
      <3>4. "missing" \in Results(r, x)
        BY <3>2, <3>3
      <3>5. QED  BY <1>1, <3>2, <3>4 DEF Undecidable
    <2>2. PICK f \in Tested(r) : TestResult(r.conds[f], x[f]) = "failed"
      BY <2>1
    <2>3. TestResult(r.conds[f], y[f]) = "failed"
      BY <2>2, TestStays
    <2>4. "failed" \in Results(r, y)
      BY <2>3 DEF Results
    <2>5. QED  BY <1>1, <1>4, <2>4 DEF Hits
  <1>5. QED  BY <1>1, <1>3, <1>4

\* Of an undecidable rule the missing facts decide, either way.
LEMMA GapsMatter ==
  ASSUME NEW r \in RuleRows, NEW x \in FactSets, Undecidable(r, x)
  PROVE  /\ \E y \in Completions(x) : Hits(r, y)
         /\ \E y \in Completions(x) : ~Hits(r, y)
  <1> DEFINE Missing(f) == TestResult(r.conds[f], x[f]) = "missing"
             good(f) == IF r.conds[f] = "has" THEN "yes" ELSE "no"
             ill(f) == IF r.conds[f] = "has" THEN "no" ELSE "yes"
             y == [f \in RuleFields |-> IF x[f] = "gap" THEN good(f) ELSE x[f]]
             z == [f \in RuleFields |-> IF x[f] = "gap" THEN ill(f) ELSE x[f]]
  <1>1. /\ r.readable /\ ~Hits(r, x) /\ r.join \in {"and", "or"}
        /\ \E f \in Tested(r) : Missing(f)
    BY DEF Undecidable, Results, RuleRows
  <1>2. Tested(r) # {}
    BY <1>1
  <1>3. y \in Completions(x) /\ z \in Completions(x)
    BY DEF Completions, FactSets, FactValues
  <1>4. ASSUME NEW f \in Tested(r), Missing(f)
        PROVE  TestResult(r.conds[f], y[f]) = "matched" /\ TestResult(r.conds[f], z[f]) = "failed"
    <2>1. f \in RuleFields /\ x[f] \in FactValues /\ r.conds[f] \in Tests \ {"any"}
      BY TestsOfRule
    <2>2. r.conds[f] \in {"has", "not"} /\ x[f] = "gap"
      BY <1>4, <2>1, TestCases DEF Tests
    <2>3. y[f] = good(f) /\ z[f] = ill(f)
      BY <2>1, <2>2
    <2>4. CASE r.conds[f] = "has"
      BY <2>3, <2>4 DEF TestResult
    <2>5. CASE r.conds[f] = "not"
      BY <2>3, <2>5 DEF TestResult
    <2>6. QED  BY <2>2, <2>4, <2>5
  <1> HIDE DEF y, z
  <1>5. ASSUME NEW f \in Tested(r), ~Missing(f)
        PROVE  /\ TestResult(r.conds[f], y[f]) = TestResult(r.conds[f], x[f])
               /\ TestResult(r.conds[f], z[f]) = TestResult(r.conds[f], x[f])
    BY <1>3, <1>5, TestStays
  <1>6. Hits(r, y)
    <2>1. CASE r.join = "or"
      <3>1. "matched" \in Results(r, y)
        BY <1>1, <1>4 DEF Results
      <3>2. QED  BY <1>1, <2>1, <3>1 DEF Hits
    <2>2. CASE r.join = "and"
      <3>1. \A f \in Tested(r) : Missing(f) \/ TestResult(r.conds[f], x[f]) = "matched"
        BY <2>2 DEF Undecidable, Results
      <3>2. \A f \in Tested(r) : TestResult(r.conds[f], y[f]) = "matched"
        BY <1>4, <1>5, <3>1
      <3>3. Results(r, y) = {"matched"}
        BY <1>2, <3>2 DEF Results
      <3>4. QED  BY <1>1, <2>2, <3>3 DEF Hits
    <2>3. QED  BY <1>1, <2>1, <2>2
  <1>7. ~Hits(r, z)
    <2>1. CASE r.join = "or"
      <3>1. \A f \in Tested(r) : TestResult(r.conds[f], x[f]) # "matched"
        BY <1>1, <2>1 DEF Hits, Results
      <3>2. \A f \in Tested(r) : TestResult(r.conds[f], z[f]) # "matched"
        BY <1>4, <1>5, <3>1
      <3>3. QED  BY <1>2, <2>1, <3>2 DEF Hits, Results
    <2>2. CASE r.join = "and"
      <3>1. "failed" \in Results(r, z)
        BY <1>1, <1>4 DEF Results
      <3>2. QED  BY <1>2, <2>2, <3>1 DEF Hits
    <2>3. QED  BY <1>1, <2>1, <2>2
  <1>8. QED  BY <1>3, <1>6, <1>7

-----------------------------------------------------------------------------
\* What a rule says that hits.
Says(r, k) == IF r.effect = "bad" THEN [effect |-> "shut", assets |-> {}, source |-> "rule_invalid"]
              ELSE [effect |-> r.effect, source |-> "rule",
                    assets |-> IF k # "archive" /\ r.effect = "open" THEN r.assets ELSE {}]

\* The decision is the default, or that of the first rule at which the walk stops.
LEMMA DecideDefault ==
  ASSUME NEW T, NEW k, NEW x, NEW p, Stops(T, k, x, p) = {}
  PROVE  Decide(T, k, x, p) = [effect |-> "shut", assets |-> {}, rule |-> 0, source |-> "default"]
  BY DEF Decide

\* See DecideDefault.
LEMMA DecideFirst ==
  ASSUME NEW T, TableOK(T), NEW k, NEW x, NEW p, NEW i \in Stops(T, k, x, p),
         \A j \in Stops(T, k, x, p) \ {i} : Earlier(T, i, j)
  PROVE  /\ ~Hits(T[i], x) => Decide(T, k, x, p) = [effect |-> "shut", assets |-> {}, rule |-> i,
                                                    source |-> "undecidable"]
         /\ Hits(T[i], x) => Decide(T, k, x, p) =
              [effect |-> Says(T[i], k).effect, assets |-> Says(T[i], k).assets, rule |-> i,
               source |-> Says(T[i], k).source]
  <1> DEFINE stops == Stops(T, k, x, p)
  <1>1. stops \in SUBSET DOMAIN T /\ stops # {}
    BY DEF Stops
  <1>2. FirstOf(T, stops) = i
    BY <1>1, FirstFound
  <1> HIDE DEF stops
  <1>3. CASE ~Hits(T[i], x)
    BY <1>1, <1>2, <1>3 DEF Decide, stops
  <1>4. CASE Hits(T[i], x) /\ T[i].effect = "bad"
    BY <1>1, <1>2, <1>4 DEF Decide, Says, stops
  <1>5. CASE Hits(T[i], x) /\ T[i].effect # "bad"
    BY <1>1, <1>2, <1>5 DEF Decide, Says, stops
  <1>6. QED  BY <1>3, <1>4, <1>5

\* A decision on a table is exact.
LEMMA DecisionExact ==
  ASSUME NEW T, TableOK(T), NEW k, NEW x \in FactSets, NEW p
  PROVE  LET d == Decide(T, k, x, p)
         IN IF d.source # "undecidable"
            THEN \A y \in Completions(x) : Decide(T, k, y, p) = d
            ELSE {Hits(T[d.rule], y) : y \in Completions(x)} = BOOLEAN
  <1> DEFINE stops == Stops(T, k, x, p)
             d == Decide(T, k, x, p)
  <1>1. stops \in SUBSET DOMAIN T /\ \A i \in DOMAIN T : T[i] \in RuleRows
    BY DEF Stops, TableOK
  <1>2. ASSUME NEW y \in Completions(x) PROVE Stops(T, k, y, p) \subseteq stops
    <2> SUFFICES ASSUME NEW i \in DOMAIN T, Hits(T[i], y) \/ Undecidable(T[i], y)
                 PROVE  Hits(T[i], x) \/ Undecidable(T[i], x)
      BY DEF Stops
    <2>1. Hits(T[i], y)
      BY <1>1, <1>2, CompletionType, CompleteDecides
    <2>2. QED  BY <1>1, <1>2, <2>1, MissesStay
  <1>3. CASE stops = {}
    <2>1. d = [effect |-> "shut", assets |-> {}, rule |-> 0, source |-> "default"]
      BY <1>3, DecideDefault
    <2>2. \A y \in Completions(x) : Decide(T, k, y, p) = d
      BY <1>2, <1>3, <2>1, DecideDefault
    <2>3. QED  BY <2>1, <2>2
  <1>4. CASE stops # {}
    <2>1. PICK i \in stops : \A j \in stops \ {i} : Earlier(T, i, j)
      BY <1>1, <1>4, FirstExists
    <2>2. T[i] \in RuleRows
      BY <1>1, <2>1
    <2>3. CASE Hits(T[i], x)
      <3>1. d = [effect |-> Says(T[i], k).effect, assets |-> Says(T[i], k).assets, rule |-> i,
                 source |-> Says(T[i], k).source]
        BY <2>1, <2>3, DecideFirst
      <3>2. d.source # "undecidable"
        BY <3>1 DEF Says
      <3>3. ASSUME NEW y \in Completions(x) PROVE Decide(T, k, y, p) = d
        <4>1. Hits(T[i], y)
          BY <2>2, <2>3, <3>3, HitsStay
        <4>2. i \in Stops(T, k, y, p)
          BY <2>1, <4>1 DEF Stops
        <4>3. \A j \in Stops(T, k, y, p) \ {i} : Earlier(T, i, j)
          BY <1>2, <2>1, <3>3
        <4>4. QED  BY <3>1, <4>1, <4>2, <4>3, DecideFirst
      <3>4. QED  BY <3>2, <3>3
    <2>4. CASE ~Hits(T[i], x)
      <3>1. d = [effect |-> "shut", assets |-> {}, rule |-> i, source |-> "undecidable"]
        BY <2>1, <2>4, DecideFirst
      <3>2. d.source = "undecidable" /\ d.rule = i
        BY <3>1
      <3>3. Undecidable(T[i], x)
        BY <2>1, <2>4 DEF Stops
      <3>4. /\ \E y \in Completions(x) : Hits(T[i], y)
            /\ \E y \in Completions(x) : ~Hits(T[i], y)
        BY <2>2, <3>3, GapsMatter
      <3>5. \A y \in Completions(x) : Hits(T[i], y) \in BOOLEAN
        BY DEF Hits
      <3>6. {Hits(T[i], y) : y \in Completions(x)} = BOOLEAN
        BY <3>4, <3>5
      <3>7. QED  BY <3>2, <3>6
    <2>5. QED  BY <2>3, <2>4
  <1>5. QED  BY <1>3, <1>4

-----------------------------------------------------------------------------
\* A merged row is a row: a patch has values of its columns.
LEMMA MergedType ==
  ASSUME NEW r \in RuleRows, NEW p \in Patches
  PROVE  Merged(r, p) \in RuleRows
  <1> DEFINE m == Merged(r, p)
  <1>1. PICK q \in RuleRows : \A c \in DOMAIN p : p[c] = q[c]
    BY RuleAssumption
  <1>2. \A c \in RuleColumns : m[c] = r[c] \/ m[c] = q[c]
    BY <1>1 DEF Merged
  <1>3. m = [c \in RuleColumns |-> m[c]]
    BY DEF Merged
  <1> HIDE DEF m
  <1>4. /\ m["kind"] \in Kinds /\ m["priority"] \in 1..TopPriority
        /\ m["enabled"] \in BOOLEAN /\ m["readable"] \in BOOLEAN /\ m["join"] \in {"and", "or"}
        /\ m["conds"] \in [RuleFields -> Tests] /\ m["effect"] \in Effects
        /\ m["subject"] \in RulePrograms \cup {NoSubject} /\ m["assets"] \in SUBSET RuleAssets
    BY <1>2 DEF RuleColumns, RuleRows
  <1>5. m \in RuleRows
    BY <1>3, <1>4 DEF RuleRows, RuleColumns
  <1>6. QED  BY <1>5 DEF m

\* The rule of a table without fetch rules is a row, and hits every meeting.
LEMMA CompatType == CompatRule \in RuleRows /\ \A x : Hits(CompatRule, x)
  <1>1. TopPriority \in Nat \ {0}
    BY RuleAssumption
  <1>2. 1 \in 1..TopPriority
    BY <1>1
  <1>3. CompatRule \in RuleRows
    BY <1>2 DEF CompatRule, RuleRows, Kinds, Tests, Effects
  <1>4. \A x : Hits(CompatRule, x)
    BY DEF CompatRule, Hits, Tested
  <1>5. QED  BY <1>3, <1>4

\* A table stays one under the rule that is put in effect.
LEMMA InEffectOK ==
  ASSUME NEW T, TableOK(T), NEW k
  PROVE  TableOK(InEffect(T, k))
  <1>1. CASE k = "fetch" /\ Unconfigured(T)
    <2>1. DOMAIN InEffect(T, k) = DOMAIN T \cup {0}
      BY <1>1 DEF InEffect, WithRow
    <2>2. MaxRuleId \in Nat \ {0}
      BY RuleAssumption
    <2>3. \A i \in DOMAIN InEffect(T, k) : InEffect(T, k)[i] = IF i = 0 THEN CompatRule ELSE T[i]
      BY <1>1 DEF InEffect, WithRow
    <2>4. QED  BY <2>1, <2>2, <2>3, CompatType DEF TableOK, DraftId
  <1>2. CASE ~(k = "fetch" /\ Unconfigured(T))
    BY <1>2 DEF InEffect
  <1>3. QED  BY <1>1, <1>2

-----------------------------------------------------------------------------
\* What the handlers keep true of the table and of themselves.
DeskInv ==
  /\ DOMAIN rules \subseteq 1..(nextRule - 1) /\ nextRule \in 1..(MaxRuleId + 1)
  /\ \A i \in DOMAIN rules : rules[i] \in RuleRows
  /\ facts \in [RuleMeetings -> FactSets]
  /\ DOMAIN editor = Editors
  /\ \A a \in Editors : /\ editor[a].pc \in {"idle", "patch", "delete", "audit"}
                        /\ editor[a].pc = "patch" => editor[a].patch \in Patches

\* The table of the handlers is one the evaluation can walk.
LEMMA DeskTable == DeskInv => TableOK(rules)
  <1> SUFFICES ASSUME DeskInv PROVE TableOK(rules)
    OBVIOUS
  <1>1. MaxRuleId \in Nat
    BY RuleAssumption
  <1>2. nextRule \in 1..(MaxRuleId + 1) /\ DOMAIN rules \subseteq 1..(nextRule - 1)
    BY DEF DeskInv
  <1>3. 1..(nextRule - 1) \subseteq (-1)..MaxRuleId
    BY <1>1, <1>2
  <1>4. QED  BY <1>2, <1>3 DEF TableOK, DraftId, DeskInv

\* The three ways in which a step changes the table.
Created(n, d) == /\ n \notin DOMAIN rules /\ n = nextRule /\ n <= MaxRuleId /\ nextRule' = n + 1
                 /\ rules' = WithRow(rules, n, d)
Patched(a, i) == /\ EditorAt(a, "patch") /\ i = editor[a].rule /\ i \in DOMAIN rules
                 /\ rules' = [rules EXCEPT ![i] = Merged(rules[i], editor[a].patch)]
                 /\ DOMAIN editor[a].patch = {"enabled"} \/ Valid(Merged(rules[i], editor[a].patch))
                 /\ nextRule' = nextRule
                 /\ editor'[a].pc = "audit"
Deleted(i) == i \in DOMAIN rules /\ rules' = Dropped(rules, i) /\ nextRule' = nextRule

\* A step creates, patches, deletes, or leaves the table alone.
LEMMA RulesChange ==
  ASSUME DeskInv, DeskNext
  PROVE  \/ UNCHANGED <<rules, nextRule>>
         \/ \E d \in Drafts : Created(nextRule, d)
         \/ \E a \in Editors : \E i \in DOMAIN rules : Patched(a, i)
         \/ \E i \in DOMAIN rules : Deleted(i)
  <1>1. CASE EditorsStop \/ \E m \in RuleMeetings, f \in RuleFields, v \in FactValues : Backfill(m, f, v)
    BY <1>1 DEF EditorsStop, Backfill
  <1>2. ASSUME NEW a \in Editors, EditStep(a)
        PROVE  \/ UNCHANGED <<rules, nextRule>>
               \/ \E d \in Drafts : Created(nextRule, d)
               \/ \E i \in DOMAIN rules : Patched(a, i)
               \/ \E i \in DOMAIN rules : Deleted(i)
    <2>1. ASSUME NEW d \in Drafts, CreateRule(a, d)
          PROVE  UNCHANGED <<rules, nextRule>> \/ Created(nextRule, d)
      <3>1. nextRule \in Int /\ DOMAIN rules \subseteq 1..(nextRule - 1) /\ nextRule <= MaxRuleId
        BY <2>1 DEF DeskInv, CreateRule
      <3>2. nextRule \notin DOMAIN rules
        BY <3>1
      <3>3. QED  BY <2>1, <3>1, <3>2 DEF CreateRule, Created
    <2>2. ASSUME NEW i, NEW p, NEW pc, ReadRule(a, pc, i, p)
          PROVE  UNCHANGED <<rules, nextRule>>
      BY <2>2 DEF ReadRule
    <2>3. ASSUME PatchRule(a)
          PROVE  UNCHANGED <<rules, nextRule>> \/ \E i \in DOMAIN rules : Patched(a, i)
      <3> DEFINE i == editor[a].rule
                 row == Merged(rules[i], editor[a].patch)
      <3>1. CASE i \notin DOMAIN rules
        BY <2>3, <3>1 DEF PatchRule
      <3>2. CASE i \in DOMAIN rules /\ ~(DOMAIN editor[a].patch = {"enabled"} \/ Valid(row))
        BY <2>3, <3>2 DEF PatchRule
      <3>3. CASE i \in DOMAIN rules /\ (DOMAIN editor[a].patch = {"enabled"} \/ Valid(row))
        <4>1. /\ EditorAt(a, "patch") /\ nextRule' = nextRule
              /\ rules' = [rules EXCEPT ![i] = row]
              /\ \E op : ToAudit(a, op, TRUE, i, editor[a].before, row)
          BY <2>3, <3>3 DEF PatchRule
        <4>2. editor'[a].pc = "audit"
          BY <4>1 DEF ToAudit, IdleEditor, DeskInv
        <4>3. QED  BY <3>3, <4>1, <4>2 DEF Patched
      <3>4. QED  BY <3>1, <3>2, <3>3
    <2>4. ASSUME DeleteRule(a)
          PROVE  UNCHANGED <<rules, nextRule>> \/ \E i \in DOMAIN rules : Deleted(i)
      <3>1. CASE editor[a].rule \in DOMAIN rules
        BY <2>4, <3>1 DEF DeleteRule, Deleted
      <3>2. CASE editor[a].rule \notin DOMAIN rules
        BY <2>4, <3>2 DEF DeleteRule
      <3>3. QED  BY <3>1, <3>2
    <2>5. ASSUME AuditEdit(a) PROVE UNCHANGED <<rules, nextRule>>
      BY <2>5 DEF AuditEdit
    <2>6. QED  BY <1>2, <2>1, <2>2, <2>3, <2>4, <2>5 DEF EditStep
  <1>3. QED  BY <1>1, <1>2 DEF DeskNext

\* The handlers start with a table of rows and no request.
LEMMA DeskBegins == DeskInit => DeskInv
  <1> SUFFICES ASSUME DeskInit PROVE DeskInv
    OBVIOUS
  <1>1. PICK n \in 0..MaxRuleId : DOMAIN rules = 1..n
    BY RuleAssumption DEF DeskInit
  <1>2. MaxRuleId \in Nat /\ n \in Nat
    BY RuleAssumption
  <1>3. Cardinality(1..n) = n
    BY <1>2, FS_Interval
  <1>4. nextRule = n + 1
    BY <1>1, <1>3 DEF DeskInit
  <1>5. DOMAIN rules \subseteq 1..(nextRule - 1) /\ nextRule \in 1..(MaxRuleId + 1)
    BY <1>1, <1>2, <1>4
  <1>6. \A i \in DOMAIN rules : rules[i] \in RuleRows
    BY RuleAssumption DEF DeskInit
  <1>7. facts \in [RuleMeetings -> FactSets]
    BY DEF DeskInit, FactSets
  <1>8. /\ DOMAIN editor = Editors
        /\ \A a \in Editors : editor[a].pc = "idle"
    BY DEF DeskInit, IdleEditor
  <1>9. QED  BY <1>5, <1>6, <1>7, <1>8 DEF DeskInv

\* A step leaves the table one of rows, with ids given out in order.
LEMMA DeskRules ==
  ASSUME DeskInv, DeskNext
  PROVE  /\ DOMAIN rules' \subseteq 1..(nextRule' - 1) /\ nextRule' \in 1..(MaxRuleId + 1)
         /\ \A i \in DOMAIN rules' : rules'[i] \in RuleRows
  <1>1. /\ DOMAIN rules \subseteq 1..(nextRule - 1) /\ nextRule \in 1..(MaxRuleId + 1)
        /\ \A i \in DOMAIN rules : rules[i] \in RuleRows
        /\ MaxRuleId \in Nat
    BY RuleAssumption DEF DeskInv
  <1>2. CASE UNCHANGED <<rules, nextRule>>
    BY <1>1, <1>2
  <1>3. ASSUME NEW d \in Drafts, Created(nextRule, d)
        PROVE  /\ DOMAIN rules' \subseteq 1..(nextRule' - 1) /\ nextRule' \in 1..(MaxRuleId + 1)
               /\ \A i \in DOMAIN rules' : rules'[i] \in RuleRows
    <2>1. /\ DOMAIN rules' = DOMAIN rules \cup {nextRule} /\ nextRule' = nextRule + 1
          /\ nextRule <= MaxRuleId
          /\ \A i \in DOMAIN rules' : rules'[i] = IF i = nextRule THEN d ELSE rules[i]
      BY <1>3 DEF Created, WithRow
    <2>2. d \in RuleRows
      BY RuleAssumption
    <2>3. DOMAIN rules' \subseteq 1..(nextRule' - 1) /\ nextRule' \in 1..(MaxRuleId + 1)
      BY <1>1, <2>1
    <2>4. QED  BY <1>1, <2>1, <2>2, <2>3
  <1>4. ASSUME NEW a \in Editors, NEW i \in DOMAIN rules, Patched(a, i)
        PROVE  /\ DOMAIN rules' \subseteq 1..(nextRule' - 1) /\ nextRule' \in 1..(MaxRuleId + 1)
               /\ \A j \in DOMAIN rules' : rules'[j] \in RuleRows
    <2>1. editor[a].patch \in Patches
      BY <1>4 DEF DeskInv, Patched, EditorAt
    <2>2. Merged(rules[i], editor[a].patch) \in RuleRows
      BY <1>1, <2>1, MergedType
    <2>3. QED  BY <1>1, <1>4, <2>2 DEF Patched
  <1>5. ASSUME NEW i \in DOMAIN rules, Deleted(i)
        PROVE  /\ DOMAIN rules' \subseteq 1..(nextRule' - 1) /\ nextRule' \in 1..(MaxRuleId + 1)
               /\ \A j \in DOMAIN rules' : rules'[j] \in RuleRows
    BY <1>1, <1>5 DEF Deleted, Dropped
  <1>6. QED  BY <1>2, <1>3, <1>4, <1>5, RulesChange

\* A step leaves every handler at one of its statements.
LEMMA DeskEditors ==
  ASSUME DeskInv, DeskNext
  PROVE  /\ DOMAIN editor' = Editors
         /\ \A a \in Editors : /\ editor'[a].pc \in {"idle", "patch", "delete", "audit"}
                               /\ editor'[a].pc = "patch" => editor'[a].patch \in Patches
  <1> DEFINE Fine(e) == /\ e.pc \in {"idle", "patch", "delete", "audit"}
                        /\ e.pc = "patch" => e.patch \in Patches
  <1>1. DOMAIN editor = Editors /\ \A a \in Editors : Fine(editor[a])
    BY DEF DeskInv
  <1>2. Fine(IdleEditor)
    BY DEF IdleEditor
  <1>3. ASSUME NEW a \in Editors, NEW op, NEW ok, NEW i, NEW b, NEW f, ToAudit(a, op, ok, i, b, f)
        PROVE  \E e : editor' = [editor EXCEPT ![a] = e] /\ Fine(e)
    <2> DEFINE e == [IdleEditor EXCEPT !.pc = "audit",
                       !.entry = [op |-> op, ok |-> ok, rule |-> i, before |-> b, after |-> f]]
    <2>1. editor' = [editor EXCEPT ![a] = e]
      BY <1>3 DEF ToAudit
    <2>2. Fine(e)
      BY DEF IdleEditor
    <2>3. QED
      <3> HIDE DEF e, Fine
      <3>1. QED  BY <2>1, <2>2
  <1>4. ASSUME NEW a \in Editors, EditStep(a)
        PROVE  \E e : editor' = [editor EXCEPT ![a] = e] /\ Fine(e)
    <2>1. ASSUME NEW d \in Drafts, CreateRule(a, d)
          PROVE  \E e : editor' = [editor EXCEPT ![a] = e] /\ Fine(e)
      <3>1. \E ok, i : ToAudit(a, "create", ok, i, <<>>, d)
        BY <2>1 DEF CreateRule
      <3>2. QED  BY <1>3, <3>1
    <2>2. ASSUME NEW i \in DOMAIN rules, NEW p \in Patches, ReadRule(a, "patch", i, p)
          PROVE  \E e : editor' = [editor EXCEPT ![a] = e] /\ Fine(e)
      <3> DEFINE e == [IdleEditor EXCEPT !.pc = "patch", !.rule = i, !.patch = p, !.before = rules[i]]
      <3>1. editor' = [editor EXCEPT ![a] = e]
        BY <2>2 DEF ReadRule
      <3>2. Fine(e)
        BY DEF IdleEditor
      <3>3. QED
        <4> HIDE DEF e, Fine
        <4>1. QED  BY <3>1, <3>2
    <2>3. ASSUME NEW i \in DOMAIN rules, ReadRule(a, "delete", i, <<>>)
          PROVE  \E e : editor' = [editor EXCEPT ![a] = e] /\ Fine(e)
      <3> DEFINE e == [IdleEditor EXCEPT !.pc = "delete", !.rule = i, !.patch = <<>>, !.before = rules[i]]
      <3>1. editor' = [editor EXCEPT ![a] = e]
        BY <2>3 DEF ReadRule
      <3>2. Fine(e)
        BY DEF IdleEditor
      <3>3. QED
        <4> HIDE DEF e, Fine
        <4>1. QED  BY <3>1, <3>2
    <2>4. ASSUME PatchRule(a) PROVE \E e : editor' = [editor EXCEPT ![a] = e] /\ Fine(e)
      <3>1. \/ editor' = [editor EXCEPT ![a] = IdleEditor]
            \/ \E op, ok, i, b, f : ToAudit(a, op, ok, i, b, f)
        BY <2>4 DEF PatchRule
      <3>2. QED  BY <1>2, <1>3, <3>1
    <2>5. ASSUME DeleteRule(a) PROVE \E e : editor' = [editor EXCEPT ![a] = e] /\ Fine(e)
      <3>1. \/ editor' = [editor EXCEPT ![a] = IdleEditor]
            \/ \E op, ok, i, b, f : ToAudit(a, op, ok, i, b, f)
        BY <2>5 DEF DeleteRule
      <3>2. QED  BY <1>2, <1>3, <3>1
    <2>6. ASSUME AuditEdit(a) PROVE \E e : editor' = [editor EXCEPT ![a] = e] /\ Fine(e)
      BY <1>2, <2>6 DEF AuditEdit
    <2>7. QED  BY <1>4, <2>1, <2>2, <2>3, <2>4, <2>5, <2>6 DEF EditStep
  <1>5. ASSUME NEW a \in Editors, EditStep(a)
        PROVE  DOMAIN editor' = Editors /\ \A b \in Editors : Fine(editor'[b])
    <2>1. PICK e : editor' = [editor EXCEPT ![a] = e] /\ Fine(e)
      BY <1>4, <1>5
    <2>2. QED  BY <1>1, <2>1
  <1>6. CASE EditorsStop
    BY <1>2, <1>6 DEF EditorsStop
  <1>7. CASE \E m \in RuleMeetings, f \in RuleFields, v \in FactValues : Backfill(m, f, v)
    BY <1>1, <1>7 DEF Backfill
  <1>8. DOMAIN editor' = Editors /\ \A b \in Editors : Fine(editor'[b])
    BY <1>5, <1>6, <1>7 DEF DeskNext
  <1>9. QED  BY <1>8

\* A step leaves the facts of meetings facts.
LEMMA DeskFacts ==
  ASSUME DeskInv, DeskNext
  PROVE  facts' \in [RuleMeetings -> FactSets]
  <1>1. facts \in [RuleMeetings -> FactSets]
    BY DEF DeskInv
  <1>2. ASSUME NEW m \in RuleMeetings, NEW f \in RuleFields, NEW v \in FactValues, Backfill(m, f, v)
        PROVE  facts' \in [RuleMeetings -> FactSets]
    BY <1>1, <1>2 DEF Backfill, FactSets
  <1>3. CASE EditorsStop
    BY <1>1, <1>3 DEF EditorsStop
  <1>4. ASSUME NEW a \in Editors, EditStep(a) PROVE facts' = facts
    BY <1>4 DEF EditStep, CreateRule, ReadRule, PatchRule, DeleteRule, AuditEdit
  <1>5. QED  BY <1>1, <1>2, <1>3, <1>4 DEF DeskNext

\* The invariant of the desk.
LEMMA DeskAlways == DeskSpec => []DeskInv
  <1>1. DeskInv /\ [DeskNext]_deskVars => DeskInv'
    <2> SUFFICES ASSUME DeskInv, [DeskNext]_deskVars PROVE DeskInv'
      OBVIOUS
    <2>1. CASE DeskNext
      BY <2>1, DeskRules, DeskEditors, DeskFacts DEF DeskInv
    <2>2. CASE UNCHANGED deskVars
      BY <2>2 DEF deskVars, DeskInv
    <2>3. QED  BY <2>1, <2>2
  <1>2. QED  BY <1>1, DeskBegins, PTL DEF DeskSpec

\* The rows of the table stay rows, and a decision made although facts are missing is the
\* one their completion gives, whatever the rules and whatever is missing
\* (policy/conds.ts, policy/stacks.ts: evaluateStack).
THEOREM DecisionsAreExact == DeskSpec => [](DeskTypeOK /\ VerdictsAreExact)
  <1>1. DeskInv => DeskTypeOK
    BY DEF DeskInv, DeskTypeOK, FactSets
  <1>2. DeskInv => VerdictsAreExact
    <2> SUFFICES ASSUME DeskInv, NEW k \in Kinds, NEW m \in RuleMeetings, NEW p \in Asked(k)
                 PROVE  LET T == InEffect(rules, k)
                            d == Decide(T, k, facts[m], p)
                            full == Completions(facts[m])
                        IN IF d.source # "undecidable"
                           THEN \A y \in full : Decide(T, k, y, p) = d
                           ELSE {Hits(T[d.rule], y) : y \in full} = BOOLEAN
      BY DEF VerdictsAreExact
    <2>1. TableOK(InEffect(rules, k)) /\ facts[m] \in FactSets
      BY DeskTable, InEffectOK DEF DeskInv
    <2>2. QED  BY <2>1, DecisionExact
  <1>3. QED  BY <1>1, <1>2, DeskAlways, PTL

\* A request that only switches a rule on or off leaves a sound rule sound.
LEMMA ToggleKeepsValid ==
  ASSUME NEW r, NEW p, DOMAIN p = {"enabled"}, Valid(r)
  PROVE  Valid(Merged(r, p))
  <1>1. \A c \in RuleColumns \ {"enabled"} : Merged(r, p)[c] = r[c]
    BY DEF Merged
  <1>2. QED  BY <1>1 DEF Valid, Tested, RuleColumns

\* Two administrators who edit one rule lose nothing of each other's edits, and no edit
\* spoils a sound rule (store/policy.ts: updateRule merges into the row it has locked).
THEOREM EditsKeepEachOther == DeskSpec => EditsMerge
  <1> DEFINE Kept(i) ==
        /\ \A c \in RuleColumns : rules'[i][c] # rules[i][c] =>
             \E a \in Editors : /\ EditorAt(a, "patch") /\ editor[a].rule = i
                                /\ editor'[a].pc = "audit" /\ c \in DOMAIN editor[a].patch
        /\ Valid(rules[i]) => Valid(rules'[i])
  <1>1. ASSUME DeskInv, DeskNext, NEW i \in DOMAIN rules \cap DOMAIN rules'
        PROVE  Kept(i)
    <2>1. CASE rules'[i] = rules[i]
      BY <2>1
    <2>2. ASSUME NEW d \in Drafts, Created(nextRule, d) PROVE rules'[i] = rules[i]
      BY <1>1, <2>2 DEF Created, WithRow
    <2>3. ASSUME NEW j \in DOMAIN rules, Deleted(j) PROVE rules'[i] = rules[i]
      BY <1>1, <2>3 DEF Deleted, Dropped
    <2>4. ASSUME NEW a \in Editors, NEW j \in DOMAIN rules, Patched(a, j), rules'[i] # rules[i]
          PROVE  Kept(i)
      <3>1. i = j
        BY <2>4 DEF Patched
      <3>2. rules'[i] = Merged(rules[i], editor[a].patch)
        BY <2>4, <3>1 DEF Patched
      <3>3. EditorAt(a, "patch") /\ editor[a].rule = i /\ editor'[a].pc = "audit"
        BY <2>4, <3>1 DEF Patched
      <3>4. \A c \in RuleColumns : rules'[i][c] # rules[i][c] => c \in DOMAIN editor[a].patch
        BY <3>2 DEF Merged
      <3>5. Valid(rules[i]) => Valid(rules'[i])
        BY <2>4, <3>1, <3>2, ToggleKeepsValid DEF Patched
      <3>6. QED  BY <3>3, <3>4, <3>5
    <2>5. QED  BY <1>1, <2>1, <2>2, <2>3, <2>4, RulesChange
  <1>2. DeskInv /\ [DeskNext]_deskVars =>
          [\A i \in DOMAIN rules \cap DOMAIN rules' : Kept(i)]_rules
    BY <1>1 DEF deskVars
  <1>3. QED  BY <1>2, DeskAlways, PTL DEF DeskSpec, EditsMerge

-----------------------------------------------------------------------------
\* The preview of a change.  What the row r, under the id i, makes of a meeting at which the
\* walk ends with it.
Outcome(r, i, k, x) ==
  IF Hits(r, x) THEN [effect |-> Says(r, k).effect, assets |-> Says(r, k).assets, rule |-> i,
                      source |-> Says(r, k).source]
  ELSE [effect |-> "shut", assets |-> {}, rule |-> i, source |-> "undecidable"]

\* The first row at which the walk stops makes the decision (DecideFirst, in one piece).
LEMMA DecideOutcome ==
  ASSUME NEW T, TableOK(T), NEW k, NEW x, NEW p, NEW i \in Stops(T, k, x, p),
         \A j \in Stops(T, k, x, p) \ {i} : Earlier(T, i, j)
  PROVE  Decide(T, k, x, p) = Outcome(T[i], i, k, x)
  BY DecideFirst DEF Outcome

\* Under another id a row says the same, in its own name.
LEMMA OutcomeRenamed ==
  ASSUME NEW r, NEW k, NEW x, NEW i, NEW j
  PROVE  /\ Outcome(r, i, k, x).rule = i
         /\ Outcome(r, i, k, x).effect = Outcome(r, j, k, x).effect
         /\ Outcome(r, i, k, x).assets = Outcome(r, j, k, x).assets
  <1>1. CASE Hits(r, x)
    BY <1>1 DEF Outcome
  <1>2. CASE ~Hits(r, x)
    BY <1>2 DEF Outcome
  <1>3. QED  BY <1>1, <1>2

\* A decision names a rule of the table, or none.
LEMMA DecisionNames ==
  ASSUME NEW T, TableOK(T), NEW k, NEW x, NEW p
  PROVE  Decide(T, k, x, p).rule \in DOMAIN T \cup {0}
  <1>1. Stops(T, k, x, p) \in SUBSET DOMAIN T
    BY DEF Stops
  <1>2. CASE Stops(T, k, x, p) = {}
    <2>1. Decide(T, k, x, p) = [effect |-> "shut", assets |-> {}, rule |-> 0, source |-> "default"]
      BY <1>2, DecideDefault
    <2>2. QED  BY <2>1
  <1>3. CASE Stops(T, k, x, p) # {}
    <2>1. PICK i \in Stops(T, k, x, p) : \A h \in Stops(T, k, x, p) \ {i} : Earlier(T, i, h)
      BY <1>1, <1>3, FirstExists
    <2>2. Decide(T, k, x, p) = Outcome(T[i], i, k, x)
      BY <2>1, DecideOutcome
    <2>3. Decide(T, k, x, p).rule = i
      BY <2>2, OutcomeRenamed
    <2>4. QED  BY <1>1, <2>3
  <1>4. QED  BY <1>2, <1>3

\* Two stacks that stop at the same ids, with the same rows there, decide alike.
LEMMA SameStops ==
  ASSUME NEW T, TableOK(T), NEW U, TableOK(U), NEW k, NEW x, NEW p,
         Stops(T, k, x, p) = Stops(U, k, x, p), \A i \in Stops(T, k, x, p) : T[i] = U[i]
  PROVE  Decide(T, k, x, p) = Decide(U, k, x, p)
  <1> DEFINE stops == Stops(T, k, x, p)
  <1>1. stops \in SUBSET DOMAIN T
    BY DEF Stops
  <1>2. CASE stops = {}
    <2>1. Stops(T, k, x, p) = {} /\ Stops(U, k, x, p) = {}
      BY <1>2
    <2>2. QED  BY <2>1, DecideDefault
  <1>3. CASE stops # {}
    <2>1. PICK i \in stops : \A h \in stops \ {i} : Earlier(T, i, h)
      BY <1>1, <1>3, FirstExists
    <2>2. \A h \in stops \ {i} : Earlier(U, i, h)
      BY <2>1 DEF Earlier
    <2>3. Decide(T, k, x, p) = Outcome(T[i], i, k, x)
      BY <2>1, DecideOutcome
    <2>4. Decide(U, k, x, p) = Outcome(U[i], i, k, x)
      BY <2>1, <2>2, DecideOutcome
    <2>5. T[i] = U[i]
      BY <2>1
    <2>6. QED  BY <2>3, <2>4, <2>5
  <1>4. QED  BY <1>2, <1>3

\* A stack in effect as it stands: all but that of fetching without a rule to fetch by.
Stands(T, k) == ~(k = "fetch" /\ Unconfigured(T))

\* Of a stack that stands, the decision is that on the table itself.
LEMMA DecisionStands ==
  ASSUME NEW T, NEW k, NEW x, NEW p, Stands(T, k)
  PROVE  Decision(T, k, x, p) = Decide(T, k, x, p)
  <1>1. InEffect(T, k) = T
    BY DEF InEffect, Stands
  <1>2. QED  BY <1>1 DEF Decision

\* Without a rule to fetch by, everything of every meeting is fetched.
LEMMA UnconfiguredOpens ==
  ASSUME NEW T, TableOK(T), Unconfigured(T), NEW x, NEW p
  PROVE  Decision(T, "fetch", x, p) =
           [effect |-> "open", assets |-> RuleAssets, rule |-> 0, source |-> "rule"]
  <1> DEFINE U == InEffect(T, "fetch")
             stops == Stops(U, "fetch", x, p)
  <1>1. TableOK(U)
    BY InEffectOK
  <1>2. DOMAIN U = DOMAIN T \cup {0} /\ \A i \in DOMAIN U : U[i] = IF i = 0 THEN CompatRule ELSE T[i]
    BY DEF InEffect, WithRow
  <1> HIDE DEF U
  <1>3. U[0] = CompatRule
    BY <1>2
  <1>4. Hits(U[0], x) /\ U[0].kind = "fetch" /\ U[0].enabled
    <2>1. Hits(CompatRule, x)
      BY CompatType
    <2>2. CompatRule.kind = "fetch" /\ CompatRule.enabled
      BY DEF CompatRule
    <2>3. QED  BY <1>3, <2>1, <2>2
  <1>5. 0 \in stops
    BY <1>2, <1>4 DEF Stops, Applies
  <1>6. ASSUME NEW i \in stops PROVE i = 0
    <2> SUFFICES ASSUME i # 0 PROVE FALSE
      OBVIOUS
    <2>1. i \in DOMAIN U /\ U[i].kind = "fetch" /\ U[i].enabled
      BY DEF Stops
    <2>2. i \in DOMAIN T /\ U[i] = T[i]
      BY <1>2, <2>1
    <2>3. QED  BY <2>1, <2>2 DEF Unconfigured
  <1>7. Decide(U, "fetch", x, p) = [effect |-> Says(U[0], "fetch").effect,
                                    assets |-> Says(U[0], "fetch").assets, rule |-> 0,
                                    source |-> Says(U[0], "fetch").source]
    BY <1>1, <1>4, <1>5, <1>6, DecideFirst
  <1>8. /\ Says(U[0], "fetch").effect = "open" /\ Says(U[0], "fetch").assets = RuleAssets
        /\ Says(U[0], "fetch").source = "rule"
    BY <1>3 DEF Says, CompatRule
  <1>9. QED  BY <1>7, <1>8 DEF Decision, U

\* A meeting outside the scope of a preview, or without a program it names, is decided as
\* before: for complete facts, a rule that is not changed stops both walks or neither.
LEMMA Unmoved ==
  ASSUME NEW S, TableOK(S), NEW U, TableOK(U), NEW k \in Kinds, NEW x \in FactSets, Complete(x),
         NEW W \in SUBSET RuleMeetings, NEW m \in W, NEW p \in Asked(k),
         ~InScope(S, U, k, x) \/ <<m, p>> \notin Subjects(W, S, U, k)
  PROVE  Decision(S, k, x, p) = Decision(U, k, x, p)
  <1> DEFINE Hit(T) == {i \in DOMAIN T : /\ T[i].kind = k /\ T[i].enabled /\ Applies(k, T[i], p)
                                         /\ Hits(T[i], x)}
  <1>1. \A i \in DOMAIN S : S[i] \in RuleRows /\ ~Undecidable(S[i], x)
    BY CompleteDecides DEF TableOK
  <1>2. \A i \in DOMAIN U : U[i] \in RuleRows /\ ~Undecidable(U[i], x)
    BY CompleteDecides DEF TableOK
  <1>3. Stops(S, k, x, p) = Hit(S) /\ Stops(U, k, x, p) = Hit(U)
    BY <1>1, <1>2 DEF Stops
  <1>4. CASE ~InScope(S, U, k, x)
    <2>1. ASSUME NEW i \in DOMAIN S, S[i].kind = k, Hits(S[i], x)
          PROVE  i \in DOMAIN U /\ S[i] = U[i]
      <3>1. i \notin Changed(S, U, k)
        BY <1>4, <2>1 DEF InScope, HitBy
      <3>2. QED  BY <2>1, <3>1 DEF Changed
    <2>2. ASSUME NEW i \in DOMAIN U, U[i].kind = k, Hits(U[i], x)
          PROVE  i \in DOMAIN S /\ S[i] = U[i]
      <3>1. i \notin Changed(S, U, k)
        BY <1>4, <2>2 DEF InScope, HitBy
      <3>2. QED  BY <2>2, <3>1 DEF Changed
    <2>3. Hit(S) = Hit(U) /\ \A i \in Hit(S) : S[i] = U[i]
      BY <2>1, <2>2
    <2>4. k = "fetch" => (Unconfigured(S) <=> Unconfigured(U))
      BY <1>4 DEF InScope, Unconfigured
    <2>5. CASE Stands(S, k)
      <3>1. Stands(U, k)
        BY <2>4, <2>5 DEF Stands
      <3>2. Stops(S, k, x, p) = Stops(U, k, x, p) /\ \A i \in Stops(S, k, x, p) : S[i] = U[i]
        BY <1>3, <2>3
      <3>3. Decide(S, k, x, p) = Decide(U, k, x, p)
        BY <3>2, SameStops
      <3>4. QED  BY <2>5, <3>1, <3>3, DecisionStands
    <2>6. CASE ~Stands(S, k)
      <3>1. k = "fetch" /\ Unconfigured(S) /\ Unconfigured(U)
        BY <2>4, <2>6 DEF Stands
      <3>2. QED  BY <3>1, UnconfiguredOpens
    <2>7. QED  BY <2>5, <2>6
  <1>5. CASE <<m, p>> \notin Subjects(W, S, U, k)
    <2>1. k = "allow" /\ p \in RulePrograms /\ p # NoSubject
      BY <1>5, RuleAssumption DEF Subjects, Asked
    <2>2. p \notin ProgramsOf(S, U)
      BY <1>5, <2>1 DEF Subjects
    <2>3. Hit(S) = {} /\ Hit(U) = {}
      BY <2>1, <2>2 DEF ProgramsOf, Applies
    <2>4. Decide(S, k, x, p) = Decide(U, k, x, p)
      BY <1>3, <2>3, DecideDefault
    <2>5. Stands(S, k) /\ Stands(U, k)
      BY <2>1 DEF Stands
    <2>6. QED  BY <2>4, <2>5, DecisionStands
  <1>6. QED  BY <1>4, <1>5

\* A change that adds no rule is previewed on the very table it leads to.
LEMMA CandidateOfKept ==
  ASSUME NEW S, NEW T, TableOK(T), DOMAIN T \subseteq DOMAIN S, DraftId \notin DOMAIN T
  PROVE  LET U == Candidate(S, T)
         IN /\ TableOK(U)
            /\ \A k, x, p : Decision(U, k, x, p) = Decision(T, k, x, p)
  <1> DEFINE U == Candidate(S, T)
  <1>1. DOMAIN U = DOMAIN T /\ \A i \in DOMAIN T : U[i] = T[i]
    BY DEF Candidate
  <1> HIDE DEF U
  <1>2. TableOK(U)
    BY <1>1 DEF TableOK
  <1>3. ASSUME NEW k, NEW x, NEW p PROVE Decision(U, k, x, p) = Decision(T, k, x, p)
    <2>1. Unconfigured(U) <=> Unconfigured(T)
      BY <1>1 DEF Unconfigured
    <2>2. CASE Stands(T, k)
      <3>1. Stands(U, k)
        BY <2>1, <2>2 DEF Stands
      <3>2. Stops(U, k, x, p) = Stops(T, k, x, p) /\ \A i \in Stops(U, k, x, p) : U[i] = T[i]
        BY <1>1 DEF Stops
      <3>3. Decide(U, k, x, p) = Decide(T, k, x, p)
        BY <1>2, <3>2, SameStops
      <3>4. QED  BY <2>2, <3>1, <3>3, DecisionStands
    <2>3. CASE ~Stands(T, k)
      <3>1. k = "fetch" /\ Unconfigured(T) /\ Unconfigured(U)
        BY <2>1, <2>3 DEF Stands
      <3>2. QED  BY <1>2, <3>1, UnconfiguredOpens
    <2>4. QED  BY <2>2, <2>3
  <1>4. QED  BY <1>2, <1>3 DEF U

\* Two decisions that come to the same, one in the name of rule i, the other of rule j, or
\* that are one.
Renamed(d, e, i, j) ==
  \/ d = e
  \/ d.rule = i /\ e.rule = j /\ d.effect = e.effect /\ d.assets = e.assets

\* A new rule that ties with none sorts under DraftId where it will sort under its own id.
LEMMA CandidateOfNew ==
  ASSUME NEW S, TableOK(S), NEW n \in 1..MaxRuleId, DOMAIN S \subseteq 1..(n - 1),
         NEW d \in RuleRows, NEW T, T = WithRow(S, n, d), TableOK(T), TiesNone(S, T)
  PROVE  LET U == Candidate(S, T)
         IN /\ TableOK(U)
            /\ \A k, x, p : Renamed(Decision(U, k, x, p), Decision(T, k, x, p), DraftId, n)
  <1> DEFINE U == Candidate(S, T)
  <1>1. /\ \A i \in DOMAIN S : i \in Int /\ 0 < i /\ i < n
        /\ n \notin DOMAIN S /\ DraftId \notin DOMAIN S /\ DraftId < n /\ n # DraftId
        /\ n \in Int /\ DraftId \in Int /\ DraftId \in DraftId..MaxRuleId
    BY RuleAssumption DEF DraftId
  <1>2. /\ DOMAIN T = DOMAIN S \cup {n} /\ T[n] = d
        /\ \A i \in DOMAIN S : T[i] = S[i]
    BY <1>1 DEF WithRow
  <1>3. (CHOOSE j \in DOMAIN T \ DOMAIN S : TRUE) = n
    BY <1>1, <1>2
  <1>4. /\ DOMAIN U = DOMAIN S \cup {DraftId} /\ U[DraftId] = d
        /\ \A i \in DOMAIN S : U[i] = S[i]
    BY <1>1, <1>2, <1>3 DEF Candidate
  <1> HIDE DEF U
  <1>5. TableOK(U)
    BY <1>1, <1>4 DEF TableOK
  <1>6. \A j \in DOMAIN S : ~(S[j].kind = d.kind /\ S[j].priority = d.priority)
    BY <1>1, <1>2 DEF TiesNone
  <1>7. ASSUME NEW k, NEW x, NEW p
        PROVE  Renamed(Decision(U, k, x, p), Decision(T, k, x, p), DraftId, n)
    <2> DEFINE Stopped(r) == r.kind = k /\ r.enabled /\ Applies(k, r, p) /\ (Hits(r, x) \/ Undecidable(r, x))
               old == {i \in DOMAIN S : Stopped(S[i])}
    <2>1. Unconfigured(U) <=> Unconfigured(T)
      BY <1>2, <1>4 DEF Unconfigured
    <2>2. /\ Stops(T, k, x, p) = old \cup (IF Stopped(d) THEN {n} ELSE {})
          /\ Stops(U, k, x, p) = old \cup (IF Stopped(d) THEN {DraftId} ELSE {})
      BY <1>2, <1>4 DEF Stops
    <2>3. CASE Stands(T, k)
      <3>1. Stands(U, k)
        BY <2>1, <2>3 DEF Stands
      <3>2. Stops(T, k, x, p) \in SUBSET DOMAIN T
        BY DEF Stops
      <3>3. Renamed(Decide(U, k, x, p), Decide(T, k, x, p), DraftId, n)
        <4>1. CASE ~Stopped(d)
          <5>1. Stops(U, k, x, p) = Stops(T, k, x, p) /\ \A i \in Stops(U, k, x, p) : U[i] = T[i]
            BY <1>2, <1>4, <2>2, <4>1
          <5>2. QED  BY <1>5, <5>1, SameStops DEF Renamed
        <4>2. CASE Stopped(d)
          <5>1. PICK i \in Stops(T, k, x, p) : \A h \in Stops(T, k, x, p) \ {i} : Earlier(T, i, h)
            BY <2>2, <3>2, <4>2, FirstExists
          <5>2. ASSUME NEW h \in old
                PROVE  /\ h \in DOMAIN S /\ T[h] = S[h] /\ U[h] = S[h] /\ h # n /\ h # DraftId
                       /\ S[h].priority # d.priority
            BY <1>1, <1>2, <1>4, <1>6, <4>2
          <5>3. CASE i = n
            <6>1. ASSUME NEW h \in Stops(U, k, x, p) \ {DraftId} PROVE Earlier(U, DraftId, h)
              <7>1. h \in old /\ Earlier(T, n, h)
                BY <2>2, <5>1, <5>2, <5>3
              <7>2. QED  BY <1>2, <1>4, <5>2, <7>1 DEF Earlier
            <6>2. DraftId \in Stops(U, k, x, p) /\ U[DraftId] = T[i]
              BY <1>2, <1>4, <2>2, <4>2, <5>3
            <6>3. Decide(U, k, x, p) = Outcome(d, DraftId, k, x)
              BY <1>4, <1>5, <6>1, <6>2, DecideOutcome
            <6>4. Decide(T, k, x, p) = Outcome(d, n, k, x)
              BY <1>2, <5>1, <5>3, DecideOutcome
            <6>5. QED  BY <6>3, <6>4, OutcomeRenamed DEF Renamed
          <5>4. CASE i # n
            <6>1. i \in old /\ Earlier(T, i, n)
              BY <2>2, <4>2, <5>1, <5>4
            <6>2. Earlier(U, i, DraftId)
              BY <1>2, <1>4, <5>2, <6>1 DEF Earlier
            <6>3. ASSUME NEW h \in Stops(U, k, x, p) \ {i} PROVE Earlier(U, i, h)
              <7>1. CASE h = DraftId
                BY <6>2, <7>1
              <7>2. CASE h \in old
                <8>1. Earlier(T, i, h)
                  BY <2>2, <5>1, <6>3, <7>2
                <8>2. QED  BY <5>2, <6>1, <7>2, <8>1 DEF Earlier
              <7>3. QED  BY <2>2, <7>1, <7>2
            <6>4. i \in Stops(U, k, x, p) /\ U[i] = T[i]
              BY <2>2, <5>2, <6>1
            <6>5. Decide(U, k, x, p) = Outcome(U[i], i, k, x)
              BY <1>5, <6>3, <6>4, DecideOutcome
            <6>6. Decide(T, k, x, p) = Outcome(T[i], i, k, x)
              BY <5>1, DecideOutcome
            <6>7. QED  BY <6>4, <6>5, <6>6 DEF Renamed
          <5>5. QED  BY <5>3, <5>4
        <4>3. QED  BY <4>1, <4>2
      <3>4. QED  BY <2>3, <3>1, <3>3, DecisionStands
    <2>4. CASE ~Stands(T, k)
      <3>1. k = "fetch" /\ Unconfigured(T) /\ Unconfigured(U)
        BY <2>1, <2>4 DEF Stands
      <3>2. QED  BY <1>5, <3>1, UnconfiguredOpens DEF Renamed
    <2>5. QED  BY <2>3, <2>4
  <1>8. QED  BY <1>5, <1>7 DEF U

\* The decisions of two tables that come to the same, be it in the name of another rule
\* that is not of table S, differ alike from what S decides.
LEMMA RenamedTells ==
  ASSUME NEW S, TableOK(S), NEW U, NEW T, NEW k, NEW x, NEW p, NEW i, NEW j,
         i \notin DOMAIN S \cup {0}, j \notin DOMAIN S \cup {0},
         Renamed(Decision(U, k, x, p), Decision(T, k, x, p), i, j)
  PROVE  /\ Decision(S, k, x, p) # Decision(U, k, x, p) <=> Decision(S, k, x, p) # Decision(T, k, x, p)
         /\ Verdict(U, k, x, p) = Verdict(T, k, x, p)
  <1>1. Decision(S, k, x, p).rule \in DOMAIN S \cup {0}
    <2>1. TableOK(InEffect(S, k))
      BY InEffectOK
    <2>2. DOMAIN InEffect(S, k) \subseteq DOMAIN S \cup {0}
      BY DEF InEffect, WithRow
    <2>3. Decide(InEffect(S, k), k, x, p).rule \in DOMAIN InEffect(S, k) \cup {0}
      BY <2>1, DecisionNames
    <2>4. QED  BY <2>2, <2>3 DEF Decision
  <1>2. CASE Decision(U, k, x, p) = Decision(T, k, x, p)
    BY <1>2 DEF Verdict
  <1>3. CASE Decision(U, k, x, p) # Decision(T, k, x, p)
    <2>1. /\ Decision(U, k, x, p).rule = i /\ Decision(T, k, x, p).rule = j
          /\ Decision(U, k, x, p).effect = Decision(T, k, x, p).effect
          /\ Decision(U, k, x, p).assets = Decision(T, k, x, p).assets
      BY <1>3 DEF Renamed
    <2>2. Decision(S, k, x, p) # Decision(U, k, x, p) /\ Decision(S, k, x, p) # Decision(T, k, x, p)
      BY <1>1, <2>1
    <2>3. QED  BY <2>1, <2>2 DEF Verdict
  <1>4. QED  BY <1>2, <1>3

\* The preview of any change the handlers make is made on a table that decides like the
\* one the change leads to.
LEMMA CandidateDecides ==
  ASSUME DeskInv, DeskNext, rules' # rules, TiesNone(rules, rules')
  PROVE  LET U == Candidate(rules, rules')
         IN /\ TableOK(U)
            /\ \A k, x, p :
                 /\ Decision(rules, k, x, p) # Decision(U, k, x, p)
                      <=> Decision(rules, k, x, p) # Decision(rules', k, x, p)
                 /\ Verdict(U, k, x, p) = Verdict(rules', k, x, p)
  <1> DEFINE U == Candidate(rules, rules')
             Alike(k, x, p) ==
               /\ Decision(rules, k, x, p) # Decision(U, k, x, p)
                    <=> Decision(rules, k, x, p) # Decision(rules', k, x, p)
               /\ Verdict(U, k, x, p) = Verdict(rules', k, x, p)
  <1>1. TableOK(rules) /\ DOMAIN rules \subseteq 1..(nextRule - 1) /\ nextRule \in 1..(MaxRuleId + 1)
    BY DeskTable DEF DeskInv
  <1>2. MaxRuleId \in Nat
    BY RuleAssumption
  <1>3. TableOK(rules')
    <2>1. /\ DOMAIN rules' \subseteq 1..(nextRule' - 1) /\ nextRule' \in 1..(MaxRuleId + 1)
          /\ \A i \in DOMAIN rules' : rules'[i] \in RuleRows
      BY DeskRules
    <2>2. PICK n \in 1..(MaxRuleId + 1) : n = nextRule'
      BY <2>1
    <2>3. 1..(n - 1) \subseteq (-1)..MaxRuleId
      BY <1>2
    <2>4. DOMAIN rules' \subseteq 1..(n - 1)
      BY <2>1, <2>2
    <2>5. QED  BY <2>1, <2>3, <2>4 DEF TableOK, DraftId
  <1>4. DraftId \notin DOMAIN rules \cup {0} /\ nextRule \notin DOMAIN rules \cup {0}
    BY <1>1 DEF DraftId
  <1>5. ASSUME NEW d \in Drafts, Created(nextRule, d)
        PROVE  TableOK(U) /\ \A k, x, p : Alike(k, x, p)
    <2>1. nextRule \in 1..MaxRuleId /\ rules' = WithRow(rules, nextRule, d) /\ d \in RuleRows
      BY <1>1, <1>2, <1>5, RuleAssumption DEF Created
    <2>2. /\ TableOK(U)
          /\ \A k, x, p : Renamed(Decision(U, k, x, p), Decision(rules', k, x, p), DraftId, nextRule)
      BY <1>1, <1>3, <2>1, CandidateOfNew
    <2> HIDE DEF U
    <2>3. ASSUME NEW k, NEW x, NEW p PROVE Alike(k, x, p)
      BY <1>1, <1>4, <2>2, RenamedTells
    <2>4. QED  BY <2>2, <2>3
  <1>6. ASSUME DOMAIN rules' \subseteq DOMAIN rules
        PROVE  TableOK(U) /\ \A k, x, p : Alike(k, x, p)
    <2>1. DraftId \notin DOMAIN rules'
      BY <1>4, <1>6
    <2>2. TableOK(U) /\ \A k, x, p : Decision(U, k, x, p) = Decision(rules', k, x, p)
      BY <1>3, <1>6, <2>1, CandidateOfKept
    <2> HIDE DEF U
    <2>3. QED  BY <2>2 DEF Verdict
  <1>7. ASSUME NEW a \in Editors, NEW i \in DOMAIN rules, Patched(a, i)
        PROVE  DOMAIN rules' \subseteq DOMAIN rules
    BY <1>7 DEF Patched
  <1>8. ASSUME NEW i \in DOMAIN rules, Deleted(i)
        PROVE  DOMAIN rules' \subseteq DOMAIN rules
    BY <1>8 DEF Deleted, Dropped
  <1> HIDE DEF U, Alike
  <1>9. TableOK(U) /\ \A k, x, p : Alike(k, x, p)
    BY <1>5, <1>6, <1>7, <1>8, RulesChange
  <1>10. QED  BY <1>9 DEF U, Alike

\* Saving a change does what its preview said of every meeting that was scanned and whose
\* facts are complete, and the preview says nothing of the others: it moves those listed
\* as changed, leaves under their override those listed as shielded, and hands the others
\* it lists over to another rule (policy/preview.ts, handlers/console/rules.ts).
THEOREM PreviewForetells == DeskSpec => PreviewTellsKnown
  <1>1. ASSUME DeskInv, DeskNext, rules' # rules, TiesNone(rules, rules'), NEW W \in Scans,
               NEW k \in Kinds, NEW s \in RuleMeetings \X Asked(k), Gapless(s[1])
        PROVE  Foretold(W, rules, rules', k, s)
    <2> DEFINE U == Candidate(rules, rules')
               x == facts[s[1]]
               p == s[2]
               InHand == <<s[1], k>> \in hand
               Differs == Decision(rules, k, x, p) # Decision(rules', k, x, p)
               Moves == Verdict(rules, k, x, p) # Verdict(rules', k, x, p)
               differing == {t \in Subjects(W, rules, U, k) :
                               /\ InScope(rules, U, k, facts[t[1]])
                               /\ Decision(rules, k, facts[t[1]], t[2]) # Decision(U, k, facts[t[1]], t[2])}
               shielded == {t \in differing : <<t[1], k>> \in hand}
               moved == {t \in differing :
                           Verdict(rules, k, facts[t[1]], t[2]) # Verdict(U, k, facts[t[1]], t[2])}
               listed == Impact(W, rules, U, k)
    <2>1. s[1] \in RuleMeetings /\ s[2] \in Asked(k) /\ s = <<s[1], s[2]>> /\ W \in SUBSET RuleMeetings
      BY DEF Scans
    <2>2. x \in FactSets /\ Complete(x)
      BY <1>1, <2>1 DEF DeskInv, Gapless, Complete
    <2>3. /\ TableOK(U) /\ Verdict(U, k, x, p) = Verdict(rules', k, x, p)
          /\ Decision(rules, k, x, p) # Decision(U, k, x, p) <=> Differs
      BY <1>1, CandidateDecides
    <2>4. TableOK(rules)
      BY <1>1, DeskTable
    <2> HIDE DEF U
    <2>5. s[1] \in W /\ Differs => s \in Subjects(W, rules, U, k) /\ InScope(rules, U, k, x)
      BY <2>1, <2>2, <2>3, <2>4, Unmoved
    <2>6. s \in Subjects(W, rules, U, k) => s[1] \in W
      BY <2>1 DEF Subjects
    <2>7. s \in differing <=> s[1] \in W /\ Differs
      BY <2>3, <2>5, <2>6
    <2>8. Moves => Differs
      BY DEF Verdict
    <2>9. /\ s \in shielded <=> s[1] \in W /\ InHand /\ Differs
          /\ s \in moved <=> s[1] \in W /\ Moves
      BY <2>3, <2>7, <2>8
    <2>10. listed = [changed |-> moved \ shielded, shielded |-> shielded,
                     deciderOnly |-> differing \ (moved \cup shielded)]
      BY DEF Impact
    <2>11. Standing(rules, k, s) # Standing(rules', k, s) <=> ~InHand /\ Moves
      BY DEF Standing
    <2> HIDE DEF Moves, Differs, InHand, differing, moved, shielded, listed
    <2>12. /\ s \in listed.changed <=> s[1] \in W /\ ~InHand /\ Moves
           /\ s \in listed.shielded <=> s[1] \in W /\ InHand /\ Differs
           /\ s \in listed.deciderOnly <=> s[1] \in W /\ ~InHand /\ ~(~InHand /\ Moves) /\ Differs
      BY <2>7, <2>8, <2>9, <2>10
    <2>13. QED  BY <2>11, <2>12 DEF Foretold, InHand, Differs, listed, U
  <1>2. DeskInv /\ [DeskNext]_deskVars =>
          [TiesNone(rules, rules') =>
             \A W \in Scans, k \in Kinds : \A s \in RuleMeetings \X Asked(k) :
               Gapless(s[1]) => Foretold(W, rules, rules', k, s)]_rules
    BY <1>1 DEF deskVars
  <1>3. QED  BY <1>2, DeskAlways, PTL DEF DeskSpec, PreviewTellsKnown

-----------------------------------------------------------------------------
(* What MCConsole runs *)

\* Each of the three starts as it may by itself.
LEMMA OfficeStarts == OfficeInit => ConsoleInit /\ RateInit /\ DeskInit
  BY DEF OfficeInit, ConsoleStart, DeskStart

\* A step of the run is a step of one of the three, which the others do not see.
LEMMA OfficeStep ==
  [OfficeNext]_<<focus, consoleVars, rateVars, deskVars>> =>
    [ConsoleNext]_consoleVars /\ [ClientNext \/ LoginNext]_rateVars /\ [DeskNext]_deskVars
  <1> SUFFICES ASSUME [OfficeNext]_<<focus, consoleVars, rateVars, deskVars>>
               PROVE  /\ [ConsoleNext]_consoleVars /\ [ClientNext \/ LoginNext]_rateVars
                      /\ [DeskNext]_deskVars
    OBVIOUS
  <1>1. ConsoleMove => ConsoleNext
    BY DEF ConsoleMove, ConsoleNext
  <1>2. RateMove => ClientNext \/ LoginNext
    BY DEF RateMove
  <1>3. DeskMove => DeskNext
    BY DEF DeskMove, DeskNext
  <1>4. QED  BY <1>1, <1>2, <1>3 DEF OfficeNext

\* The run looks at behaviours of the three components and at no others: what its foci and
\* bounds leave out, they only leave out.  So every variable keeps its type there too.
THEOREM OfficeRunsItsParts ==
  OfficeSpec => ConsoleSpec /\ RateSpec /\ DeskSpec /\ []OfficeTypeOK
  <1>1. OfficeSpec => ConsoleSpec /\ RateSpec /\ DeskSpec
    BY OfficeStarts, OfficeStep, PTL DEF OfficeSpec, ConsoleSpec, RateSpec, DeskSpec
  <1>2. ConsoleTypeOK /\ RateTypeOK /\ DeskTypeOK => OfficeTypeOK
    BY DEF OfficeTypeOK
  <1>3. QED  BY <1>1, <1>2, SessionsLastAsPromised, LimitsAreKept, DecisionsAreExact, PTL
=============================================================================
