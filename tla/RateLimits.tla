----------------------------- MODULE RateLimits -----------------------------
(***************************************************************************)
(* The limits inside the gateway process: the client of the meeting API    *)
(* (tencent/client.ts) that takes a call's endpoint quota and then a token *)
(* of the global bucket (tencent/ratelimit.ts), retries and slows down;    *)
(* and the login limiter (http/ratelimit.ts), whose full buckets are swept *)
(* away.                                                                   *)
(*                                                                         *)
(* Time is in ticks of Second per second; a bucket counts Second units per *)
(* token, so its fractions stay integers.  The clock never goes back.      *)
(***************************************************************************)
EXTENDS Integers, Sequences

CONSTANTS
  Callers,       \* calls of the client that may be under way together
  Endpoints,     \* quota keys
  Quotaed,       \* ENDPOINT_QUOTAS_PER_MINUTE: the one key with a quota
  PerWindow,     \* calls of it in a window
  Window,        \* WINDOW_MS
  Second,        \* ticks of a second
  Qps,           \* TM_QPS
  MaxAttempts,   \* MAX_ATTEMPTS
  Pause,         \* the sleep before a retry
  LoginKeys,     \* keys of the login limiter
  Capacity,      \* LOGIN_BURST, refilled at one per tick
  SweepInterval, \* SWEEP_INTERVAL_SEC
  MaxLimitTime   \* bound: the clock stops there

ASSUME RateAssumption ==
  /\ PerWindow \in Nat \ {0} /\ Window \in Nat \ {0} /\ Second \in Nat \ {0}
  /\ Qps \in Nat \ {0} /\ MaxAttempts \in Nat \ {0} /\ Pause \in Nat
  /\ Capacity \in Nat \ {0} /\ SweepInterval \in Nat \ {0} /\ MaxLimitTime \in Nat

VARIABLES
  limitTime,
  granted,   \* createEndpointQuota: times of the last grants, oldest first
  qps, credit, refilledAt,   \* createTokenBucket
  caller,    \* [Callers -> state of a call]
  grantLog,  \* history: the last PerWindow + 1 grants
  bucket,    \* createRateLimiter: [LoginKeys -> bucket]
  lastSweep,
  unswept    \* history: the buckets as if nothing was ever swept

clientVars == <<granted, qps, credit, refilledAt, caller, grantLog>>
loginVars == <<bucket, lastSweep, unswept>>
rateVars == <<limitTime, clientVars, loginVars>>

Least(a, b) == IF a < b THEN a ELSE b
Hang == [pc |-> "idle", key |-> Quotaed, attempt |-> 0, wake |-> 0]
\* The last n entries of a log with one more.
Logged(log, t) == LET l == Append(log, t)
                  IN IF Len(l) > PerWindow + 1 THEN Tail(l) ELSE l

-----------------------------------------------------------------------------
\* The endpoint quota and the bucket

\* What is left of s when those `age` old or older are shifted off its front.
Shifted(s, now, age) ==
  LET first == CHOOSE i \in 1..(Len(s) + 1) : /\ \A j \in 1..(i - 1) : now - s[j] >= age
                                              /\ i <= Len(s) => now - s[i] < age
  IN SubSeq(s, first, Len(s))

\* Mutant: the window is one tick short.
RecentShort(s, now) == Shifted(s, now, Window - 1)

\* The grants still in the window: those a full Window old have left it.
Recent(s, now) == Shifted(s, now, Window)

\* A key without a quota goes to the bucket at once.
FirstStop(k) == IF k = Quotaed THEN "quota" ELSE "bucket"

Call(c, k) ==
  /\ caller[c].pc = "idle"
  /\ caller' = [caller EXCEPT ![c] =
       [pc |-> FirstStop(k), key |-> k, attempt |-> 1, wake |-> limitTime]]
  /\ UNCHANGED <<granted, qps, credit, refilledAt, grantLog>>

Awake(c, pc) == caller[c].pc = pc /\ caller[c].wake <= limitTime

\* acquire's first loop: take the quota or sleep until the oldest grant leaves.
TakeQuota(c) ==
  LET recent == Recent(granted, limitTime) IN
  /\ Awake(c, "quota")
  /\ IF Len(recent) < PerWindow
     THEN /\ granted' = Append(recent, limitTime)
          /\ grantLog' = Logged(grantLog, limitTime)
          /\ caller' = [caller EXCEPT ![c].pc = "bucket"]
     ELSE /\ granted' = recent
          /\ caller' = [caller EXCEPT ![c].wake = recent[1] + Window]
          /\ UNCHANGED grantLog
  /\ UNCHANGED <<qps, credit, refilledAt>>

\* Mutant: an idle bucket goes on filling.
RefilledPast == credit + (limitTime - refilledAt) * qps

\* refill: the tokens of the time gone by, up to one second's worth.
Refilled == Least(qps * Second, credit + (limitTime - refilledAt) * qps)

\* acquire's second loop and the fetch that follows it.
TakeToken(c) ==
  /\ Awake(c, "bucket")
  /\ refilledAt' = limitTime
  /\ IF Refilled >= Second
     THEN /\ credit' = Refilled - Second
          /\ caller' = [caller EXCEPT ![c].pc = "sent"]
     ELSE /\ credit' = Refilled
          /\ caller' = [caller EXCEPT ![c].wake = limitTime + Second \div qps]
  /\ UNCHANGED <<granted, qps, grantLog>>

\* The answer: success or an error not worth a retry ends the call.
Answered(c) ==
  /\ caller[c].pc = "sent"
  /\ caller' = [caller EXCEPT ![c] = Hang]
  /\ UNCHANGED <<granted, qps, credit, refilledAt, grantLog>>

\* A transient error: the rate is halved when the API says it was exceeded, the next
\* attempt waits and takes its quota and its token like the first.
Retry(c, converge) ==
  LET slower == IF qps \div 2 < 1 THEN 1 ELSE qps \div 2
      again == caller[c].attempt < MaxAttempts IN
  /\ caller[c].pc = "sent"
  /\ qps' = IF converge THEN slower ELSE qps
  /\ credit' = IF converge THEN Least(credit, slower * Second) ELSE credit
  /\ caller' = [caller EXCEPT ![c] =
       IF again THEN [pc |-> FirstStop(@.key), key |-> @.key,
                      attempt |-> @.attempt + 1, wake |-> limitTime + Pause]
       ELSE Hang]
  /\ UNCHANGED <<granted, refilledAt, grantLog>>

-----------------------------------------------------------------------------
\* The login limiter: one token per tick, Capacity at most

NoBucket == [tokens |-> Capacity, last |-> -1]
\* What a bucket holds at a time; a missing one is full.
Holds(b, now) == IF b.last = -1 THEN Capacity ELSE Least(Capacity, b.tokens + (now - b.last))

\* Mutant: buckets that would allow a request are taken for full.
SweptEarly(bs, now) == [k \in LoginKeys |-> IF Holds(bs[k], now) >= 1 THEN NoBucket ELSE bs[k]]

Swept(bs, now) == [k \in LoginKeys |-> IF Holds(bs[k], now) >= Capacity THEN NoBucket ELSE bs[k]]

Taken(b, now) == LET n == Holds(b, now)
                 IN [tokens |-> IF n < 1 THEN n ELSE n - 1, last |-> now]

\* allow: now and then the full buckets go, then the key's own is charged.
Allow(k) ==
  LET due == limitTime - lastSweep >= SweepInterval
      left == IF due THEN Swept(bucket, limitTime) ELSE bucket IN
  /\ lastSweep' = IF due THEN limitTime ELSE lastSweep
  /\ bucket' = [left EXCEPT ![k] = Taken(@, limitTime)]
  /\ unswept' = [unswept EXCEPT ![k] = Taken(@, limitTime)]

-----------------------------------------------------------------------------
RateTick == limitTime < MaxLimitTime /\ limitTime' = limitTime + 1

RateInit ==
  /\ limitTime = 0 /\ granted = <<>>
  /\ qps = Qps /\ credit = Qps * Second /\ refilledAt = 0
  /\ caller = [c \in Callers |-> Hang]
  /\ grantLog = <<>>
  /\ bucket = [k \in LoginKeys |-> NoBucket] /\ lastSweep = 0
  /\ unswept = [k \in LoginKeys |-> NoBucket]

ClientNext ==
  /\ \/ /\ \E c \in Callers :
             \/ \E k \in Endpoints : Call(c, k)
             \/ TakeQuota(c) \/ TakeToken(c) \/ Answered(c)
             \/ \E converge \in BOOLEAN : Retry(c, converge)
        /\ UNCHANGED limitTime
     \/ RateTick /\ UNCHANGED clientVars
  /\ UNCHANGED loginVars

LoginNext ==
  /\ \/ (\E k \in LoginKeys : Allow(k)) /\ UNCHANGED limitTime
     \/ RateTick /\ UNCHANGED loginVars
  /\ UNCHANGED clientVars

RateSpec == RateInit /\ [][ClientNext \/ LoginNext]_rateVars

-----------------------------------------------------------------------------
RateTypeOK ==
  /\ limitTime \in Nat /\ qps \in 1..Qps /\ credit \in 0..(qps * Second)
  /\ \A c \in Callers : /\ caller[c].pc \in {"idle", "quota", "bucket", "sent"}
                        /\ caller[c].attempt \in 0..MaxAttempts
  /\ \A k \in LoginKeys : bucket[k].tokens \in 0..Capacity

\* At most PerWindow entries of a log lie in any half-open window of Window ticks.
WithinQuota(log) == Len(log) = PerWindow + 1 => log[PerWindow + 1] - log[1] >= Window

\* Grants of one endpoint keep to its quota in every window, retries included, at the
\* window's boundary too; callers that wait sleep no shorter than they have to.
GrantsWithinQuota == WithinQuota(grantLog)

\* Sweeping full buckets away never lets a key through that would have been refused,
\* nor the other way round.
SweepInvisible ==
  \A k \in LoginKeys : Holds(bucket[k], limitTime) = Holds(unswept[k], limitTime)

\* Both limiters keep what they promise.
LimitsHold == GrantsWithinQuota /\ SweepInvisible
=============================================================================
