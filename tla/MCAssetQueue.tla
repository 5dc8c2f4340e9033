--------------------------- MODULE MCAssetQueue ---------------------------
(***************************************************************************)
(* Instances of AssetQueue for TLC.  One unit of time is the 300 s of the  *)
(* backoff formula divided by two or three, scaled down so that a lease    *)
(* and a backoff are one or two units each.                                *)
(***************************************************************************)
EXTENDS AssetQueue, TLC

CONSTANTS m1, m2, ty

\* Two assets of one meeting: both are retried and ignored together.
OneMeeting == [a \in Assets |-> m1]

\* Two assets of two meetings: an action on one must leave the other alone.
TwoMeetings == [a \in Assets |-> IF a = 1 THEN m1 ELSE m2]

OneType == [a \in Assets |-> ty]

\* executor/index.ts downloadBackoff: base * 2^(attempts-1) up to a cap.
DownloadBackoff(attempts) ==
  LET wait == 1 * 2 ^ (attempts - 1) IN IF wait < 2 THEN wait ELSE 2

BackoffCurve == [n \in 1..(MaxAttempts - 1) |-> DownloadBackoff(n)]

\* Slots are interchangeable: no action or property tells them apart.
SlotSymmetry == Permutations(Slots)
=============================================================================
