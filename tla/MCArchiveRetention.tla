------------------------- MODULE MCArchiveRetention -------------------------
(* Small instances of ArchiveRetention. *)
EXTENDS ArchiveRetention, TLC

CONSTANTS m1, m2, a1, a2, a3

OneMeeting == [a \in Assets |-> m1]
ThirdElsewhere == [a \in Assets |-> IF a = a3 THEN m2 ELSE m1]

\* Cleaners, and the assets of one meeting, are told apart by nothing but their name.
Interchangeable == Permutations(Cleaners) \cup Permutations({a1, a2})
=============================================================================
