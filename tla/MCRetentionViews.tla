------------------------- MODULE MCRetentionViews ---------------------------
(* Larger instances of ArchiveRetention than one set of bounds allows. *)
EXTENDS MCArchiveRetention

\* Two views in one run: one with faults, or one in which files rot and administrators
\* extend windows.  What a view leaves out has used up its bound from the start.
Faults == rots = RotBound /\ extensions = ExtendBound
Changes == faults = FaultBound
ViewsInit == Init /\ (Faults \/ Changes)
ViewsSpec == ViewsInit /\ [][Next]_vars /\ Fairness
=============================================================================
