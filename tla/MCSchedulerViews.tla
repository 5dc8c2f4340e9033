------------------------- MODULE MCSchedulerViews ---------------------------
(* Larger instances of JobScheduler than one set of bounds allows. *)
EXTENDS MCJobScheduler

\* Two views in one run: restarts alone over a longer time, or every kind of trouble
\* over a shorter one.  What a view leaves out is never under fairness.
VARIABLE view
ViewsInit == Init /\ view \in {"restarts", "troubles"}
ViewsNext ==
  /\ Next /\ UNCHANGED view
  /\ view = "restarts" => UNCHANGED <<manual, objectFailures, faults>>
  /\ view = "troubles" => clock' <= 1
ViewsSpec == ViewsInit /\ [][ViewsNext]_<<view, vars>> /\ Fairness
=============================================================================
