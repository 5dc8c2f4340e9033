--------------------------- MODULE MCJobScheduler ---------------------------
(* Small instances of JobScheduler: "fetch" is due every unit of the clock,  *)
(* "archive" every second one, and a productive fetch queues an archive run. *)
EXTENDS JobScheduler

TwoJobs == {"fetch", "archive"}
TwoCatalog == <<"fetch", "archive">>
TwoPeriods == [j \in TwoJobs |-> IF j = "fetch" THEN 1 ELSE 2]
FetchThenArchive == {<<"fetch", "archive">>}
=============================================================================
