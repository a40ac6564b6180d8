----------------------------- MODULE MCSchedule -----------------------------
(* Two clients; for c1 a one-shot and a periodic job, for c2 a cron job    *)
(* and a disabled row of an old file; one turn at a time uses the tool.    *)
(* The liveness run has the one-shot and the cron job only, both of one    *)
(* client, so that one batch holds both.                                   *)
EXTENDS Schedule

CONSTANTS j1, j2, j3, jd, c1, c2, t1

MCIds      == {j1, j2, j3, jd}
MCLegacy   == {jd}
MCKindOf   == [i \in Ids |-> IF i = j1 THEN "at" ELSE IF i = j3 THEN "cron" ELSE "every"]
MCArgOf    == [i \in Ids |-> IF i = j3 THEN {3} ELSE 2]
MCSourceOf == [i \in Ids |-> IF i \in {j1, j2} THEN c1 ELSE c2]
MCSources  == {c1, c2}
MCTools    == {t1}

MCLiveIds      == {j1, j3}
MCNoLegacy     == {}
MCLiveSourceOf == [i \in Ids |-> c1]
MCLiveSources  == {c1}

=============================================================================
