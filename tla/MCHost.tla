------------------------------- MODULE MCHost -------------------------------
(* One shard of capacity one: the bus brings a turn of s1 that hangs and a *)
(* message of s2, the schedule poller has two deliveries for s1, one of    *)
(* which hangs.  So the channel fills up behind a hanging turn and a       *)
(* sender blocks, and a delivery can wait behind it for ever.              *)
EXTENDS Host

CONSTANTS h1, a1, p1, p2, s1, s2, w1

MCJobs      == {h1, a1, p1, p2}
MCSessions  == {s1, s2}
MCWorkers   == {w1}
MCSessionOf == [j \in MCJobs |-> IF j = a1 THEN s2 ELSE s1]
MCShardOf   == [k \in MCSessions |-> w1]
MCStopJobs  == {}
MCRootJobs  == {h1, a1}
MCHanging   == {h1, p2}

=============================================================================
