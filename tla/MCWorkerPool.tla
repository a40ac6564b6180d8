---------------------------- MODULE MCWorkerPool ----------------------------
(* Two shards and two sessions: s1 has a turn that hangs, a later message  *)
(* and a /stop; s2, on the other shard, has one message of the schedule    *)
(* poller, whose context is not the root's.  A shard buffers two jobs.     *)
EXTENDS WorkerPool

CONSTANTS h1, a1, stop1, b1, s1, s2, w1, w2

MCJobs      == {h1, a1, stop1, b1}
MCSessions  == {s1, s2}
MCWorkers   == {w1, w2}
MCSessionOf == [j \in MCJobs |-> IF j = b1 THEN s2 ELSE s1]
MCShardOf   == [k \in MCSessions |-> IF k = s1 THEN w1 ELSE w2]
MCStopJobs  == {stop1}
MCRootJobs  == {h1, a1, stop1}
MCHanging   == {h1}

=============================================================================
