----------------------------- MODULE MCRunTurn -----------------------------
(* A session with or without an earlier turn.  The answers mix parallel    *)
(* reads, a write between reads, and both ways to start a sub-agent, at    *)
(* each depth that has them and at one that has not.                       *)
EXTENDS RunTurn

MCHistories == {<<>>, <<UserRow, Plain>>}

MCAnswers ==
    [d \in 0..MaxSubagentDepth |->
        CASE d = 0 -> {<<"read", "write", "read">>, <<"read", "read", "fork_context">>,
                       <<"run_agent", "fork_context">>}
          [] d = 1 -> {<<"read", "read">>, <<"fork_context", "write">>}
          [] OTHER -> {<<"fork_context">>}]

=============================================================================
