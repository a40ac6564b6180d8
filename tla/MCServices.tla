----------------------------- MODULE MCServices -----------------------------
(* The parts around the turns, which share no state in this model: each    *)
(* behaviour exercises the one its focus names, and the others keep their  *)
(* initial state.  RecallText and PolicyPaths are functions: their focus   *)
(* has one initial state for each input.                                   *)
EXTENDS MaintainPipeline, RecallIndex, RecallText, PolicyPaths, McpManager,
        WorkspaceLists, UsageLedger, ReadCache, ExecRuns

CONSTANT Focuses    \* the parts a run exercises

VARIABLE focus

\* The models answer with two facts, one more than a section holds, with nothing durable
\* behind a line that stands before the header, or with both at once, which no reader of the
\* prompt would.
H == Header(Today)
MCSections == {<<H, Bullet("f2"), Bullet("f1")>>, <<Other, H, Bullet(NoDurable)>>,
               <<H, Bullet("f1"), Bullet(NoDurable), Bullet("f2")>>}

\* A note of one session and one that both share.
MCOwnerOf == [n \in Notes |-> IF n = "na" THEN "a" ELSE Shared]

\* The shared host, an isolated session, a session directory of the older kind, a repository.
MCBase == <<"h">>
MCSession == <<"h", "sessions", "s">>
MCContexts ==
    {[cwd |-> <<"h", "workspace">>, flat |-> TRUE, ir |-> MCBase, data |-> MCBase],
     [cwd |-> Append(MCSession, "workspace"), flat |-> TRUE, ir |-> MCSession, data |-> MCBase],
     [cwd |-> MCSession, flat |-> TRUE, ir |-> <<>>, data |-> MCBase],
     [cwd |-> <<"repo">>, flat |-> FALSE, ir |-> <<>>, data |-> MCBase]}
MCHits == [of : 1 .. 2, at : 1 .. 2, score : 1 .. 2, size : 1 .. 2]

\* Two Han characters, letters of one to three bytes, a blank.
MCRunes == {[kind |-> "han", bytes |-> 3, is |-> 1], [kind |-> "han", bytes |-> 3, is |-> 2],
            [kind |-> "letter", bytes |-> 1, is |-> 3], [kind |-> "letter", bytes |-> 2, is |-> 4],
            [kind |-> "letter", bytes |-> 3, is |-> 5], [kind |-> "gap", bytes |-> 1, is |-> 6]}
MCWords == STRING
MCRuleNames == {<<>>, <<"n">>, <<"..">>, <<"n", "m">>, <<"n", "..", "m">>, <<"n", "..", "..", "m">>, <<".", "n">>}
MCAgents == {"", "..", "default", "explore"}

\* Two servers whose tools have one name once they are sanitized.
MCNameOf == [s \in Servers |-> "tool"]

Init ==
    /\ focus \in Focuses
    /\ MaintInit /\ RecallInit /\ McpInit /\ ListsInit /\ LedgerInit /\ CacheInit /\ ExecInit
    /\ IF focus = "text" THEN TextInit ELSE input = [kind |-> "none"]
    /\ IF focus = "paths" THEN PathsInit ELSE asked = CHOOSE a \in Calls : a.target = "memory"

fixedVars == <<focus, input, asked>>

Next ==
    \/ /\ focus = "maintain" /\ MaintNext
       /\ UNCHANGED <<fixedVars, riVars, mcpVars, wlVars, ulVars, rcVars, exVars>>
    \/ /\ focus = "recall" /\ RecallNext
       /\ UNCHANGED <<fixedVars, mpVars, mcpVars, wlVars, ulVars, rcVars, exVars>>
    \/ /\ focus = "mcp" /\ McpNext
       /\ UNCHANGED <<fixedVars, mpVars, riVars, wlVars, ulVars, rcVars, exVars>>
    \/ /\ focus = "lists" /\ ListsNext
       /\ UNCHANGED <<fixedVars, mpVars, riVars, mcpVars, ulVars, rcVars, exVars>>
    \/ /\ focus = "ledger" /\ LedgerNext
       /\ UNCHANGED <<fixedVars, mpVars, riVars, mcpVars, wlVars, rcVars, exVars>>
    \/ /\ focus = "cache" /\ CacheNext
       /\ UNCHANGED <<fixedVars, mpVars, riVars, mcpVars, wlVars, ulVars, exVars>>
    \/ /\ focus = "exec" /\ ExecNext
       /\ UNCHANGED <<fixedVars, mpVars, riVars, mcpVars, wlVars, ulVars, rcVars>>

vars == <<fixedVars, mpVars, riVars, mcpVars, wlVars, ulVars, rcVars, exVars>>

Spec == Init /\ [][Next]_vars /\ MaintFairness

=============================================================================
