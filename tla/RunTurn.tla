------------------------------ MODULE RunTurn ------------------------------
(***************************************************************************)
(* loop/runner.go: one turn, from its user message to its end, with the    *)
(* sub-agents its tools start (subagent/run.go).  Every nested loop is a   *)
(* RunTurn of its own, on a message list of its own; frame d is the loop   *)
(* that runs at depth d, 0 being the session's turn.                       *)
(*                                                                         *)
(* Texts are left out.  A row of a message list is known by its role and,  *)
(* where an answer must match a call, by the round it belongs to and its   *)
(* place in it.  What depends on the size of texts (how many rows the byte *)
(* budget drops) is a choice.                                              *)
(***************************************************************************)
EXTENDS Naturals, Sequences, FiniteSets, SequencesExt

CONSTANTS
    MaxSteps,         \* model steps of a loop
    MaxCalls,         \* bound on the calls of one model answer
    Answers,          \* [Depths -> the lists of calls a model may answer with there]
    MinTail,          \* budget.min_tail_messages
    MaxSubagentDepth, \* toolctx: 3
    InheritCap,       \* rows a sub-agent inherits at most
    MergeAsUser,      \* sidechain_merge is "user"
    Histories         \* what working_transcript.json may hold: users and plain answers

\* read: any tool that is safe to run in parallel.  write: any other, and the names that
\* the registry does not know, and the two below where the registry lacks them.
Tools     == {"read", "write", "run_agent", "fork_context"}
MetaTools == {"run_agent", "fork_context"}
Safe(tool) == tool = "read"

ASSUME RunTurnAssumption ==
    /\ MaxSteps \in Nat \ {0} /\ MaxCalls \in Nat \ {0}
    /\ MinTail \in Nat /\ InheritCap \in Nat \ {0}
    /\ MaxSubagentDepth \in Nat \ {0}
    /\ MergeAsUser \in BOOLEAN
    /\ \A d \in 0..MaxSubagentDepth : \A cs \in Answers[d] :
           cs \in Seq(Tools) /\ Len(cs) \in 1..MaxCalls

VARIABLES
    pc,       \* [Depths -> idle, inherit, budget, model, tools, done, failed]
    step,     \* [Depths -> the loop's counter]
    msgs,     \* [Depths -> *cfg.Messages]
    dropped,  \* [Depths -> the budget has dropped a row in this step]
    calls,    \* [Depths -> the tools the model called, in order]
    running,  \* [Depths -> the calls in Execute]
    results,  \* [Depths -> executeToolBatches' results, Missing where not filled in]
    deferred, \* [Depths -> DeferredUserAfterToolBatch]
    meta,     \* [Depths -> the registry has run_agent and fork_context]
    ctxDone   \* the turn's context is done: a /stop, or the end of the process

vars  == <<pc, step, msgs, dropped, calls, running, results, deferred, meta, ctxDone>>
batch == <<calls, running, results, deferred>>

Depths == 0..MaxSubagentDepth

-----------------------------------------------------------------------------
(* The rows.                                                               *)

Row(role, round, n) == [role |-> role, round |-> round, n |-> n]
UserRow == Row("user", <<>>, 0)
Plain   == Row("assistant", <<>>, 0)     \* an answer of an earlier turn
Missing == Row("none", <<>>, 0)

\* ToUserVisibleMessages has left no row with calls, and none of a tool.
ASSUME HistoriesAssumption == \A h \in Histories : h \in Seq({UserRow, Plain})

\* A tool row that carries a sub-agent's reply is a "reply", the user row that
\* applySidechainMerge adds for it a "note".
IsTool(r)  == r.role \in {"tool", "reply"}
HasCalls(r) == r.role = "assistant" /\ r.n > 0

Round(d) == <<d, step[d]>>

\* Variants of the operators below.
OfferAlways(d)         == step[d] < MaxSteps
DropOneRow(ms)         == 1
SafeAnyTime(cs, k, i)  == Safe(cs[i])
AppendedToo(d, row)    == [e \in Depths |-> IF e \in {0, d} THEN Append(msgs[e], row) ELSE msgs[e]]
ForksKeepMeta(tool, d) == tool = "fork_context"
RepliedOnly(d)         == pc[d] = "done"
LatestNote(d, i)       == IF MergeAsUser THEN <<Row("note", Round(d), i)>> ELSE deferred[d]

\* Tools are offered in every step but the last.
OfferTools(d) == step[d] + 1 < MaxSteps

-----------------------------------------------------------------------------
(* history_budget.go.  One step of TrimMessagesToBudget's loop: the oldest *)
(* row goes, an assistant row with calls together with its answers.        *)

DropSize(ms) == IF HasCalls(Head(ms)) THEN 1 + Head(ms).n ELSE 1

CanDrop(ms) ==
    /\ Len(ms) > MinTail /\ ms # <<>>
    /\ DropSize(ms) <= Len(ms)
    /\ \A i \in 2..DropSize(ms) : IsTool(ms[i])

DropOldest(d) ==
    /\ pc[d] = "budget"
    /\ CanDrop(msgs[d])
    /\ msgs' = [msgs EXCEPT ![d] = SubSeq(@, DropSize(@) + 1, Len(@))]
    /\ dropped' = [dropped EXCEPT ![d] = TRUE]
    /\ UNCHANGED <<pc, step, meta, ctxDone>>
    /\ UNCHANGED batch

\* The semantic compact puts one user row in the place of what was dropped, if it fits.
Compacted(d) == {msgs[d]} \cup (IF dropped[d] THEN {<<UserRow>> \o msgs[d]} ELSE {})

\* The end of ApplyHistoryBudget, the look at ctx and the call of the model.
BeginRequest(d) ==
    /\ pc[d] = "budget"
    /\ ~ ctxDone
    /\ \E ms \in Compacted(d) : msgs' = [msgs EXCEPT ![d] = ms]
    /\ pc' = [pc EXCEPT ![d] = "model"]
    /\ dropped' = [dropped EXCEPT ![d] = FALSE]
    /\ UNCHANGED <<step, meta, ctxDone>>
    /\ UNCHANGED batch

Cancelled(d) ==
    /\ pc[d] = "budget"
    /\ ctxDone
    /\ pc' = [pc EXCEPT ![d] = "failed"]
    /\ dropped' = [dropped EXCEPT ![d] = FALSE]
    /\ UNCHANGED <<step, msgs, meta, ctxDone>>
    /\ UNCHANGED batch

-----------------------------------------------------------------------------
(* The model's answer.                                                     *)

\* *msgs = append(*msgs, ...)
Appended(d, row) == [msgs EXCEPT ![d] = Append(@, row)]

\* A transport error, a done context, or an answer without choices.
ModelFails(d) ==
    /\ pc[d] = "model"
    /\ pc' = [pc EXCEPT ![d] = "failed"]
    /\ UNCHANGED <<step, msgs, dropped, meta, ctxDone>>
    /\ UNCHANGED batch

ModelAnswers(d) ==
    /\ pc[d] = "model"
    /\ msgs' = Appended(d, Row("assistant", Round(d), 0))
    /\ pc' = [pc EXCEPT ![d] = "done"]
    /\ UNCHANGED <<step, dropped, meta, ctxDone>>
    /\ UNCHANGED batch

\* Calls in the last step, where no tool was offered, end the turn with an error.
ModelCalls(d, cs) ==
    /\ pc[d] = "model"
    /\ msgs' = Appended(d, Row("assistant", Round(d), Len(cs)))
    /\ IF OfferTools(d)
       THEN /\ pc' = [pc EXCEPT ![d] = "tools"]
            /\ calls' = [calls EXCEPT ![d] = cs]
            /\ results' = [results EXCEPT ![d] = [i \in 1..Len(cs) |-> Missing]]
       ELSE /\ pc' = [pc EXCEPT ![d] = "failed"]
            /\ UNCHANGED <<calls, results>>
    /\ UNCHANGED <<step, dropped, running, deferred, meta, ctxDone>>

ModelReturns(d) ==
    \/ ModelFails(d)
    \/ ModelAnswers(d)
    \/ \E cs \in Answers[d] : ModelCalls(d, cs)

-----------------------------------------------------------------------------
(* executeToolBatches.  partitionToolCalls puts consecutive safe calls in  *)
(* one batch, which runs in parallel; a batch starts when the ones before  *)
(* it have ended.  A context that is done does not keep a tool from        *)
(* starting.                                                               *)

SameBatch(cs, k, i) == \A m \in k..i : Safe(cs[m])

CanStart(d, i) ==
    /\ pc[d] = "tools"
    /\ i \in DOMAIN calls[d] /\ i \notin running[d] /\ results[d][i] = Missing
    /\ \A k \in 1..(i - 1) : results[d][k] # Missing \/ SameBatch(calls[d], k, i)

StartTool(d, i) ==
    /\ CanStart(d, i)
    /\ running' = [running EXCEPT ![d] = @ \cup {i}]
    /\ UNCHANGED <<pc, step, msgs, dropped, calls, results, deferred, meta, ctxDone>>

FillIn(d, i, role) ==
    /\ running' = [running EXCEPT ![d] = @ \ {i}]
    /\ results' = [results EXCEPT ![d][i] = Row(role, Round(d), i)]

\* Every way a tool ends leaves a row: its output, its error, a refusal, an unknown name,
\* a sub-agent that could not be started.
ToolEnds(d, i) ==
    /\ pc[d] = "tools"
    /\ i \in running[d]
    /\ d + 1 \in Depths => pc[d + 1] = "idle"
    /\ FillIn(d, i, "tool")
    /\ UNCHANGED <<pc, step, msgs, dropped, calls, deferred, meta, ctxDone>>

\* The rows of the batch, in the order of the calls, and then what the tools deferred.
Collect(d) ==
    /\ pc[d] = "tools"
    /\ \A i \in DOMAIN results[d] : results[d][i] # Missing
    /\ msgs' = [msgs EXCEPT ![d] = @ \o results[d] \o deferred[d]]
    /\ step' = [step EXCEPT ![d] = @ + 1]
    /\ pc' = [pc EXCEPT ![d] = IF step[d] + 1 < MaxSteps THEN "budget" ELSE "failed"]
    /\ calls' = [calls EXCEPT ![d] = <<>>]
    /\ results' = [results EXCEPT ![d] = <<>>]
    /\ deferred' = [deferred EXCEPT ![d] = <<>>]
    /\ UNCHANGED <<dropped, running, meta, ctxDone>>

-----------------------------------------------------------------------------
(* subagent/run.go.                                                        *)

\* What a nested loop starts from: always the session's messages, at any depth
\* (session/subrunner.go), the last InheritCap of them.
LastRows(ms) == SubSeq(ms, IF Len(ms) > InheritCap THEN Len(ms) - InheritCap + 1 ELSE 1, Len(ms))

\* dropLeadingOrphanToolMessages
WithoutOrphans(ms) ==
    LET rest == {i \in DOMAIN ms : ~ IsTool(ms[i])}
    IN  IF rest = {} THEN <<>>
        ELSE SubSeq(ms, CHOOSE i \in rest : \A k \in rest : i <= k, Len(ms))

\* stripMetaForNested: whether the registry of a loop started at depth d has these two tools.
NestedMeta(tool, d) == tool = "fork_context" /\ d < 1

\* RunAgent and RunFork up to the nested RunTurn, for call i of frame d.  inherit is the
\* inherit_context of run_agent; a fork always inherits.
StartNested(d, i, inherit) ==
    /\ CanStart(d, i)
    /\ calls[d][i] \in MetaTools /\ meta[d]
    /\ d < MaxSubagentDepth
    /\ calls[d][i] = "fork_context" => inherit
    /\ running' = [running EXCEPT ![d] = @ \cup {i}]
    /\ msgs' = [msgs EXCEPT ![d + 1] = IF inherit THEN WithoutOrphans(LastRows(msgs[0])) ELSE <<>>]
    /\ pc' = [pc EXCEPT ![d + 1] = "inherit"]
    /\ step' = [step EXCEPT ![d + 1] = 0]
    /\ meta' = [meta EXCEPT ![d + 1] = NestedMeta(calls[d][i], d)]
    /\ UNCHANGED <<dropped, calls, results, deferred, ctxDone>>

\* dropTrailingIncompleteAssistantToolBatch: how much of ms it keeps.  a is the last row that is
\* not a tool's; if it has calls, the rows after it must be their answers, all of them.
KeptLen(ms) ==
    LET heads == {i \in DOMAIN ms : ~ IsTool(ms[i])}
        a     == CHOOSE i \in heads : \A k \in heads : k <= i
        got   == Len(ms) - a
        answered == {<<ms[a + k].round, ms[a + k].n>> : k \in 1..got}
    IN  CASE heads = {}        -> 0
          [] heads # {} /\ ~ HasCalls(ms[a]) -> a
          [] heads # {} /\ HasCalls(ms[a]) ->
                 IF got = ms[a].n /\ answered = {ms[a].round} \X (1..ms[a].n) THEN Len(ms) ELSE a - 1

\* One step of trimInheritedParentMessages' loop.
DropTrailing(d) ==
    /\ pc[d] = "inherit"
    /\ KeptLen(msgs[d]) < Len(msgs[d])
    /\ msgs' = [msgs EXCEPT ![d] = SubSeq(@, 1, KeptLen(@))]
    /\ UNCHANGED <<pc, step, dropped, meta, ctxDone>>
    /\ UNCHANGED batch

\* AppendTurnUserMessages of the nested turn.
BeginNested(d) ==
    /\ pc[d] = "inherit"
    /\ KeptLen(msgs[d]) = Len(msgs[d])
    /\ msgs' = Appended(d, UserRow)
    /\ pc' = [pc EXCEPT ![d] = "budget"]
    /\ UNCHANGED <<step, dropped, meta, ctxDone>>
    /\ UNCHANGED batch

\* RunTurn of frame d has returned.
Returned(d) == pc[d] \in {"done", "failed"}

\* applySidechainMerge: what is deferred in frame d after its call i.
WithNote(d, i) == IF MergeAsUser THEN Append(deferred[d], Row("note", Round(d), i)) ELSE deferred[d]

\* The nested loop has ended: a reply, and the side chain's note for the caller's list; or an error.
EndNested(d, i) ==
    /\ d + 1 \in Depths
    /\ pc[d] = "tools" /\ i \in running[d]
    /\ Returned(d + 1)
    /\ FillIn(d, i, IF pc[d + 1] = "done" THEN "reply" ELSE "tool")
    /\ deferred' = [deferred EXCEPT ![d] = IF pc[d + 1] = "done" THEN WithNote(d, i) ELSE @]
    /\ pc' = [pc EXCEPT ![d + 1] = "idle"]
    /\ msgs' = [msgs EXCEPT ![d + 1] = <<>>]
    /\ step' = [step EXCEPT ![d + 1] = 0]
    /\ meta' = [meta EXCEPT ![d + 1] = FALSE]
    /\ UNCHANGED <<dropped, calls, ctxDone>>

-----------------------------------------------------------------------------
\* CancelInflightTurn, or the end of the root context.
CancelTurn ==
    /\ ~ ctxDone
    /\ ctxDone' = TRUE
    /\ UNCHANGED <<pc, step, msgs, dropped, meta>>
    /\ UNCHANGED batch

Ended == pc[0] \in {"done", "failed"}

Terminated == Ended /\ UNCHANGED vars

Loop(d) ==
    \/ DropOldest(d) \/ BeginRequest(d) \/ Cancelled(d)
    \/ Collect(d)
    \/ DropTrailing(d) \/ BeginNested(d)
    \/ \E i \in 1..MaxCalls :
           \/ StartTool(d, i)
           \/ \E inherit \in BOOLEAN : StartNested(d, i, inherit)
           \/ EndNested(d, i)

ToolReturns(d) == \E i \in 1..MaxCalls : ToolEnds(d, i)

Init ==
    /\ pc = [d \in Depths |-> IF d = 0 THEN "budget" ELSE "idle"]
    /\ \E h \in Histories : msgs = [d \in Depths |-> IF d = 0 THEN Append(h, UserRow) ELSE <<>>]
    /\ step = [d \in Depths |-> 0]
    /\ dropped = [d \in Depths |-> FALSE]
    /\ calls = [d \in Depths |-> <<>>]
    /\ running = [d \in Depths |-> {}]
    /\ results = [d \in Depths |-> <<>>]
    /\ deferred = [d \in Depths |-> <<>>]
    /\ meta = [d \in Depths |-> d = 0]
    /\ ctxDone = FALSE

Next ==
    \/ \E d \in Depths : Loop(d) \/ ModelReturns(d) \/ ToolReturns(d)
    \/ CancelTurn
    \/ Terminated

\* The loop's own steps are taken.  A model or a tool must return only once its context is
\* done; that a /stop comes is not assumed.
Fairness ==
    \A d \in Depths : /\ WF_vars(Loop(d))
                      /\ WF_vars(ctxDone /\ (ModelReturns(d) \/ ToolReturns(d)))

Spec == Init /\ [][Next]_vars /\ Fairness

-----------------------------------------------------------------------------
(* Properties.                                                             *)

\* What a chat-completions endpoint accepts: the calls of an assistant row are answered by the
\* rows right after it, in order, and there are no other tool rows.
WellFormed(ms) ==
    /\ \A j \in DOMAIN ms : HasCalls(ms[j]) =>
           \A k \in 1..ms[j].n :
               /\ j + k \in DOMAIN ms
               /\ IsTool(ms[j + k]) /\ ms[j + k].round = ms[j].round /\ ms[j + k].n = k
    /\ \A i \in DOMAIN ms : IsTool(ms[i]) =>
           \E j \in 1..(i - 1) : HasCalls(ms[j]) /\ i - j <= ms[j].n

\* Every request, at every depth, is well formed: after parallel tools that end in any order,
\* deferred notes, the dropping of old rows, a compact, and the cutting of the inherited list in
\* the middle of the caller's own round.
RequestWellFormed == \A d \in Depths : pc[d] = "model" => WellFormed(msgs[d])

\* While a call that is not safe runs, nothing else of its loop runs, all calls before it have
\* been answered and none after it has begun: a write never overlaps a read of the same answer.
UnsafeAlone ==
    \A d \in Depths : \A i \in running[d] : ~ Safe(calls[d][i]) =>
        /\ running[d] = {i}
        /\ \A k \in DOMAIN calls[d] : results[d][k] # Missing <=> k < i

\* A sub-agent's reply in the list is followed, past the rows of its batch and before the next
\* answer of the model, by exactly one note of its side chain (sidechain_merge: user).
RepliesAreNoted ==
    \A d \in Depths : \A i \in DOMAIN msgs[d] : MergeAsUser /\ msgs[d][i].role = "reply" =>
        \E k \in DOMAIN msgs[d] :
            /\ k > i /\ msgs[d][k] = Row("note", msgs[d][i].round, msgs[d][i].n)
            /\ \A m \in i..k : msgs[d][m].role # "assistant"
            /\ \A m \in DOMAIN msgs[d] : msgs[d][m] = msgs[d][k] => m = k

\* The registries given to nested loops end the nesting at the second level, before the depth
\* limit is ever reached: a fork may start one more sub-agent, a run_agent none
\* (docs/orchestrator-business-agents.md, section 4).
NestingIsBounded ==
    \A d \in Depths : pc[d] # "idle" => d <= 2 /\ (meta[d] => d <= 1)

\* config/init_template/config.yaml:203: trimming keeps "at least the last few messages", "so that the
\* conversation does not become empty" (there in Chinese).
HistoryIsKept == \A d \in Depths : pc[d] = "model" => msgs[d] # <<>>

\* "The main transcript is unchanged" while a sub-agent works, and so is every caller's list.
CallersListIsUntouched ==
    [][\A d, e \in Depths : d < e /\ pc[e] # "idle" => msgs'[d] = msgs[d]]_vars

\* Once its context is done the turn ends, through any nesting and any rest of a batch: what
\* WorkerPool assumes of the turns in Hanging.
CancelEnds == ctxDone ~> Ended

=============================================================================
