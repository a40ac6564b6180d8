# A verification project for oneclaw

TLA+ models of the concurrent and persistent core of oneclaw (Go), their TLC runs, and TLAPS
proofs about them. Paths are relative to the repository. `PROJECT.json` lists every run, the source lines
each definition translates, the hazards of the code and the theorems.

```
tlc -workers 2 -config MCWorkerPool.cfg MCWorkerPool     # any run of the tables below
tlapm WorkerPoolProofs.tla    # the proofs; also HostProofs, ScheduleProofs, TranscriptProofs,
                              # RunTurnProofs, MemoryProofs, ServiceProofs, SequenceFacts
```

## 1. The system

oneclaw is a chat agent in one process. An external bus (clawbridge) brings messages of IM clients. `cmd/oneclaw/main.go`
starts one goroutine per message, which submits it to a **worker pool** (`session/worker_pool.go`). The worker of the
session's shard builds an **engine** (`session/engine_factory.go`) from the session's files, runs one turn of it and
throws it away. The turn runs the **query loop** (`loop/runner.go`): model call, tool calls, until the model answers
without tools. A **schedule poller** per client (`schedule/host_poll.go`) turns due rows of `scheduled_jobs.json`
into inbound messages of its own. After a turn, and on a timer, **memory maintenance** distils the conversation into a digest file.

### Inventory

| component | state | operations | what is hard | what makes it correct |
|---|---|---|---|---|
| Worker pool, `session/worker_pool.go` | shard channels, the inflight map (session key -> slot with the cancel function), answer channels | SubmitUser, CancelInflightTurn, runWorker, Close | callers, workers, /stop and shutdown interleave; a hanging turn; bounded channels; clears deferred in a loop | one turn per session at a time, in the order of sends; /stop reaches the running turn and no other; Close drains |
| Process host, `cmd/oneclaw/main.go` | the root context, the wait group `inboundInflight`, the deferred calls | consume, submit, wait, stop, close | goroutines that nobody counts; the race of Add and Wait | the process ends after a signal; nothing is sent on a closed channel |
| Schedule, `schedule/` | the jobs file, `fileMu`, one wake channel per poller | Add, Remove, ListText, CollectDue, poll, wake | several writers of one file; write before delivery; lost wake-ups; crashes | no row lost, a one-shot fires once, a due job fires |
| Session transcripts, `session/engine.go`, `engine_factory.go` | `transcript.json`, `working_transcript.json`, the day's dialog history; `Engine.Transcript`, `Engine.Messages` | load, record the request, record the answer, /reset | files truncated before they are written; two files saved in turn; failed turns | the transcript is an append-only log between resets; the model's context is part of it; /reset forgets |
| Query loop, `loop/` | the message list, the step count, the tool batch | RunTurn, executeToolBatches, the history budget | parallel tools, cancellation, trimming between assistant rows and their tool rows | every request to the model is well formed; answers in the order of the calls; the turn ends |
| Tool context, `toolctx/` | read cache, deferred user messages, nesting depth | ChildContext, DeferUserMessage | shared by parallel tools and sub-agents | the depth is bounded, no deferred message is lost |
| Sub-agents, `subagent/` | a nested loop, inherited messages, the side chain | RunAgent, RunFork | recursion; an inherited list cut inside a tool round | bounded depth, a well-formed inherited list |
| Memory maintenance, `memory/maintain*.go`, `scheduled_incremental.go`, `maintainloop/` | the day's digest, `MEMORY.md`, the daily log, the mark of the last good scheduled pass, `maintainPipelineMu` | post-turn pass, scheduled pass | two pathways, a deadline that runs while waiting for the mutex, a read and a write minutes apart, tools that write the same files | no pass works on an old copy of another's; facts are kept; no log line is skipped |
| Recall, `memory/recall.go`, `recall_backend.go` | rows of one SQLite file with stamps and dirty marks; what each session was shown | MarkDirty, prune, sync, query, scan, select | files that change between read, stat and commit; one index for all sessions; boundaries of terms, chunks and excerpts | what a recall shows is current, its session's own, found by what was asked, and within the budget |
| Memory files and prompt bundle, `memory/paths.go`, `load.go`, `bundle.go`, `write_behavior_policy.go` | rules, `AGENT.md`, `MEMORY.md`, agent memory | resolve, write, audit, inject | writers and readers compute paths from different layouts | what the policy tool writes is what later prompts read |
| Tasks and skills, `tasks/`, `skills/` | one JSON file each | create, replace, update; RecordUse, the order of the catalog | read-modify-write of one file by many turns, with and without a lock | completed needs evidence; no task undone; newest skills first |
| Usage ledger, `usageledger/` | the ledger, a rollup per day and one per user, `recordMu` | record | three files one after the other; failures in between | the three agree but for failed writes |
| MCP clients, `mcpclient/` | the sessions, a wait group, `closed`, the registered tools | connect, register, CallTool, Close | a call passing Close; a server that dies | a call has its session while it runs |
| File and command tools, `tools/builtin/` | the read cache of each tool context, `exec_log/` | read, write, exec, background jobs | several caches over one file system; directories named by the second | a cached answer is current; a run answers with its own output |
| Notification, `notify/` | sinks, one lock per path | emit | nobody reads the lines back | |
| Inbound/outbound conversion, configuration, model transport, prompts, logging | none shared, or read once at start | | | |

**Interactions.** Goroutines of main and of the pollers call `SubmitUser` and wait on the job's answer channel. Workers
read the session's files through the factory and the engine; the pool's mutual exclusion is what lets the transcripts be written
without a lock. Turns call the schedule package through the cron tool, which wakes the pollers through their channels. The pollers
submit turns to the pool under `context.Background()`, everybody else under the root context. A turn that ends starts its maintenance pass on a
goroutine nobody waits for; passes, recalls, tools and the turns of all sessions meet in the files of the user's data root, most of them without a lock.

`PROJECT.json` lists 40 hazards at their lines, each with the properties that would catch it going wrong.

## 2. The modules

| module | models | stands on |
|---|---|---|
| `SessionTurns` | what the pool promises: per session, accepted turns run one at a time, in order, once | |
| `Subsequences` | `Kept`: the elements of a sequence that are in a set, by a loop | |
| `SequenceFacts` | lemmas about sequences, `Kept` and induction over them | `Subsequences` |
| `WorkerPool` | `session/worker_pool.go`, whole | refines `SessionTurns`, through `Kept` |
| `WorkerPoolProofs` | theorems about `WorkerPool`, the refinement included | `WorkerPool`, `SequenceFacts` |
| `Host` | the goroutines of `main.go` and the poller's submissions, around the pool | extends `WorkerPool` |
| `HostProofs` | theorems about `Host`, by the invariants of the pool | `Host`, `WorkerPoolProofs` |
| `Schedule` | `schedule/`: the jobs file, the cron tool, the pollers, the wake channels | abstracts a submitted turn to "it ends" |
| `ScheduleProofs` | theorems about `Schedule` | `Schedule` |
| `Transcript` | `session/engine.go`, `engine_factory.go`, `/reset`, the dialog history | assumes one turn at a time, which is `WorkerPool!SessionMutex` |
| `TranscriptProofs` | theorems about `Transcript` | `Transcript`, `SequenceFacts` |
| `RunTurn` | `loop/runner.go`, `tool_batches.go`, `history_budget.go`, with the sub-agents of `subagent/run.go` | one turn of the pool |
| `RunTurnProofs` | theorems about `RunTurn` | `RunTurn`, `SequenceFacts` |
| `Digest` | the text functions of `maintain_merge.go`, `maintain_dedupe.go`, `maintain_cap.go` | |
| `MaintainPipeline` | the passes of `maintain*.go`, `scheduled_incremental.go`, `maintainloop.go` over one day's digest | extends `Digest` |
| `RecallIndex` | `recall_backend.go`: the index, its marks and its sync against writers | |
| `RecallText` | the pure parts of `recall.go` and `recall_backend.go` | |
| `PolicyPaths` | `paths.go`, `load.go`, `write_behavior_policy.go`, `pathutil`: who writes and who reads which file | |
| `McpManager` | `mcpclient/` | |
| `WorkspaceLists` | `tasks/tasks.go`, `skills/recent.go`, `skills/index.go` | |
| `UsageLedger` | `usageledger/record.go` | |
| `ReadCache` | `read.go`, `write.go`, the cache of `toolctx/context.go` | |
| `ExecRuns` | `exec.go` | |
| `MemoryProofs` | theorems about `RecallIndex`, `RecallText`, `PolicyPaths` | these |
| `ServiceProofs` | theorems about `MaintainPipeline`, `McpManager`, `WorkspaceLists`, `UsageLedger`, `ReadCache`, `ExecRuns` | these |
| `MC*` | small instances for TLC; `MCServices` has the last nine models in one | |

### WorkerPool

A job is one call of `SubmitUser` and stands also for its `inflightTurnSlot`: the code compares slots by pointer and each call makes its own. `pc`
is the caller's program counter (`new`, `cancelling` between the unlock of `CancelInflightTurn` and its `cancel()`, `sending` in the first select, `waiting` in
the second, `returned`, `panicked`), `wpc` the worker's (`receive`, `factory`, `turn`, `unwind` for the deferred calls, `exited`). One action is one step another goroutine can come
between: `LookupInflight` and `CancelSlot` are apart because the code unlocks between them; `Receive`, `StartTurn` and `EndTurn` are apart because the factory and the
turn take time. `deferred` is the stack of `defer wp.clearInflightTurnCancel(...)`: the statement is inside the loop, so the clears run when the worker leaves, not when a turn ends.
`Hanging` are turns that end only when their context is done (a model call that does not come back). `Next` uses the pool as its comments ask (`NoSenders` before `Close`); `Host` has the callers the program really has.

### Host

`mainPc` follows main from `inboundInflight.Wait()` to the deferred `bridge.Stop()` and `workerPool.Close()`. `Consume` (the bus hands a message over) and `Dispatch` (`Add(1)` and `go`) are apart, as in the code. The poller's
`Deliver` starts an uncounted goroutine under `context.Background()`, so a delivery in `Hanging` (for instance in an MCP call without a timeout, `mcpclient/manager.go:304`) is ended by nothing: `RunsForEver` is such a turn, `HeldUp` main in Close waiting for its worker. The bus is external: it is assumed to bring nothing once the root context is done, which is the assumption kindest to the code.

### Schedule

`fileMu` is `mu`; its holder works on `snap`, the rows it read, and its write replaces the file (a rename, so atomic). `Add`, `Remove` and `ListText` are the tool's request kinds; they share `ToolLock`, then refuse, fail to write or write, then notify. A poller
goes through `SubscribeWake`, the loop's head, the scan (`NextWakeDuration`), the timer, `CollectDue` and the deliveries; `at` is the `time.Now()` it took *before* it waited for the mutex. Failed reads and writes and crashes may happen anywhere, within `MaxFaults` and `MaxCrashes`. A scan that cannot read the file (`ScanFails`) makes the poller sleep its idle time, whatever is due (`timer.go:19-22`); a read or a write that fails in `CollectDue` (`CollectFails`) collects nothing. `added`, `ended`, `turns`, `waived` (jobs removed on request, or out of the file when a crash came before their submission) and `blind` (pollers whose last scan could not read) are history variables; only properties read them.
Left out: the isolated layout, and the wall clock going backwards.

### Transcript

A row is known by the turn that produced it and its kind. A message may be `marked`: its text looks like an injected block, and `ToUserVisibleMessages` drops its row (`to_user_visible.go:24-32,65-80`), so the transcript never has it; the rows a turn injects besides (attachments, reminders) are dropped the same way and left out. `Truncate` and `Write` are the two halves of `os.WriteFile`, `SaveFails` its error (logged, and the turn goes on), `Crash` the end of the process at any point of a turn. `RunTurn` is `loop.RunTurn` with every outcome that the
rows it leaves can tell apart: with or without a tool round, a text or an empty final message, any prefix of the context dropped by the byte budget.

### RunTurn

A nested agent is a `loop.RunTurn` on a message list of its own, so the state is a *frame* per depth: frame 0 is the session's turn, frame d + 1 the loop that a tool of frame d has started.
The tools that start one are not parallel safe, so there is at most one frame per depth. `pc[d]` is `idle`, `inherit` (the copied list is being sanitised), `budget`, `model`, `tools`, `done` or `failed`.

Texts are left out. A row of a list is its role, the round (depth and step) it belongs to and its place there: enough to say which call a tool row answers. What depends on byte sizes is a choice: whether `TrimMessagesToBudget` drops one more row
(`DropOldest` is one iteration of its loop) and whether the compact fits (`Compacted`). `DropTrailing` is one iteration of `trimInheritedParentMessages`. The model answers with a text, fails, or calls any list of tools in `Answers`, a small set per depth, also in the last step,
where it was offered none. `MaxSteps` is `cfg.MaxSteps` for every depth; a catalog entry (`max_turns`) may set another for its agent, and the budget and the compact are the same at every depth. `ToolEnds` is every end of a tool that is no nested loop: output, error, unknown name, permission refused, a
sub-agent that could not start. `NestedMeta` is `stripMetaForNested`: what a registry of a nested loop still offers. `KeptLen` is `dropTrailingIncompleteAssistantToolBatch`.

Left out: the file of the side chain, lifecycle callbacks and traces. The read cache is in `ReadCache`.

### The services

`MCServices` runs nine modules that share no state in the model, so it does not interleave them: each behaviour exercises the part its variable `focus`
names and leaves the others in their initial state. `RecallText` and `PolicyPaths` are functions: a focus of theirs has one initial state for each bounded input and no step.

**MaintainPipeline.** A pass (`Turns`, one post-turn pass each, and `Loop`) goes `wait`, `ask` (it has the mutex and its copy `local[p].snap`), `write`, `persist`; `Leave` is the deferred unlock on every path out. `NoAnswer` is an error, an
empty or headerless answer, and the deadline, which the code starts before it waits for the mutex (`maintain_run.go:165-179`); it goes to the next of `Tries`. `NewText` is what the code writes: its own copy with the day's block replaced, or the file
*as it is then* with the section appended. `maintain.go:214-218` trims the new block and puts the rest of the file right behind it, and that rest begins with a header: `Joined` makes one line of the last bullet and that header, after which the next section is read as a part of today's block.
`ToolWrites` are the tools of turns, which take no mutex: they add to the digest, with a section of its own or without, write it anew, add to `MEMORY.md` or replace it. `Torn` is `os.WriteFile` cut short; `Persist` may leave a state file that no longer reads, which loses the mark and the older version's cursor (`high`) together. `Digest` has the text functions on lines (a header, a bullet by its normalized key, anything else).
`taken` (facts a tool took out of a file) is a history variable, and so are `kept`, `stale`, `covered` and `excused`.

**RecallIndex.** One recall per session at a time: `Prune`, `Collect`, then `ReadNote`, `StatNote`, `Commit` per file, which the code does in that order without a lock against writers, then `Query`. `Scan` is the default backend, and what an error falls back on. Only maintenance marks (`MarkDirty`); other writers rely on the stamp, which has seconds.
`raced` excuses what the code's order cannot see: a write between a read and its commit, and a second write by a tool in one second. `RecallText` cuts queries, notes, bodies and hits of small size by the code's algorithms; its properties restate them declaratively. A character has a kind, an identity and a number of bytes: a word is a term if it has more than two *bytes* (`recall.go:375`), a pair of Han characters always. The caps on terms, on excerpts of a file and on their length are constants. The cap on the bytes read of a file, and lower case of another length than the text, are left out.

**PolicyPaths.** A call of `write_behavior_policy` in each kind of session (shared host, isolated, the older session directory, a repository) with every target, scope, rule name and agent type; the paths are sequences of segments. Written, injected, listed and audited paths come from the functions of the code that compute them.

**McpManager.** `BeginCall`, `Look`, `Count` are the three looks of `CallTool` (flag, read lock and flag again, map and `wg.Add`); `Swap`, `WaitReturns`, `TakeLock`, `CloseSession` are `Close`. **WorkspaceLists.** `ReadTasks`/`AnswerTasks` are under the mutex, `ReadRecent`/`SaveRecent` are not.
**UsageLedger.** The three writes of `MaybeRecord` in turn, each of which may fail, with crashes between. **ReadCache.** A read loads the file and stores its entry in two steps; a context may be at several reads, since `read_file` is parallel safe and the calls of one answer share the cache, and they store in any order; its tools that write, and its sub-agents, run when no read of it does. Other contexts' writes and writers that know of no cache come between.
**ExecRuns.** Runs share a root; a foreground run truncates and reads `run.log`, a background run appends to it and leaves its pid; a command that exceeds its time goes on, and so does what a foreground shell has left running when it ends (`Exit` ends the wait, `Output` may follow); `whole` is what was printed by then.

## 3. The runs

Deadlock checking is on in every run but the two of `MCServices`. Where the system may really stop, an explicit stuttering action says when (`Terminated`, `Gone`, `Idle`, `Quiet`), so a stop anywhere else is an error.
`MCServices` is made of parts that end (calls that have returned, a bounded clock) and of functions without a step, so it stops rightly.

| run | instance | shows |
|---|---|---|
| `worker_pool` | 2 shards, 2 sessions, 4 jobs (one hangs, one is its /stop, one behind it, one on the other shard), capacity 2 | `SessionMutex`, `RunningTurnIsStoppable`, `StopReachesOnlyStartedTurns`, `InflightEmptyAfterExit`, the refinement `ImplementsSessionTurns`; live: `StopEndsTurn`, `HangIsContained` |
| `host` | 1 shard of capacity 1, 2 messages of the bus (one hangs), 2 deliveries of the poller (one hangs) | `DrainedAtExit`; live: `ShutdownTerminates` |
| `schedule` | 2 pollers, a one-shot, a periodic, a cron job and a disabled row of an old file, one tool, 3 instants, at most 2 jobs, 1 crash, 1 failed read or write | `NoJobLost`, `OneShotOnce`, `NoLostWakeup`, `CollectedIsSubmitted` |
| `schedule_live` | the same with two jobs of one poller | `DueFires` |
| `transcript` | 3 messages (one looks injected), a /reset, a read-only command, a working file of 3 rows, 1 crash, 1 failed write | `RequestOnce`, `ContextWasSaid`, `ResetForgets`, `DialogPairs`, `TranscriptGrows` |
| `run_turn` | 3 steps, answers of up to 3 calls (a write between reads; reads before a fork; a sub-agent and then a fork; a fork below the first level), a least tail of 2 rows, 3 inherited rows, depth limit 3, with and without an earlier turn, a /stop at any time | `RequestWellFormed`, `UnsafeAlone`, `RepliesAreNoted`, `NestingIsBounded`, `CallersListIsUntouched`; live: `CancelEnds` |
| `services` | **maintain**: 2 turns and the loop, answers of two facts (one more than the section's cap admits), of nothing behind a preamble, or of both at once, 2 instants, no cursor of an older version, 1 fault or write by a tool; **recall**: 2 sessions, a private and a shared note, 1 edit, 2 seconds; **text**: queries of up to 5 characters of 6 (two Han, letters of one, two and three bytes, a blank) and 2 terms, notes of 5 lines, bodies of 12 places with 3 matches and 2 excerpts of 3, 2 recalls of up to 2 hits; **paths**: 4 kinds of sessions, 7 rule names, 4 agent types; **mcp**: 2 servers whose tool names collide, 2 calls; **lists**: 2 turns, 2 tasks, 3 skills, 3 changes; **ledger**: 2 recorders, 2 users, 2 days, 3 records, 1 failure; **cache**: 2 contexts, 1 file, 4 versions, one too large; **exec**: 2 runs, 2 seconds, 2 lines | `SnapshotIsCurrent`, `FactsAreKept`, `OnlyLateLinesAreSkipped`; `ShownIsCurrent`; `RecallTextIsExact`, `RecallStaysInBudget`; `PolicyIsRead`; `CallsHaveTheirSession`; `ListsHoldWhatWasSaid`; `RollupsAgree`; `CacheIsCurrent`; `OutputIsOwn`; live: `PassesEnd` |

Five runs are expected to fail: each checks a sentence of a comment or a document against what the code does.

| run | sentence | what TLC finds |
|---|---|---|
| `host_close` | "Do not call SubmitUser after Close." (`worker_pool.go:166`) | after the signal a delivery's goroutine, or a message consumed just before, sends on the closed channel and panics |
| `transcript_request` | "crash/interrupt still leaves the request on disk" (`engine.go:228`) | a crash in the save *after* the loop leaves a truncated file: the request is gone and the factory refuses every later turn |
| `transcript_answer` | "final assistant text per turn" (`engine.go:52`) | an empty final message makes `LastAssistantDisplay` find, and record, an earlier turn's text |
| `run_turn_tail` | trimming keeps "at least the last few messages" (`config.yaml:203`) | the count is looked at before an assistant row goes with all its tool rows: a user row and one large round both go, and the request has no message |
| `recall_leak` | "different session_ids: ... this session's `memory/` ... do not overlap" (`docs/session-home-isolation-design.md:24`, in Chinese) | with the sqlite backend all sessions share one index, and the query does not ask whose a row is: another session's sync between a recall's prune and its query puts its private note before the model |

**Why the bounds are enough.** The pool's interleavings involve a turn, a second job of its session, a /stop and a job elsewhere; capacities of one and two make a
full channel and a blocked sender happen. In Schedule, each hazard needs two writers of the file and one fault; three instants let a periodic job come due twice and a
cron expression run out. In Transcript a fourth message adds no new order of saves; three rows make the working file's tail drop rows.
In RunTurn two rounds and a last step are needed for a round to be dropped, and for the last step to offer no tools; three inherited rows cut the list inside a round at either end; depth 3 is the code's limit.
In `services` a pass needs a second one, and the loop, to race; two seconds make equal and different stamps; one edit is enough for each race of the index (the theorem covers any number); a collision of tool names, of seconds and of days each happens.
Every property of the passing runs is broken by a mutation of the model that stands for a plausible bug (`mutants`), so none holds by construction.

**Fairness.** A goroutine that can take a step eventually does (weak fairness per goroutine). A Go mutex starves nobody, so the two places where a poller waits for `fileMu` have strong fairness.
Nothing makes a message arrive, a signal come or a pool be closed, and a turn in `Hanging` is never forced to end but by its context; so `ShutdownTerminates` promises an end, or main waiting for a delivery that hangs (`HeldUp`). `schedule_live` assumes that time passes and that a submitted turn ends. Faults are not fair.
In `run_turn` a model or a tool has to return only once its context is done, which is what the HTTP client and the tools do with the context they are given; `CancelEnds` is then what `WorkerPool` assumes of its `Hanging` turns, that a cancelled turn ends.
In `services` a pass that waits gets the mutex (strong fairness, for Go's mutex starves nobody), and a pass that holds it goes on: a model call returns at the latest at the pass's deadline, and file writes return. Neither turns nor the loop have to begin anything.

## 4. The proofs

`WorkerPoolProofs` and `HostProofs` prove about the pool and its host, for every number of sessions, shards and jobs, every hash and every capacity, from `PoolAssumption` alone:

| theorem | of | property |
|---|---|---|
| `TypeCorrect` | `Spec` | `TypeOK`, with the bound on the channels |
| `Exclusion`, `HostExclusion` | `Spec`, `HostSpec` | `SessionMutex` |
| `Stoppable` | `Spec` | `RunningTurnIsStoppable` |
| `EmptyAfterExit` | `Spec` | `InflightEmptyAfterExit` |
| `StopIsAimed`, `HostStopIsAimed` | `Spec`, `HostSpec` | `StopReachesOnlyStartedTurns` |
| `CloseDrains` | `HostSpec` | `DrainedAtExit` |
| `TurnsAreKept`, `HostTurnsAreKept` | `Spec`, `HostSpec` | `ImplementsSessionTurns`: the pool, alone and in its process, implements `SessionTurns` |

None but the types is inductive by itself. The inductive invariant `IInv` adds *where a job can be*:

* `Holding`: a worker has a job exactly while it is in the factory or the turn. Without it nothing is known of `cur` when an action reads it.
* `Placement`: a channel, its worker and its deferred clears have jobs of that shard only. Two workers with jobs of one session would both be that session's shard, which is the whole of `Exclusion`; and a clear run by one worker cannot touch the running turn of another.
* `EntryHasClear`: an entry of the map is a job of that key whose clear is still on the stack of its shard's worker. With `ExitedUnwound` (an exited worker's stack is empty) it gives `EmptyAfterExit`.
* `RunningTurnIsStoppable` needs `Placement` at `StartTurn` (a new entry overwrites only entries of its own session, whose worker is the one that starts it) and at `ClearInflight` (the worker that unwinds runs no turn).

A second invariant, `StopInv`, follows a slot from the map to the caller that cancels it: an entry of the map has started (`EntriesStarted`), so the target that a lookup takes has started by then (`TargetsStarted`),
started turns stay started, and every cancelled slot was cancelled by such a caller (`CancelledByStop`).

The invariants are proved for `AnyStep`, every step the pool's code can take whoever calls it, a send on a closed channel included. The rules that `Spec` puts on its clients only restrict
`AnyStep`, and every step of `Host` is one of its steps or leaves the pool alone (`HostStepIsAnyStep`); this is how one proof serves both specifications. `CloseDrains` adds `DrainInv`: a job whose caller still waits is in its channel or
with its worker (`WaitingPlaced`), a worker leaves its loop only when its channel is empty and closed (`LeftDrained`), and main returns after all have left (`ExitIsLast`).

The refinement maps a session's queue to the jobs of that session in its shard's channel (`Kept`), and its running turn to the worker's. A send appends to the queue, `StartTurn` takes its head, and everything else stutters; what
`Receive` takes is the head of that session's queue because the jobs of other sessions in front of it are not kept (`KeptOfTail`). These facts about `Kept` are inductions over sequences. The library's induction theorems take an operator, which
the provers cannot instantiate; `SequenceFacts` states induction over *sets* instead (`LeastNatural` from the well-foundedness of finite intervals, then `SetInduction` and `SequenceInduction`), which needs none.

There is one lemma per action that disturbs the parts of `IInv` (`SendStep`, `ReceiveStep`, `ReplyStep`, `StartTurnStep`, `ClearStep`) and one per part of the other invariants; the types have theirs (`TypeStep`), and `AppendFacts`, `TailFacts` and `PushFacts` say what the three sequence operations do to the set of elements.

`ScheduleProofs` proves, for any clients, jobs, tools, bound on the clock, faults and crashes:

| theorem | property |
|---|---|
| `ScheduleTypes` | `TypeOK` |
| `JobsAreKept` | `NoJobLost` |
| `OneShotsFireOnce` | `OneShotOnce` |
| `WakeupsAreKept` | `NoLostWakeup` |
| `DeliveriesAreSubmitted` | `CollectedIsSubmitted` |

They share `ScheduleInv` (checked by TLC first, on 3 million states): who holds `fileMu` has in `snap` what is in the file (`HolderHasTheFile`), so a rewrite loses nothing another one wrote; every enabled row of the file was added, once (`RowsWereAdded`); a one-shot is in the file *or* in the batch of one poller *or* among
the turns (`OneShotInOnePlace`), for it leaves the file in the write that precedes the delivery; from its scan on a poller's target is the earliest run in the file, or there is a token in its channel, or a writer is about to put one there, or its scan could not read the file and it sleeps its idle time (`PollerIsInOrder`, `ScanIsCurrent`), which rests on the order of subscribe, scan and sleep.

`TranscriptProofs` proves, for any messages, crashes and failed writes:

| theorem | property |
|---|---|
| `ResetsForget` | `ResetForgets` |
| `ContextIsOnFile` | `ContextWasSaid` |
| `RequestsAreOnce` | `RequestOnce` |
| `PairsAreOfTurns` | `DialogPairs` |
| `TranscriptIsALog` | `TranscriptGrows` |

`TranscriptInv` says at each point of a turn what the engine's two lists and the two files have in common. `Shape` keeps rows that a /reset has forgotten out of all four and says which phases save. The request, unless it looks injected, is the last row of `Transcript` until the answer is there, and then the one before it (`RequestIsLast`).
A file that is not torn is what was last written whole, and `Transcript` extends it (`LastIsOnFile`), which is `TranscriptIsALog`. `RequestsAreThere` counts the request of each turn, on file and in memory, with `Kept`; the exception is the turn whose first save is under way. `ContextIsSaid` keeps the working rows within the transcript's, and needs that
the transcript is saved before the working file. `ResetIsEmpty` covers the points between the two saves of a /reset, and `DialogIsOfTurns` the dialog history.

`RunTurnProofs` proves, for any step limit, any answers of the model, any depth limit, any inherited length and any history that `ToUserVisibleMessages` can leave (`RunTurnAssumption`, `HistoriesAssumption`):

| theorem | of | property |
|---|---|---|
| `UnsafeRunsAlone` | `Spec` | `UnsafeAlone` |
| `NestingBounded` | `Spec` | `NestingIsBounded` |
| `ListUntouched` | `Spec` | `CallersListIsUntouched` |
| `RequestsAreFormed` | `Spec` | `RequestWellFormed` |
| `RepliesKeepNotes` | `Spec` | `RepliesAreNoted` |

The first three share one invariant, because they need each other. `BatchInv` says of every frame that a running call has no result (`RunningIsOpen`) and that a call which has begun found every earlier call ended, but those of its own batch (`BatchOrder`); a batch is made of safe calls
(`BatchIsSafe`), so an unsafe call begins when nothing of its answer runs (`UnsafeBeginsAlone`). The tools that start a nested loop are unsafe, so where one is started no loop runs below (`NestedStartsBelow`): without that, the frame a new loop overwrites
might be in use. `CallersWait` says that each caller of an active loop is in a tool of its own, so it neither collects nor asks its model, which is `ListUntouched`. `Shallow` relates the depth of a loop to the two tools of its registry:
they are there at depths 0 and 1 only, so a loop is at depth 2 at most. There is one lemma per action (`CallsKeep`, `StartKeeps`, `ToolEndKeeps`, `CollectKeeps`, `NestedKeeps`, `EndNestedKeeps`) and one for the steps of a loop outside its tools (`OwnKeeps`).

The last two need `ListsInv` besides: `ListFits` says what the list of a loop looks like at each `pc`. It is well formed before a request; among tools it is `Pending`, the calls of its last row being the only ones without answers; a list that is being inherited is one or the other, since it may have been copied from a caller in the middle of its round.
`FormedTo(ms, m)` is well-formedness of a prefix, which every operation on a list takes apart or puts together (`DroppedFormed` for the budget, `BatchFormed` for a collected batch, `InheritedPends` and `CutFormed` for the inherited list): a front that goes takes whole rounds with it, because it ends where a row that is no answer begins.
`PendingIsCut` and `FormedIsKept` say that `dropTrailingIncompleteAssistantToolBatch` cuts exactly the pending calls. For the notes, `NotesFrom` dates them: a note of a list is of an earlier step of its loop or was inherited, so the notes of a batch are new, and each reply of a batch has its note among `deferred` (`NotesFit`).

The theorems about the services, each for any constants that meet the module's assumption:

| theorem | property | the invariant, and why it is needed |
|---|---|---|
| `ServiceProofs!PassesExclude` | `SnapshotIsCurrent` | `HolderOnly` (every pass that is inside, *also while it persists*, holds the mutex) makes "inside" a matter of one pass; `SnapshotHolds` then survives a write because the writer no longer needs its copy and nobody else has one. `Leave` releases on every path. |
| `ServiceProofs!CallsKeepTheirSession` | `CallsHaveTheirSession` | `CallsAreCounted`: a call that is not late is counted while Close is at most waiting, and the count holds Close up. The call that looked before the flag was set and is counted after the wait is the only exception, and the theorem shows it is. |
| `ServiceProofs!ListsAreKept` | `ListsHoldWhatWasSaid` | `TasksInv`: the holder of the mutex has a current copy, and the file is what the answers said. `InOrder` ties the file of recent skills to the history of uses: its names stand in the order of their last uses, and while it is not full a name that is not in it was never used. `RecentInv` keeps that as long as no two uses have overlapped, because then there is one copy at most and it is still the file; that the name just used goes to the front, and leaves its old place, keeps the order is `UseKeepsOrder`. |
| `ServiceProofs!RollupsFollow` | `RollupsAgree` | the property is not inductive, since a record changes the three sums at three steps. `AllAgree` adds to each sum what the record under way has still to add to it (`DayToCome`, `UserToCome`, `ToComeFor`), and then only failed writes and crashes make a difference; `AdderIsAlone` says that only the holder of the mutex adds, and `TotalsAreCurrent` that the total it read is still there. |
| `ServiceProofs!CacheHolds` | `CacheIsCurrent` | `ReadsAreCurrent`: what each of the reads a context is at has in hand is of the turn, and is still the file unless a later version is `foreign`. A new version is foreign to every context but its writer's, and its writer is at no read (`NewVersionKeeps`); so reads that run together can only disagree about foreign versions, and whichever stores last says no more than the property. |
| `ServiceProofs!NoFactIsLost` | `FactsAreKept` | `Safe` follows a pass: what it has read is still in the file, but for what tools took out since (`taken`), and what must be kept was there (`ReadIsThere`); the text it is about to write has all of that and what it was given, but for what the cap cuts and, if another section stands behind the block, its last bullet (`TextHasAll`, `Dropped`). Needs `SnapshotHolds` of `MaintInv`: no other pass has written. |
| `ServiceProofs!LinesAreReached` | `OnlyLateLinesAreSkipped` | a line that is not covered is above the base of the next window, or excused: a mark is set only by a pass that covered its window, and what ends while that pass runs is `excused`. Two hypotheses, both necessary: `Overlap # 0`, since a line of the very second of the mark is otherwise skipped (`incremental_overlap` may be set to 0, `config/push_rtopts.go:58-68`), and `High <= Start`, an old version's cursor that is not ahead of the clock. A torn state file takes the mark and the cursor away together, and the window back to the first look-back. |
| `ServiceProofs!AnswersAreOwn` | `OutputIsOwn` | `MatesInv`: the lines and the pid in a directory, and so every answer, come from runs of its second. A run alone in its second owns its directory: what `run.log` holds there is what that run has printed so far, and its answer is at least what was there when its shell ended (`Answered`; what it left running may print more before the log is read). |
| `MemoryProofs!RecallShowsCurrent` | `ShownIsCurrent` | `RowsAreTrusted`: a row that would not be indexed again is current, raced, or waits for its mark; `IndexedIsOwed`: what a recall need not index any more is as new as it owes. Both need `StampsGrow` (no stamp is ahead of the clock, no row ahead of its file). Other sessions' prunes, commits and marks are steps of the same proof. |
| `MemoryProofs!RecallIsBounded` | `RecallStaysInBudget` | `SortedFacts`: a finite set that a relation puts in a row has its elements in that order, each once (the place of an element is the number of those before it). With it the first hit of a note in the ranking is a best one (`RankedFacts`). `Rooms`: the room left and the bytes taken add up to the budget less the header, whatever hit comes next (`SurfaceFacts`), and a session that has kept to its budget does so after any further recall (`AttachFacts`), not only the second. |
| `MemoryProofs!RecallIsExact` | `RecallTextIsExact` | an invariant for each of the loops. `Tokens`: the terms so far are the long words and the pairs that a later letter has ended (`HasTerms`), the runs kept back are the letters since the last other one, and the bytes counted are theirs (`HasSize`); what is admitted of them is the first of each, up to the cap. `Sections`: the chunks so far cover the note up to the open heading (`Cover`), and the stack holds the headings no later one has closed, each no deeper in the stack than its level (`IsPath`; "no deeper" because a jump over a level counts as one down). `Covers`: the windows are apart, every match so far lies in one, each begins where one of its matches' padding begins, so that the sorted order puts the next match behind all but the last window, and shows nothing far from its matches. `TurnsExist` gives each loop its values. |
| `MemoryProofs!PoliciesAreRead` | `PolicyIsRead` | a function of the call, so nothing to be inductive about, but for `filepath.Clean`: `CleanedIsClean` shows, by induction over the segments, that a cleaned path goes up first or not at all, which is why one look at its first segment is enough for the code. What is put below a root lies under it (`UnderBegins`), and what is read back is what was put there (`RuleIsRead`). `PathsAssumption` says how `MainEngineFactory` lays out the directories of a session (`engine_factory.go:34-60`); that no session lies below `projects` and the data root in no session's rules keeps a rule from being taken for a memory file. |

`NoFactIsLost` rests on lemmas that say what each text operation of `Digest` does, for texts of any length: `TakeFacts` (the bullets taken are the new ones, each once, in the order of their first places, so the old ones come first), `SpanFacts` and `PartFacts` (the day's block and the two parts around it make up the text),
`DedupeFacts`, `MergeFacts`, `TrimFacts`. The delicate case is the answer that the code takes for "nothing new": `FactsAreMerged` and `NothingIsLost` show that then every fact of the answer is on file or among the rules already. One way to look like nothing new is to equal the old block, and a section that the cap has cut never does (`CutChanges`): it has lost
its oldest bullets, among them the first, which the old block still has. `Take` keeps first occurrences by their places, as the loop over the slice does, and not by a fold, so that it can be reasoned about.

The sums of `RollupsFollow` are folds over the values of a function, whose library definition is recursive. `SumUnfolds` shows that this recursion has a solution on every finite set, by induction over its size (`SumLoopExists`), and `SumOfOneMore` what the proof needs of it: one more at one place is one more in the sum.
This is why the assumption of `UsageLedger` says that the users are finitely many, which they are; that of `WorkspaceLists` says it of the skill names, since the listing puts a whole set in some order.

A loop over a slice is a recursive function here, and what it computes for every input is proved by an invariant of its turns (`TurnsExist` and `RunInvariant` of `SequenceFacts`), with the induction on numbers that `SetInduction` takes from the least element of a set.
Every invariant and action property the passing runs check is stated by a theorem. Only model-checked are the liveness properties (`StopEndsTurn`, `HangIsContained`, `ShutdownTerminates`, `DueFires`, `CancelEnds`, `PassesEnd`): what must happen under fairness is out of the proof system's reach here.

## 5. What the models made visible

Not contradicted by a document, so no run expects them, but worth a maintainer's look:

* The post-turn deadline starts before the wait for `maintainPipelineMu`: a pass behind a slow one may have no time left for its model (`maintain_run.go:165-179`).
* The block a pass writes is trimmed, and the rest of the file is put behind it without a line break (`maintain.go:214-218`, with `maintain_merge.go:43`): with a section behind the day's block its last bullet and that section's header become one line, the bullet is spoilt, and the section counts as today's from then on, so that its lines that are no bullets go with the next rewrite. The comment there (`maintain.go:212`) only says "replaces today's digest span". `FactsAreKept` excuses that bullet (`RunTogether`), and no other.
* A delivery of the poller that hangs keeps the process for ever: it runs under `context.Background()` (`host_poll.go:80`), and Close waits for its worker (`HeldUp` in `ShutdownTerminates`).
* "If ok is false, there is no next run" (`timer.go:10`) is not all: `ok` is also false when the jobs file cannot be read, and the poller then sleeps its idle time with due jobs in the file (`blind` in `NoLostWakeup`; `DueFires` holds all the same, later).
* A request whose text looks like an injected block is in no transcript (`to_user_visible.go:65-80`; `RequestOnce` says zero times).
* The length of a search term is one in bytes (`recall.go:375`): words of two letters that are not ASCII are terms. The offsets of matches come from the lower-case copy of the body (`recall.go:189`), which for some characters has another length than the body they are cut from.
* A pass rewrites the digest from the copy it read before it asked the model; what a tool writes to it in between is lost (`stale` in `SnapshotIsCurrent`). Log lines stamped between a scheduled pass's probe and its end are behind the mark of the next one, but for the overlap (`excused`).
* A model's answer with a line before the day's header loses its bullets. One that mixes "(no durable entries)" with facts may lose the facts behind it: once the known bullets are left out, or the cap has cut the older ones, that bullet comes *first* and the whole section counts as nothing new, in this pass and in the day's later ones. The mark advances all the same
  (`maintain_run.go:335-376`, `maintain_dedupe.go:114`). So `Given` counts the facts of an answer only if it begins with the header and neither it nor the file has that bullet; for those, `NoFactIsLost` holds without exception.
* `-maintain-once` is a process of its own (`main.go:132`), which the mutex does not exclude.
* A write by a tool within the second of another, or between the index's read and its commit, stays out of the index until the next change (`raced`).
* `MEMORY.md` under the instruction root and the notes of agents other than `default` are not audited; agent memory of the others is read by no prompt (`PolicyIsRead` excepts it). In the shared host `AGENT.md` and the rules are injected twice.
* exec suggests `read_file` on `run.log`, whose directory is outside the roots `read_file` admits; two runs of one second share a log (`Alone` in `OutputIsOwn`), and what a foreground command leaves running goes on printing into a log that was answered with.
* A rollup that cannot be read is begun again from zero (`wiped`). Two overlapping uses of skills lose one (`crossed`). `replace: true` discards the tasks of other sessions. Of two MCP tools with one sanitized name the second is skipped.
* In `CallTool`, a call may be counted after `Close` has waited (`late`). main closes the pool first, so in this program no turn is there to do it.
* Races the properties admit by name rather than exclude: `raced` (index), `stale` and `taken` (digest), `excused` (log lines), `late` (MCP), `crossed` (skills), `slips` and `wiped` (ledger), `foreign` (read cache), a /reset cut short between its two files (`resetting` in `ResetForgets`). Each property says that nothing *else* goes wrong.
* How long a caller blocks in the first select of a full shard is not covered: `HangIsContained` begins with the send.
* The slots of ended turns stay in the pool's inflight map until the worker exits, because the `defer` is inside the loop (`worker_pool.go:87`).

## 6. Not modelled

* Notification, logging: output nobody reads back. The model's transport, prompts: an external service and text.
* Conversion of inbound and outbound messages: sequential, one message at a time, files under fresh names.
* Configuration: merged once, before any goroutine. Its values are constants of the models.
* Parsing of skills, agent and job files; pricing (floating point); schemas of tools; grep, glob, list_dir (they write nothing).
* Schedule's isolated layout (a jobs file per session); the scheduled pass over whole days; the cap on the dialog history and the search in it; the side chain's file.

What a further step would take up: the isolated layout of Schedule, and the composition of `MaintainPipeline` with `RecallIndex` on one file, which here meet only through the action `WriteNote`.
