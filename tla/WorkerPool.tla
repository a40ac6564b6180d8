----------------------------- MODULE WorkerPool -----------------------------
(***************************************************************************)
(* session/worker_pool.go: a fixed set of worker goroutines runs the turns *)
(* of all sessions.  SubmitUser sends a job on the channel of the shard    *)
(* its session hashes to and waits for the answer; the worker of the shard *)
(* builds an engine, registers the turn's cancel function under the        *)
(* session's key, runs the turn and answers; CancelInflightTurn (inbound   *)
(* /stop) cancels the registered turn; Close closes the channels and waits *)
(* for the workers.                                                        *)
(*                                                                         *)
(* One job is one call of SubmitUser by one goroutine.  A job stands also  *)
(* for its inflightTurnSlot: slots are compared by pointer and every call  *)
(* makes its own.                                                          *)
(***************************************************************************)
EXTENDS Naturals, Sequences, FiniteSets, Subsequences

CONSTANTS
    Jobs,       \* the calls of SubmitUser
    Sessions,   \* the keys of the session handles
    Workers,    \* the shards: worker w reads channel w
    SessionOf,  \* [Jobs -> Sessions], from the message's client and session id
    ShardOf,    \* [Sessions -> Workers], the hash of the key modulo the shards
    StopJobs,   \* the jobs whose message is the /stop command
    RootJobs,   \* the jobs submitted under the process root context
    Hanging,    \* the turns that end only when their context is done
    Capacity,   \* the capacity of a shard's channel (256 in the code)
    None

ASSUME PoolAssumption ==
    /\ SessionOf \in [Jobs -> Sessions]
    /\ ShardOf \in [Sessions -> Workers]
    /\ StopJobs \subseteq Jobs
    /\ RootJobs \subseteq Jobs
    /\ Hanging \subseteq Jobs \ StopJobs
    /\ Capacity \in Nat \ {0}
    /\ None \notin Jobs

VARIABLES
    pc,         \* where each SubmitUser caller stands
    stopSlot,   \* the slot a /stop caller read from the inflight map
    cancelled,  \* the jobs whose turnCancel was called
    rootDone,   \* the root context is cancelled
    chans,      \* the shard channels
    closed,     \* the channels Close has closed
    errCh,      \* the jobs whose answer channel, of capacity one, holds the answer
    wpc,        \* where each worker stands
    cur,        \* the job each worker holds
    inflight,   \* the map: session key -> slot
    deferred,   \* per worker, the pending deferred clearInflightTurnCancel calls, last first
    finished    \* the jobs a worker has answered

callerVars == <<pc, stopSlot, cancelled>>
workerVars == <<wpc, cur, inflight, deferred, finished>>
poolVars == <<pc, stopSlot, cancelled, rootDone, chans, closed, errCh,
              wpc, cur, inflight, deferred, finished>>

CallerPC == {"new", "cancelling", "sending", "waiting", "returned", "panicked"}
WorkerPC == {"receive", "factory", "turn", "unwind", "exited"}

-----------------------------------------------------------------------------
(* The decisions the code takes, one operator each.                        *)

\* Variants: what the operators below would be with a plausible bug.
ShardByMessage(j)    == IF j \in StopJobs THEN CHOOSE w \in Workers : w # ShardOf[SessionOf[j]]
                                          ELSE ShardOf[SessionOf[j]]
HasRoomOffByOne(w)   == Len(chans[w]) <= Capacity
EnqueueFront(q, j)   == <<j>> \o q
FirstSlotStays(s, j) == IF s = None THEN j ELSE s
ClearOthersSlot(s, j) == IF s # j THEN None ELSE s
StopNextToo(j)       == IF inflight[SessionOf[j]] = None /\ chans[ShardOf[SessionOf[j]]] # <<>>
                        THEN Head(chans[ShardOf[SessionOf[j]]]) ELSE inflight[SessionOf[j]]
ParentCtxOnly(j)     == rootDone /\ j \in RootJobs
ParentNeverDone(j)   == FALSE
AnswerLost(w)        == FALSE
LeftWithoutDraining(w) == w \in closed

\* SubmitUser: the shard of the message's session.
Shard(j) == ShardOf[SessionOf[j]]

\* The channel send does not block.
HasRoom(w) == Len(chans[w]) < Capacity

\* A channel is first in, first out.
Enqueue(q, j) == Append(q, j)

\* The context the caller passed to SubmitUser, and the turn's own: context.WithCancel.
ParentDone(j) == rootDone /\ j \in RootJobs
CtxDone(j)    == j \in cancelled \/ ParentDone(j)

\* The slot CancelInflightTurn finds.
StopTarget(j) == inflight[SessionOf[j]]

\* setInflightTurnCancel overwrites the key's slot s.
RegisteredSlot(s, j) == j

\* clearInflightTurnCancel deletes the key's slot s only if it is j's own.
ClearedSlot(s, j) == IF s = j THEN None ELSE s

\* The send on w.err does not block: the job's channel has capacity one.
CanAnswer(w) == cur[w] \notin errCh

\* The range over the channel ends: it is closed and drained.
Drained(w) == w \in closed /\ chans[w] = <<>>

\* A goroutine that panics takes the whole process down.
Crashed == \E j \in Jobs : pc[j] = "panicked"

\* A worker has taken the job.
Started(j) == j \in finished \/ \E w \in Workers : cur[w] = j

Init ==
    /\ pc = [j \in Jobs |-> "new"]
    /\ stopSlot = [j \in Jobs |-> None]
    /\ cancelled = {}
    /\ rootDone = FALSE
    /\ chans = [w \in Workers |-> <<>>]
    /\ closed = {}
    /\ errCh = {}
    /\ wpc = [w \in Workers |-> "receive"]
    /\ cur = [w \in Workers |-> None]
    /\ inflight = [k \in Sessions |-> None]
    /\ deferred = [w \in Workers |-> <<>>]
    /\ finished = {}

-----------------------------------------------------------------------------
(* The callers: submitInbound, CancelInflightTurn and SubmitUser.          *)

\* An ordinary message goes straight to SubmitUser.
Call(j) ==
    /\ j \notin StopJobs
    /\ pc[j] = "new"
    /\ pc' = [pc EXCEPT ![j] = "sending"]
    /\ UNCHANGED <<stopSlot, cancelled, rootDone, chans, closed, errCh>>
    /\ UNCHANGED workerVars

\* /stop: CancelInflightTurn reads the slot under inflightMu ...
LookupInflight(j) ==
    /\ j \in StopJobs
    /\ pc[j] = "new"
    /\ pc' = [pc EXCEPT ![j] = "cancelling"]
    /\ stopSlot' = [stopSlot EXCEPT ![j] = StopTarget(j)]
    /\ UNCHANGED <<cancelled, rootDone, chans, closed, errCh>>
    /\ UNCHANGED workerVars

\* ... and calls its cancel function after the unlock; SubmitUser follows.
CancelSlot(j) ==
    /\ pc[j] = "cancelling"
    /\ pc' = [pc EXCEPT ![j] = "sending"]
    /\ cancelled' = cancelled \cup ({stopSlot[j]} \ {None})
    /\ UNCHANGED <<stopSlot, rootDone, chans, closed, errCh>>
    /\ UNCHANGED workerVars

\* The first select of SubmitUser: the channel has room.
Send(j) ==
    /\ pc[j] = "sending"
    /\ Shard(j) \notin closed
    /\ HasRoom(Shard(j))
    /\ chans' = [chans EXCEPT ![Shard(j)] = Enqueue(@, j)]
    /\ pc' = [pc EXCEPT ![j] = "waiting"]
    /\ UNCHANGED <<stopSlot, cancelled, rootDone, closed, errCh>>
    /\ UNCHANGED workerVars

\* The same select on a closed channel: that send is always ready, and panics; so does
\* one that was already blocked when Close ran.  The rules below keep this from happening:
\* it is a step of module Host.
SendOnClosed(j) ==
    /\ pc[j] = "sending"
    /\ Shard(j) \in closed
    /\ pc' = [pc EXCEPT ![j] = "panicked"]
    /\ UNCHANGED <<stopSlot, cancelled, rootDone, chans, closed, errCh>>
    /\ UNCHANGED workerVars

\* Either select of SubmitUser takes its ctx.Done branch; the deferred turnCancel runs.
GiveUp(j) ==
    /\ pc[j] \in {"sending", "waiting"}
    /\ ParentDone(j)
    /\ pc' = [pc EXCEPT ![j] = "returned"]
    /\ cancelled' = cancelled \cup {j}
    /\ UNCHANGED <<stopSlot, rootDone, chans, closed, errCh>>
    /\ UNCHANGED workerVars

\* The second select of SubmitUser receives the answer; the deferred turnCancel runs.
TakeAnswer(j) ==
    /\ pc[j] = "waiting"
    /\ j \in errCh
    /\ pc' = [pc EXCEPT ![j] = "returned"]
    /\ errCh' = errCh \ {j}
    /\ cancelled' = cancelled \cup {j}
    /\ UNCHANGED <<stopSlot, rootDone, chans, closed>>
    /\ UNCHANGED workerVars

SubmitUser(j) == Send(j) \/ GiveUp(j) \/ TakeAnswer(j)

-----------------------------------------------------------------------------
(* The workers: runWorker.                                                 *)

Receive(w) ==
    /\ wpc[w] = "receive"
    /\ chans[w] # <<>>
    /\ cur' = [cur EXCEPT ![w] = Head(chans[w])]
    /\ chans' = [chans EXCEPT ![w] = Tail(@)]
    /\ wpc' = [wpc EXCEPT ![w] = "factory"]
    /\ UNCHANGED callerVars
    /\ UNCHANGED <<rootDone, closed, errCh, inflight, deferred, finished>>

\* w.err <- the turn's error or nil, after which the worker receives again.
Reply(w) ==
    /\ CanAnswer(w)
    /\ errCh' = errCh \cup {cur[w]}
    /\ finished' = finished \cup {cur[w]}
    /\ cur' = [cur EXCEPT ![w] = None]
    /\ wpc' = [wpc EXCEPT ![w] = "receive"]
    /\ UNCHANGED callerVars
    /\ UNCHANGED <<rootDone, chans, closed, inflight, deferred>>

\* The factory fails (an unreadable transcript, for one): no slot is registered.
FactoryFails(w) ==
    /\ wpc[w] = "factory"
    /\ Reply(w)

\* The engine is built: setInflightTurnCancel, the clear is deferred to the end of the
\* goroutine (the defer stands in the loop), and the turn begins.
StartTurn(w) ==
    LET j == cur[w] IN
    /\ wpc[w] = "factory"
    /\ inflight' = [inflight EXCEPT ![SessionOf[j]] = RegisteredSlot(@, j)]
    /\ deferred' = [deferred EXCEPT ![w] = <<j>> \o @]
    /\ wpc' = [wpc EXCEPT ![w] = "turn"]
    /\ UNCHANGED callerVars
    /\ UNCHANGED <<rootDone, chans, closed, errCh, cur, finished>>

\* eng.SubmitUser returns and its error is sent back.  A turn may also end well after its
\* context is done; one in Hanging ends only then.
EndTurn(w) ==
    /\ wpc[w] = "turn"
    /\ cur[w] \in Hanging => CtxDone(cur[w])
    /\ Reply(w)

LeaveLoop(w) ==
    /\ wpc[w] = "receive"
    /\ Drained(w)
    /\ wpc' = [wpc EXCEPT ![w] = "unwind"]
    /\ UNCHANGED callerVars
    /\ UNCHANGED <<rootDone, chans, closed, errCh, cur, inflight, deferred, finished>>

\* The deferred clearInflightTurnCancel calls run, the last one first.
ClearInflight(w) ==
    LET j == Head(deferred[w]) IN
    /\ wpc[w] = "unwind"
    /\ deferred[w] # <<>>
    /\ inflight' = [inflight EXCEPT ![SessionOf[j]] = ClearedSlot(@, j)]
    /\ deferred' = [deferred EXCEPT ![w] = Tail(@)]
    /\ UNCHANGED callerVars
    /\ UNCHANGED <<rootDone, chans, closed, errCh, wpc, cur, finished>>

\* wg.Done was deferred first, so it runs last.
Exit(w) ==
    /\ wpc[w] = "unwind"
    /\ deferred[w] = <<>>
    /\ wpc' = [wpc EXCEPT ![w] = "exited"]
    /\ UNCHANGED callerVars
    /\ UNCHANGED <<rootDone, chans, closed, errCh, cur, inflight, deferred, finished>>

RunWorker(w) ==
    \/ Receive(w)
    \/ FactoryFails(w)
    \/ StartTurn(w)
    \/ EndTurn(w)
    \/ LeaveLoop(w)
    \/ ClearInflight(w)
    \/ Exit(w)

-----------------------------------------------------------------------------
(* The owner of the pool: the root context and Close.                      *)

CancelRoot ==
    /\ ~ rootDone
    /\ rootDone' = TRUE
    /\ UNCHANGED callerVars
    /\ UNCHANGED <<chans, closed, errCh>>
    /\ UNCHANGED workerVars

\* Close closes the channels one after the other and waits for the workers.
CloseChan(w) ==
    /\ w \notin closed
    /\ closed' = closed \cup {w}
    /\ UNCHANGED callerVars
    /\ UNCHANGED <<rootDone, chans, errCh>>
    /\ UNCHANGED workerVars

WorkersGone == \A w \in Workers : wpc[w] = "exited"

-----------------------------------------------------------------------------
(* The pool used as its comments ask: Close runs when nobody is, or will   *)
(* be, in the first select of SubmitUser.  Module Host has the callers the *)
(* program really has.                                                     *)

NoSenders == \A j \in Jobs : pc[j] \notin {"cancelling", "sending"}

NewCall(j) == closed = {} /\ (Call(j) \/ LookupInflight(j))

Close(w) == NoSenders /\ CloseChan(w)

\* The pool is closed and every call has returned: nothing is left to do.
Terminated ==
    /\ WorkersGone
    /\ \A j \in Jobs : pc[j] \in {"new", "returned"}
    /\ UNCHANGED poolVars

Next ==
    \/ \E j \in Jobs : NewCall(j) \/ CancelSlot(j) \/ SubmitUser(j)
    \/ \E w \in Workers : RunWorker(w) \/ Close(w)
    \/ CancelRoot
    \/ Terminated

\* A goroutine that can take a step takes it.  Nobody has to send a message, to stop the
\* process or to close the pool.
Fairness ==
    /\ \A j \in Jobs : WF_poolVars(CancelSlot(j)) /\ WF_poolVars(SubmitUser(j))
    /\ \A w \in Workers : WF_poolVars(RunWorker(w))

Spec == Init /\ [][Next]_poolVars

FairSpec == Spec /\ Fairness

-----------------------------------------------------------------------------
(* Properties.                                                             *)

\* Every variable has its type, and a shard never buffers more than its capacity.
TypeOK ==
    /\ pc \in [Jobs -> CallerPC]
    /\ stopSlot \in [Jobs -> Jobs \cup {None}]
    /\ cancelled \in SUBSET Jobs
    /\ rootDone \in BOOLEAN
    /\ chans \in [Workers -> Seq(Jobs)]
    /\ \A w \in Workers : Len(chans[w]) <= Capacity
    /\ closed \in SUBSET Workers
    /\ errCh \in SUBSET Jobs
    /\ wpc \in [Workers -> WorkerPC]
    /\ cur \in [Workers -> Jobs \cup {None}]
    /\ inflight \in [Sessions -> Jobs \cup {None}]
    /\ deferred \in [Workers -> Seq(Jobs)]
    /\ finished \in SUBSET Jobs

\* No two workers hold turns of one session at the same time, from the moment the job is
\* received (the factory already reads the session's transcript) to its answer.
SessionMutex ==
    \A v, w \in Workers :
        (cur[v] # None /\ cur[w] # None /\ SessionOf[cur[v]] = SessionOf[cur[w]]) => v = w

\* While a turn runs, its own slot is the one its session's /stop finds, although the
\* entries of earlier turns are not deleted when these end.
RunningTurnIsStoppable ==
    \A w \in Workers : wpc[w] = "turn" => inflight[SessionOf[cur[w]]] = cur[w]

\* The cancellation of a call that has not returned comes from a /stop of its own session
\* and hits a turn a worker has already taken: a /stop never reaches a queued message,
\* another session, or the turn that acknowledges it.
StopReachesOnlyStartedTurns ==
    \A j \in Jobs :
        (pc[j] \in {"new", "cancelling", "sending", "waiting"} /\ j \in cancelled) =>
            /\ Started(j)
            /\ \E s \in StopJobs : s # j /\ pc[s] # "new" /\ SessionOf[s] = SessionOf[j]

\* Once the workers are gone the deferred clears have emptied the inflight map.
InflightEmptyAfterExit ==
    WorkersGone => \A k \in Sessions : inflight[k] = None

\* The turns of each session run one at a time, in the order of their sends, once each.
PendingOf(k) == Kept(chans[ShardOf[k]], {j \in Jobs : SessionOf[j] = k})
RunningOf(k) ==
    IF cur[ShardOf[k]] # None /\ SessionOf[cur[ShardOf[k]]] = k THEN cur[ShardOf[k]] ELSE None

Turns == INSTANCE SessionTurns WITH
    pending <- [k \in Sessions |-> PendingOf(k)],
    running <- [k \in Sessions |-> RunningOf(k)],
    done    <- finished

ImplementsSessionTurns == Turns!Spec

\* A /stop that found the running turn makes it end, even one that would run for ever.
StopEndsTurn ==
    \A s \in StopJobs : \A j \in Jobs \ {s} :
        (pc[s] = "cancelling" /\ stopSlot[s] = j) ~> (j \in finished)

\* A turn that never ends holds up its own shard only: on every other shard each call that
\* was accepted is answered or given up.
HangIsContained ==
    \A j \in Jobs :
        (\A h \in Hanging : Shard(h) # Shard(j)) =>
            ((pc[j] = "waiting") ~> (pc[j] = "returned"))

=============================================================================
