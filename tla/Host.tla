-------------------------------- MODULE Host --------------------------------
(***************************************************************************)
(* The goroutines of cmd/oneclaw/main.go around the worker pool: the       *)
(* consumer of the bus starts one goroutine per inbound message, counted   *)
(* by the wait group inboundInflight; the schedule poller of a client      *)
(* starts one goroutine per delivery, which nobody counts and whose        *)
(* context is context.Background(); on the signal main waits for the       *)
(* counted goroutines, then runs its deferred calls: bridge.Stop and       *)
(* workerPool.Close.                                                       *)
(*                                                                         *)
(* The jobs of the bus are RootJobs; the others are the poller's.  Which   *)
(* deliveries are due, and when, is module Schedule's subject: here every  *)
(* non-empty set of jobs not yet delivered may be.                         *)
(***************************************************************************)
EXTENDS WorkerPool

VARIABLES
    mainPc,     \* where main stands
    consuming,  \* the consumer is in its loop
    got,        \* the message ConsumeInbound returned and no goroutine has yet
    inbound,    \* the goroutines inboundInflight counts
    pollPc,     \* where the schedule poller stands
    batch,      \* the deliveries CollectDue returned that are not submitted yet
    pollJob,    \* the delivery the poller waits for
    spawned     \* the deliveries whose goroutine was started

consumerVars == <<consuming, got, inbound>>
pollerVars   == <<pollPc, batch, pollJob, spawned>>
hostVars     == <<mainPc, consuming, got, inbound, pollPc, batch, pollJob, spawned>>
allVars      == <<poolVars, hostVars>>

PollJobs == Jobs \ RootJobs

\* The process has neither returned from main nor crashed.
Alive == mainPc # "exited" /\ ~ Crashed

HostInit ==
    /\ Init
    /\ mainPc = "serving"
    /\ consuming = TRUE
    /\ got = None
    /\ inbound = {}
    /\ pollPc = "loop"
    /\ batch = {}
    /\ pollJob = None
    /\ spawned = {}

-----------------------------------------------------------------------------
(* The consumer goroutine and the goroutines it starts.                    *)

\* ConsumeInbound returns a message.  (The bus is external; that it no longer does so
\* once the root context is done is the assumption kindest to the code.)
Consume(j) ==
    /\ consuming /\ got = None
    /\ ~ rootDone
    /\ j \in RootJobs /\ pc[j] = "new" /\ j \notin inbound
    /\ got' = j
    /\ UNCHANGED <<mainPc, consuming, inbound>>
    /\ UNCHANGED pollerVars
    /\ UNCHANGED poolVars

\* inboundInflight.Add(1) and the go statement.
Dispatch ==
    /\ got # None
    /\ inbound' = inbound \cup {got}
    /\ got' = None
    /\ UNCHANGED <<mainPc, consuming>>
    /\ UNCHANGED pollerVars
    /\ UNCHANGED poolVars

\* ConsumeInbound returns context.Canceled.
StopConsuming ==
    /\ consuming /\ got = None
    /\ rootDone
    /\ consuming' = FALSE
    /\ UNCHANGED <<mainPc, got, inbound>>
    /\ UNCHANGED pollerVars
    /\ UNCHANGED poolVars

\* A started goroutine calls submitInbound.
Submit(j) ==
    /\ j \in inbound \cup spawned
    /\ Call(j) \/ LookupInflight(j)
    /\ UNCHANGED hostVars

\* The deferred inboundInflight.Done.
InboundDone(j) ==
    /\ j \in inbound
    /\ pc[j] = "returned"
    /\ inbound' = inbound \ {j}
    /\ UNCHANGED <<mainPc, consuming, got>>
    /\ UNCHANGED pollerVars
    /\ UNCHANGED poolVars

-----------------------------------------------------------------------------
(* The schedule poller: runHostSchedulePoller, submitScheduleDeliveries.   *)

PollExit ==
    /\ pollPc = "loop"
    /\ rootDone
    /\ pollPc' = "exited"
    /\ UNCHANGED <<batch, pollJob, spawned, mainPc>>
    /\ UNCHANGED consumerVars
    /\ UNCHANGED poolVars

\* The check of the context at the loop's head passed; CollectDue found due jobs.
Collect ==
    /\ pollPc = "loop"
    /\ ~ rootDone
    /\ \E B \in (SUBSET (PollJobs \ spawned)) \ {{}} : batch' = B
    /\ pollPc' = "deliver"
    /\ UNCHANGED <<pollJob, spawned, mainPc>>
    /\ UNCHANGED consumerVars
    /\ UNCHANGED poolVars

\* The next delivery gets a goroutine; the context is not looked at.
Deliver ==
    /\ pollPc = "deliver"
    /\ \E j \in batch :
          /\ batch' = batch \ {j}
          /\ pollJob' = j
          /\ spawned' = spawned \cup {j}
    /\ pollPc' = "await"
    /\ UNCHANGED mainPc
    /\ UNCHANGED consumerVars
    /\ UNCHANGED poolVars

\* The delivery's goroutine is done: on with the batch, or back to the loop.
Awaited ==
    /\ pollPc = "await"
    /\ pc[pollJob] = "returned"
    /\ pollPc' = IF batch = {} THEN "loop" ELSE "deliver"
    /\ pollJob' = None
    /\ UNCHANGED <<batch, spawned, mainPc>>
    /\ UNCHANGED consumerVars
    /\ UNCHANGED poolVars

\* The root context is done first: the rest of the batch is dropped.
Abandon ==
    /\ pollPc = "await"
    /\ rootDone
    /\ pollPc' = "loop"
    /\ pollJob' = None
    /\ batch' = {}
    /\ UNCHANGED <<spawned, mainPc>>
    /\ UNCHANGED consumerVars
    /\ UNCHANGED poolVars

Poller == PollExit \/ Collect \/ Deliver \/ Awaited \/ Abandon

-----------------------------------------------------------------------------
(* main after the signal.                                                  *)

\* inboundInflight.Wait returns, the deferred bridge.Stop is next.
WaitInbound ==
    /\ mainPc = "serving"
    /\ rootDone
    /\ inbound = {}
    /\ mainPc' = "stopping"
    /\ UNCHANGED consumerVars
    /\ UNCHANGED pollerVars
    /\ UNCHANGED poolVars

\* bridge.Stop returns; the deferred workerPool.Close is next.
StopBridge ==
    /\ mainPc = "stopping"
    /\ mainPc' = "closing"
    /\ UNCHANGED consumerVars
    /\ UNCHANGED pollerVars
    /\ UNCHANGED poolVars

ClosePool(w) ==
    /\ mainPc = "closing"
    /\ CloseChan(w)
    /\ UNCHANGED hostVars

\* wg.Wait of Close returns and so does main.
MainExit ==
    /\ mainPc = "closing"
    /\ closed = Workers
    /\ WorkersGone
    /\ mainPc' = "exited"
    /\ UNCHANGED consumerVars
    /\ UNCHANGED pollerVars
    /\ UNCHANGED poolVars

Main == WaitInbound \/ StopBridge \/ (\E w \in Workers : ClosePool(w)) \/ MainExit

-----------------------------------------------------------------------------
Caller(j) == CancelSlot(j) \/ SubmitUser(j) \/ SendOnClosed(j)

Gone == ~ Alive /\ UNCHANGED allVars

\* The poller's turn that worker w runs never ends: its context is context.Background().
RunsForEver(w) == wpc[w] = "turn" /\ cur[w] \in Hanging \ RootJobs

\* wg.Wait of Close never returns: nothing cancels the turn a worker is in.
HeldUp == mainPc = "closing" /\ closed = Workers /\ \E w \in Workers : RunsForEver(w)

HostNext ==
    \/ \E j \in Jobs : Alive /\ Consume(j)
    \/ Alive /\ Dispatch
    \/ Alive /\ StopConsuming
    \/ \E j \in Jobs : Alive /\ Submit(j)
    \/ \E j \in Jobs : Alive /\ InboundDone(j)
    \/ \E j \in Jobs : Alive /\ Caller(j) /\ UNCHANGED hostVars
    \/ \E w \in Workers : Alive /\ RunWorker(w) /\ UNCHANGED hostVars
    \/ Alive /\ Poller
    \/ Alive /\ CancelRoot /\ UNCHANGED hostVars
    \/ Alive /\ Main
    \/ Gone
    \/ HeldUp /\ UNCHANGED allVars

\* The goroutines of the process are scheduled; signals, messages and due jobs are not owed.
HostFairness ==
    /\ WF_allVars(Alive /\ (Dispatch \/ StopConsuming))
    /\ \A j \in Jobs :
          /\ WF_allVars(Alive /\ (Submit(j) \/ InboundDone(j)))
          /\ WF_allVars(Alive /\ Caller(j) /\ UNCHANGED hostVars)
    /\ \A w \in Workers : WF_allVars(Alive /\ RunWorker(w) /\ UNCHANGED hostVars)
    /\ WF_allVars(Alive /\ (PollExit \/ Deliver \/ Awaited \/ Abandon))
    /\ WF_allVars(Alive /\ Main)

HostSpec == HostInit /\ [][HostNext]_allVars /\ HostFairness

-----------------------------------------------------------------------------
(* Properties.                                                             *)

\* The comment on Close (worker_pool.go:166): workers stop after draining each channel.
\* When main returns no accepted turn is queued or running, and none was dropped.
DrainedAtExit ==
    mainPc = "exited" =>
        /\ \A w \in Workers : chans[w] = <<>> /\ cur[w] = None
        /\ \A j \in Jobs : pc[j] = "waiting" => j \in finished

\* Ctrl-C ends the process, also while a turn of the bus hangs in its model call; the
\* goroutines never wait for each other in a circle.  One thing can keep it: a hanging turn
\* of the poller, which nothing cancels.  Then main gets as far as the wait in Close.
ShutdownTerminates == rootDone ~> (~ Alive \/ HeldUp)

\* The comment on Close (worker_pool.go:166): SubmitUser is not called after Close.
NoSendAfterClose == ~ Crashed

=============================================================================
