----------------------------- MODULE HostProofs -----------------------------
(***************************************************************************)
(* What WorkerPoolProofs shows of any steps of the pool holds of the       *)
(* program, whose callers do not keep to the pool's rules: every step of   *)
(* Host is one of AnyStep or leaves the pool alone.  And Close drains.     *)
(***************************************************************************)
EXTENDS Host, WorkerPoolProofs

\* main, the consumer and the poller act on the pool through its operations only.
LEMMA HostStepIsAnyStep == [HostNext]_allVars => [AnyStep]_poolVars
  <1> SUFFICES ASSUME HostNext
               PROVE  AnyStep \/ UNCHANGED poolVars
    BY DEF allVars
  <1>1. ASSUME NEW j \in Jobs, Consume(j) \/ InboundDone(j)
        PROVE  UNCHANGED poolVars
    BY <1>1 DEF Consume, InboundDone
  <1>2. ASSUME Dispatch \/ StopConsuming
        PROVE  UNCHANGED poolVars
    BY <1>2 DEF Dispatch, StopConsuming
  <1>3. ASSUME NEW j \in Jobs, Submit(j) \/ Caller(j)
        PROVE  AnyStep
    BY <1>3 DEF Submit, Caller, AnyStep
  <1>4. ASSUME Poller
        PROVE  UNCHANGED poolVars
    BY <1>4 DEF Poller, PollExit, Collect, Deliver, Awaited, Abandon
  <1>5. ASSUME Main
        PROVE  AnyStep \/ UNCHANGED poolVars
    BY <1>5 DEF Main, WaitInbound, StopBridge, ClosePool, MainExit, AnyStep
  <1>6. ASSUME Gone \/ UNCHANGED allVars
        PROVE  UNCHANGED poolVars
    BY <1>6 DEF Gone, allVars
  <1> QED
    BY <1>1, <1>2, <1>3, <1>4, <1>5, <1>6 DEF HostNext, AnyStep

\* The pool's invariants are invariants of the program.
LEMMA HostInvAlways == HostSpec => [](IInv /\ StopInv)
  <1>1. HostInit => IInv /\ StopInv
    BY InvInit, StopInit DEF HostInit
  <1>2. IInv /\ StopInv /\ [HostNext]_allVars => (IInv /\ StopInv)'
    BY InvStep, StopStep, HostStepIsAnyStep
  <1> QED
    BY <1>1, <1>2, PTL DEF HostSpec

\* Turns of one session do not overlap in the program either, its shutdown included.
THEOREM HostExclusion == HostSpec => []SessionMutex
  BY HostInvAlways, InvMutex, PTL

\* Nor does a /stop in the program reach a turn that has not started.
THEOREM HostStopIsAimed == HostSpec => []StopReachesOnlyStartedTurns
  BY HostInvAlways, InvStop, PTL

\* And the program keeps the promise about a session's turns, its shutdown included, with
\* the callers it really has.
THEOREM HostTurnsAreKept == HostSpec => ImplementsSessionTurns
  <1>1. HostInit => Turns!Init /\ AnsweredAreSent
    BY InitIsTurnInit DEF HostInit, Init, AnsweredAreSent
  <1>2. IInv /\ StopInv /\ AnsweredAreSent /\ [HostNext]_allVars => AnsweredAreSent'
    BY AnsweredStep, HostStepIsAnyStep DEF StopInv
  <1>3. IInv /\ StopInv /\ AnsweredAreSent /\ [HostNext]_allVars => [Turns!Next]_(Turns!vars)
    BY StepIsTurnStep, HostStepIsAnyStep DEF StopInv
  <1> QED
    BY <1>1, <1>2, <1>3, HostInvAlways, PTL DEF HostSpec, ImplementsSessionTurns, Turns!Spec

-----------------------------------------------------------------------------
(* Close drains.                                                           *)

\* A call that waits was sent, and its job is in its channel or was taken from it.
WaitingPlaced ==
    \A j \in Jobs : pc[j] = "waiting" => Started(j) \/ j \in Elems(chans[Shard(j)])

\* A worker leaves its loop only when its channel is closed and empty; no send follows.
LeftDrained ==
    \A w \in Workers : wpc[w] \in {"unwind", "exited"} => w \in closed /\ chans[w] = <<>>

DrainInv == WaitingPlaced /\ LeftDrained

\* A send places the job; a receive takes it to the worker.
LEMMA WaitingStep == IInv /\ WaitingPlaced /\ [AnyStep]_poolVars => WaitingPlaced'
  <1> SUFFICES ASSUME IInv, [AnyStep]_poolVars, WaitingPlaced, NEW j \in Jobs, pc'[j] = "waiting"
               PROVE  Started(j)' \/ j \in Elems(chans'[Shard(j)])
    BY DEF WaitingPlaced, Shard
  <1>0. Started(j) => Started(j)'
    BY StepKeeps
  <1>1. Shard(j) \in Workers
    BY PoolAssumption DEF Shard
  <1>2. CASE pc[j] = "waiting" /\ UNCHANGED chans
    BY <1>0, <1>2 DEF WaitingPlaced
  <1>3. ASSUME NEW i \in Jobs, Send(i)
        PROVE  Started(j)' \/ j \in Elems(chans'[Shard(j)])
    <2>1. Shard(i) \in Workers
      BY PoolAssumption DEF Shard
    <2>2. Elems(chans'[Shard(i)]) = Elems(chans[Shard(i)]) \cup {i}
      BY <1>3, <2>1, AppendFacts DEF Send, Enqueue, IInv, TypeOK
    <2>3. Shard(j) # Shard(i) => chans'[Shard(j)] = chans[Shard(j)]
      BY <1>1, <1>3, <2>1 DEF Send, IInv, TypeOK
    <2>4. j = i \/ pc[j] = "waiting"
      BY <1>3 DEF Send, IInv, TypeOK
    <2> QED
      BY <1>0, <2>2, <2>3, <2>4 DEF WaitingPlaced
  <1>4. ASSUME NEW w \in Workers, Receive(w)
        PROVE  Started(j)' \/ j \in Elems(chans'[Shard(j)])
    <2>1. Elems(chans[w]) = Elems(chans'[w]) \cup {cur'[w]}
      BY <1>4, TailFacts DEF Receive, IInv, TypeOK
    <2>2. Shard(j) # w => chans'[Shard(j)] = chans[Shard(j)]
      BY <1>1, <1>4 DEF Receive, IInv, TypeOK
    <2>3. cur'[w] = j => Started(j)'
      BY DEF Started
    <2>4. pc[j] = "waiting"
      BY <1>4 DEF Receive, callerVars
    <2> QED
      BY <1>0, <2>1, <2>2, <2>3, <2>4 DEF WaitingPlaced
  <1>5. ASSUME NEW i \in Jobs, \/ Call(i) \/ LookupInflight(i) \/ CancelSlot(i)
                               \/ SendOnClosed(i) \/ GiveUp(i) \/ TakeAnswer(i)
        PROVE  pc[j] = "waiting" /\ UNCHANGED chans
    BY <1>5 DEF Call, LookupInflight, CancelSlot, SendOnClosed, GiveUp, TakeAnswer, IInv, TypeOK
  <1>6. ASSUME NEW w \in Workers, RunWorker(w), ~ Receive(w)
        PROVE  pc[j] = "waiting" /\ UNCHANGED chans
    BY <1>6 DEF RunWorker, FactoryFails, StartTurn, EndTurn, Reply, LeaveLoop, ClearInflight, Exit,
                callerVars
  <1>7. ASSUME CancelRoot \/ UNCHANGED poolVars \/ \E w \in Workers : CloseChan(w)
        PROVE  pc[j] = "waiting" /\ UNCHANGED chans
    BY <1>7 DEF CancelRoot, CloseChan, poolVars, callerVars
  <1> QED
    BY <1>2, <1>3, <1>4, <1>5, <1>6, <1>7 DEF AnyStep, SubmitUser

\* Nothing is sent on, or received from, a channel whose worker has left its loop.
LEMMA LeftStep == IInv /\ LeftDrained /\ [AnyStep]_poolVars => LeftDrained'
  <1> SUFFICES ASSUME IInv, [AnyStep]_poolVars, LeftDrained,
                      NEW v \in Workers, wpc'[v] \in {"unwind", "exited"}
               PROVE  v \in closed' /\ chans'[v] = <<>>
    BY DEF LeftDrained
  <1>1. ASSUME NEW j \in Jobs, Send(j)
        PROVE  v \in closed' /\ chans'[v] = <<>>
    <2>1. Shard(j) \in Workers /\ Shard(j) \notin closed /\ UNCHANGED <<closed, wpc>>
      BY <1>1, PoolAssumption DEF Send, Shard, workerVars
    <2>2. v \in closed /\ chans[v] = <<>>
      BY <2>1 DEF LeftDrained
    <2>3. chans'[v] = chans[v]
      BY <1>1, <2>1, <2>2 DEF Send, IInv, TypeOK
    <2> QED
      BY <2>1, <2>2, <2>3
  <1>2. ASSUME NEW w \in Workers, Receive(w)
        PROVE  v \in closed' /\ chans'[v] = <<>>
    BY <1>2 DEF Receive, LeftDrained, IInv, TypeOK
  <1>3. ASSUME NEW w \in Workers, Reply(w) \/ StartTurn(w)
        PROVE  v \in closed' /\ chans'[v] = <<>>
    BY <1>3 DEF Reply, StartTurn, LeftDrained, IInv, TypeOK
  <1>4. ASSUME NEW w \in Workers, LeaveLoop(w) \/ ClearInflight(w) \/ Exit(w)
        PROVE  v \in closed' /\ chans'[v] = <<>>
    BY <1>4 DEF LeaveLoop, ClearInflight, Exit, Drained, LeftDrained, IInv, TypeOK
  <1>5. ASSUME NEW j \in Jobs, \/ Call(j) \/ LookupInflight(j) \/ CancelSlot(j)
                               \/ SendOnClosed(j) \/ GiveUp(j) \/ TakeAnswer(j)
        PROVE  v \in closed' /\ chans'[v] = <<>>
    BY <1>5 DEF Call, LookupInflight, CancelSlot, SendOnClosed, GiveUp, TakeAnswer, workerVars,
                LeftDrained
  <1>6. ASSUME CancelRoot \/ UNCHANGED poolVars \/ \E w \in Workers : CloseChan(w)
        PROVE  v \in closed' /\ chans'[v] = <<>>
    BY <1>6 DEF CancelRoot, CloseChan, poolVars, workerVars, LeftDrained
  <1> QED
    BY <1>1, <1>2, <1>3, <1>4, <1>5, <1>6 DEF AnyStep, SubmitUser, RunWorker, FactoryFails, EndTurn

\* main returns after the workers, and nothing happens after main has returned.
ExitIsLast == mainPc = "exited" => WorkersGone

\* No step of the process brings a worker back once main has returned.
LEMMA ExitStep == ExitIsLast /\ [HostNext]_allVars => ExitIsLast'
  <1> SUFFICES ASSUME ExitIsLast, HostNext, mainPc' = "exited"
               PROVE  WorkersGone'
    BY DEF ExitIsLast, allVars, poolVars, hostVars, WorkersGone
  <1>1. CASE MainExit
    BY <1>1 DEF MainExit, WorkersGone, poolVars
  <1>2. CASE Gone \/ UNCHANGED allVars
    BY <1>2 DEF Gone, ExitIsLast, allVars, poolVars, hostVars, WorkersGone
  <1>3. ASSUME Alive, ~ MainExit, ~ UNCHANGED allVars
        PROVE  mainPc' # "exited"
    BY <1>3 DEF HostNext, Alive, Consume, Dispatch, StopConsuming, Submit, InboundDone, hostVars, Poller,
                PollExit, Collect, Deliver, Awaited, Abandon, Main, WaitInbound, StopBridge, ClosePool, Gone
  <1> QED
    BY <1>1, <1>2, <1>3 DEF HostNext, Gone

\* Close: when main returns, each accepted turn has been run to its end.
THEOREM CloseDrains == HostSpec => []DrainedAtExit
  <1>1. HostInit => DrainInv /\ ExitIsLast
    BY DEF HostInit, Init, DrainInv, WaitingPlaced, LeftDrained, ExitIsLast
  <1>2. IInv /\ DrainInv /\ ExitIsLast /\ [HostNext]_allVars => (DrainInv /\ ExitIsLast)'
    BY WaitingStep, LeftStep, ExitStep, HostStepIsAnyStep DEF DrainInv
  <1>3. ASSUME IInv, DrainInv, ExitIsLast, mainPc = "exited"
        PROVE  /\ \A w \in Workers : chans[w] = <<>> /\ cur[w] = None
               /\ \A j \in Jobs : pc[j] = "waiting" => j \in finished
    <2>1. \A w \in Workers : chans[w] = <<>> /\ cur[w] = None
      BY <1>3 DEF DrainInv, LeftDrained, ExitIsLast, WorkersGone, IInv, Holding
    <2>2. ASSUME NEW j \in Jobs, pc[j] = "waiting"
          PROVE  j \in finished
      <3>1. Shard(j) \in Workers /\ None \notin Jobs
        BY PoolAssumption DEF Shard
      <3>2. j \notin Elems(chans[Shard(j)])
        BY <2>1, <3>1, EmptyElems
      <3> QED
        BY <1>3, <2>1, <2>2, <3>1, <3>2 DEF DrainInv, WaitingPlaced, Started
    <2> QED
      BY <2>1, <2>2
  <1>4. IInv /\ DrainInv /\ ExitIsLast => DrainedAtExit
    BY <1>3 DEF DrainedAtExit
  <1> QED
    BY <1>1, <1>2, <1>4, HostInvAlways, PTL DEF HostSpec

=============================================================================
